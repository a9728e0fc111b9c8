-------------------------------- MODULE Hevc --------------------------------
(***************************************************************************)
(* The HEVC translator (hevc.cc): parameter sets made from what VA tells   *)
(* of a picture, and slice headers rewritten for them, with the reference  *)
(* picture set and the reference lists spelled out.                        *)
(*                                                                         *)
(* The syntax of a slice header (external, H.265 7.3.6.1) is given once:   *)
(* SliceHeader(ps, total, h) is the sequence of its elements.  The client  *)
(* has parsed one that was coded for the parameter sets of the stream; the *)
(* translator writes one that the decoder parses with the generated sets.  *)
(* An element stands for its bits.  A short-term set or a long-term        *)
(* section is one element, and so is everything from the weighted          *)
(* prediction table to the extension ("tail").                             *)
(*                                                                         *)
(* X_f is a mutant of f: a bug the code could have.  Nothing uses it.      *)
(***************************************************************************)
EXTENDS Integers, Sequences, FiniteSets
LOCAL INSTANCE FiniteSetsExt
LOCAL INSTANCE SequencesExt

CONSTANTS
  Lsb,              \* 2^(log2_max_pic_order_cnt_lsb_minus4 + 4)
  MaxDelta,         \* 32768: difference of two neighbours in a short-term set
  Pocs, Current,    \* bound: POCs of references; that of the picture
  Streams, PlainStream,         \* bound: parameter sets of streams
  MaxReferences,    \* bound: pictures in ReferenceFrames
  Side, Matrices    \* bound: rows of a scaling list; those the client has

ASSUME HevcAssumption ==
  /\ Lsb \in Nat \ {0} /\ MaxDelta \in Nat /\ Pocs \subseteq Nat /\ Current \in Nat
  /\ MaxReferences \in Nat /\ Side \in Nat \ {0}
  /\ \A m \in Matrices : m.dc \in 1 .. 255 /\ m.values \in [1 .. Side * Side -> 1 .. 255]

VARIABLES
  started, no_rasl_output, scaling,       \* of the translator
  opened,           \* the last IRAP translated opened a sequence for the decoder (ghost)
  request,          \* picture and slice that were translated last (ghost)
  hevc_au           \* what came of them; Refused if translate() threw

hevcVars == <<started, no_rasl_output, scaling, opened, request, hevc_au>>

Refused == [slice |-> <<>>]
NoMatrix == [values |-> <<>>]
Trail == 1  Rasl == 8  Bla == 16  Idr == 19  Cra == 21
NalTypes == {Trail, Rasl, Bla, Idr, Cra}
B == 0  P == 1  I == 2          \* slice_type

If(c, s) == IF c THEN s ELSE <<>>
Flags(b) == IF b THEN 1 ELSE 0
Element(name, value) == <<[name |-> name, value |-> value]>>
-----------------------------------------------------------------------------
(* The syntax of a slice header.  h.lists[l] is <<>> or the entries of the *)
(* modification of list l, h.counts the sizes of both lists.               *)

Lists(h) == IF h.slice_type = B THEN {1, 2} ELSE {1}

Modification(ps, total, h, l) ==
  If(ps.lists_modification_present_flag /\ total > 1,
     Element("modification", Flags(h.lists[l] # <<>>))
     \o FlattenSeq([j \in DOMAIN h.lists[l] |-> Element("entry", h.lists[l][j])]))

SliceHeader(ps, total, h) ==
  Element("first", Flags(h.first))
  \o If(h.type \in 16 .. 23, Element("no_output_of_prior_pics", h.no_output))
  \o Element("pps", h.pps)
  \o If(~h.first, If(ps.dependent_slice_segments_enabled_flag,
                     Element("dependent", Flags(h.dependent)))
                  \o Element("address", h.address))
  \o If(~h.dependent,
       FlattenSeq([i \in 1 .. ps.num_extra_slice_header_bits |-> Element("extra", i)])
       \o Element("slice_type", h.slice_type)
       \o If(ps.output_flag_present_flag, Element("pic_output", h.pic_output))
       \o If(h.type \notin {19, 20},
            Element("lsb", h.poc % Lsb) \o Element("short_term", h.short_term)
            \o If(ps.long_term_ref_pics_present_flag, Element("long_term", h.long_term))
            \o If(ps.sps_temporal_mvp_enabled_flag, Element("mvp", h.mvp)))
       \o If(ps.sample_adaptive_offset_enabled_flag, Element("sao", 0) \o Element("sao", 1))
       \o If(h.slice_type # I,
            (IF h.counts = ps.defaults THEN Element("override", 0)
             ELSE Element("override", 1) \o Element("count", h.counts[1])
                  \o If(h.slice_type = B, Element("count", h.counts[2])))
            \o Modification(ps, total, h, 1)
            \o If(h.slice_type = B, Modification(ps, total, h, 2))))
  \o Element("tail", h.tail) \o Element("alignment", 1) \o Element("data", h.tail)
-----------------------------------------------------------------------------
(* References and parameter sets.                                          *)

\* collect_references: `frames` is ReferenceFrames, a sequence of records; an
\* invalid entry is skipped.  References are sorted towards the picture's POC.
Collides(frames, poc) ==
  \E i \in DOMAIN frames : frames[i].valid
    /\ (frames[i].poc = poc
        \/ \E j \in DOMAIN frames : j # i /\ frames[j].valid /\ frames[j].poc = frames[i].poc)

collect_references(frames, poc) ==
  LET Sorted(S, up) ==
        SetToSortSeq({[index |-> i, poc |-> frames[i].poc, used |-> frames[i].used] : i \in S},
                     LAMBDA a, b : IF up THEN a.poc < b.poc ELSE a.poc > b.poc)
      valid  == {i \in DOMAIN frames : frames[i].valid}
      lt     == {i \in valid : frames[i].long_term}
      before == Sorted({i \in valid \ lt : frames[i].poc < poc}, FALSE)
      after  == Sorted({i \in valid \ lt : frames[i].poc >= poc}, TRUE)
      long_term == Sorted(lt, FALSE)
      Used(s) == LET u == SelectSeq(s, LAMBDA r : r.used) IN [k \in DOMAIN u |-> u[k].index]
  IN [before |-> before, after |-> after, long_term |-> long_term,
      list |-> <<Used(before) \o Used(after) \o Used(long_term),
                 Used(after) \o Used(before) \o Used(long_term)>>]
total_curr(refs) == Len(refs.list[1])

\* write_rps: each POC as a difference to its neighbour; long-term ones by lsb
\* and a cycle of the msb that may only grow from one to the next.
Deltas(sorted, poc) ==
  [k \in DOMAIN sorted |->
     LET previous == IF k = 1 THEN poc ELSE sorted[k - 1].poc
         gap == IF sorted[k].poc > previous THEN sorted[k].poc - previous
                ELSE previous - sorted[k].poc
     IN [delta |-> gap, used |-> sorted[k].used]]
Cycle(r, poc) == ((poc - (poc % Lsb)) - (r.poc - (r.poc % Lsb))) \div Lsb

short_term_set(refs, poc) ==
  [form |-> "explicit", before |-> Deltas(refs.before, poc), after |-> Deltas(refs.after, poc)]
X_long_term_section(refs, poc) ==
  [k \in DOMAIN refs.long_term |->
     LET r == refs.long_term[k]
     IN [lsb |-> r.poc % Lsb, used |-> r.used, cycle |-> Cycle(r, poc)]]
long_term_section(refs, poc) ==
  [k \in DOMAIN refs.long_term |->
     LET r == refs.long_term[k]
         previous == IF k = 1 THEN 0 ELSE Cycle(refs.long_term[k - 1], poc)
     IN [lsb |-> r.poc % Lsb, used |-> r.used, cycle |-> Cycle(r, poc) - previous]]

writable_rps(refs, poc, ps) ==
  /\ \A s \in {refs.before, refs.after} : \A k \in DOMAIN s :
       Deltas(s, poc)[k].delta \in 1 .. MaxDelta
  /\ IF ps.long_term_ref_pics_present_flag
     THEN \A k \in DOMAIN refs.long_term : long_term_section(refs, poc)[k].cycle >= 0
     ELSE refs.long_term = <<>>

\* One scaling list: VA has it row by row; it is written along the up-right
\* diagonals, each value as its difference to the one before.  `large` lists,
\* 16x16 and 32x32, begin with their DC value.
Diagonals ==
  FlattenSeq([d \in 1 .. 2 * Side - 1 |->
    LET top == IF d < Side THEN d - 1 ELSE Side - 1
    IN SelectSeq([k \in 1 .. top + 1 |-> [y |-> top - k + 1, x |-> d - 1 - (top - k + 1)]],
                 LAMBDA c : c.x < Side)])
scaling_lists(m) ==
  LET At_(k) == m.values[Diagonals[k].y * Side + Diagonals[k].x + 1]
      first == IF m.large THEN m.dc ELSE 8
      Delta(k) == (At_(k) - (IF k = 1 THEN first ELSE At_(k - 1)) + 256) % 256
  IN [large |-> m.large, dc |-> IF m.large THEN m.dc - 8 ELSE 0,
      deltas |-> [k \in DOMAIN m.values |->
                    IF Delta(k) > 127 THEN Delta(k) - 256 ELSE Delta(k)]]

\* The generated parameter sets, as far as slices are parsed with them.  The SPS
\* has no reference picture sets of its own, the PPS always allows modification
\* of the lists; what else a slice depends on is the stream's.
hevc_vps == [vps |-> 0, max_sub_layers |-> 2]
hevc_sps(ps, matrix) ==
  [scaling_list |-> IF ps.scaling_list_enabled_flag /\ matrix # NoMatrix
                    THEN scaling_lists(matrix) ELSE NoMatrix,
   num_short_term_ref_pic_sets |-> 0, num_long_term_ref_pics_sps |-> 0,
   long_term_ref_pics_present_flag |-> ps.long_term_ref_pics_present_flag,
   sps_temporal_mvp_enabled_flag |-> ps.sps_temporal_mvp_enabled_flag,
   sample_adaptive_offset_enabled_flag |-> ps.sample_adaptive_offset_enabled_flag]
hevc_pps(ps) ==
  [dependent_slice_segments_enabled_flag |-> ps.dependent_slice_segments_enabled_flag,
   output_flag_present_flag |-> ps.output_flag_present_flag,
   num_extra_slice_header_bits |-> ps.num_extra_slice_header_bits,
   defaults |-> ps.defaults, lists_modification_present_flag |-> TRUE]
\* Both, as the decoder has them.
Generated(au) ==
  [f \in DOMAIN au.sps \cup DOMAIN au.pps |-> IF f \in DOMAIN au.sps THEN au.sps[f] ELSE au.pps[f]]
-----------------------------------------------------------------------------
(* rewrite_slice: `in` is the original header, va the slice parameters VA   *)
(* has of it.  The reader's position advances from one syntax element to    *)
(* the next; past the end it reads zeros.                                   *)

At(in, p) == IF p \in DOMAIN in THEN in[p].value ELSE 0
Copy(in, from, to) == SubSeq(in, from, IF to <= Len(in) THEN to ELSE Len(in))
IndexIn(list, x) == CHOOSE i \in DOMAIN list : list[i] = x

Positions(in, type, ps, total) ==
  LET pps   == IF type \in 16 .. 23 THEN 3 ELSE 2
      first == in[1].value = 1
      dependent == ~first /\ ps.dependent_slice_segments_enabled_flag /\ At(in, pps + 1) = 1
      address == pps + IF first THEN 0 ELSE IF ps.dependent_slice_segments_enabled_flag THEN 2 ELSE 1
      slice_type == address + ps.num_extra_slice_header_bits + 1
      output == slice_type + Flags(ps.output_flag_present_flag)
      rps    == IF type \in {19, 20} THEN output
                ELSE output + 2 + Flags(ps.long_term_ref_pics_present_flag)
      mvp    == rps + Flags(type \notin {19, 20} /\ ps.sps_temporal_mvp_enabled_flag)
      override == mvp + (IF ps.sample_adaptive_offset_enabled_flag THEN 2 ELSE 0) + 1
      b      == At(in, slice_type) = B
      counted == override + (IF At(in, override) = 0 THEN 0 ELSE IF b THEN 2 ELSE 1)
      counts == IF At(in, override) = 0 THEN ps.defaults
                ELSE <<At(in, override + 1), IF b THEN At(in, override + 2) ELSE ps.defaults[2]>>
      After(p, l) == IF ~(ps.lists_modification_present_flag /\ total > 1) THEN p
                     ELSE p + 1 + IF At(in, p + 1) = 1 THEN counts[l] ELSE 0
      mods   == IF b THEN After(After(counted, 1), 2) ELSE After(counted, 1)
  IN [pps |-> pps, dependent |-> dependent, address |-> address, slice_type |-> slice_type,
      output |-> output, rps |-> rps, counts |-> counts, counted |-> counted,
      end |-> IF dependent THEN address
              ELSE IF At(in, slice_type) = I THEN override - 1 ELSE mods]

\* What must hold of a slice, or translate() throws.
acceptable_slice(in, type, ps, poc, va, refs) ==
  LET at == Positions(in, type, ps, total_curr(refs))
      inter == ~at.dependent /\ At(in, at.slice_type) # I
  IN /\ at.address > at.pps => At(in, at.address) = va.address
     /\ ~at.dependent => At(in, at.slice_type) = va.slice_type
     /\ ~at.dependent /\ type \notin {19, 20} =>
          /\ writable_rps(refs, poc, ps)
          /\ LET st == At(in, at.output + 2) IN
               CASE st.form = "explicit"  -> Len(st.before) + Len(st.after) <= 16
                 [] st.form = "sps"       -> ps.num_short_term_ref_pic_sets > 0
                 [] st.form = "predicted" -> ps.num_short_term_ref_pic_sets > 0 /\ va.st_rps_bits > 0
          /\ ps.long_term_ref_pics_present_flag =>
               LET lt == At(in, at.output + 3) IN
                 lt.of_sps <= ps.num_long_term_ref_pic_sps /\ Len(lt.lsbs) <= 16
     /\ inter =>
          /\ total_curr(refs) \in 1 .. 16
          /\ \A l \in IF va.slice_type = B THEN {1, 2} ELSE {1} :
               /\ at.counts[l] <= 15
               /\ \A j \in 1 .. at.counts[l] :
                    \E k \in DOMAIN refs.list[l] : refs.list[l][k] = va.RefPicList[l][j]
     /\ at.end < Len(in) - 1

rewrite_slice(in, type, ps, poc, va, refs) ==
  LET total == total_curr(refs)
      at == Positions(in, type, ps, total)
      idr == type \in {19, 20}
      OurList(l) ==
        If(total > 1, Element("modification", 1)
           \o FlattenSeq([j \in 1 .. at.counts[l] |->
                Element("entry", IndexIn(refs.list[l], va.RefPicList[l][j]) - 1)]))
      own == If(At(in, at.slice_type) # I,
                OurList(1) \o If(At(in, at.slice_type) = B, OurList(2)))
      rps == If(~idr, Copy(in, at.output + 1, at.output + 1)
                      \o Element("short_term", short_term_set(refs, poc))
                      \o If(ps.long_term_ref_pics_present_flag,
                            Element("long_term", long_term_section(refs, poc))))
      until == IF At(in, at.slice_type) = I THEN at.end ELSE at.counted
  IN Copy(in, 1, 1)
     \o If(type \in 16 .. 23, Element("no_output_of_prior_pics", 0)) \o Element("pps", 0)
     \o Copy(in, at.pps + 1, at.address)
     \o If(~at.dependent,
          Copy(in, at.address + 1, at.slice_type)
          \o If(ps.output_flag_present_flag, Element("pic_output", 1))
          \o rps \o Copy(in, at.rps + 1, until) \o own)
     \o Copy(in, at.end + 1, Len(in))
-----------------------------------------------------------------------------
(* The translator and its client.                                          *)

HevcInit ==
  /\ started = FALSE /\ no_rasl_output = FALSE /\ scaling = NoMatrix /\ opened = FALSE
  /\ request = <<>> /\ hevc_au = Refused

\* Whether RASL pictures are refused after an IRAP picture of this type.
X_no_rasl_after(type) == type <= 20
no_rasl_after(type)   == ~started \/ type <= 20

\* translate, with one slice: type, RASL and reference checks come first, the
\* state of the translator is only moved once everything has been written, except
\* the scaling lists, which stay until others come.
translate_hevc(type, ps, poc, frames, va, in, matrix) ==
  LET refs == collect_references(frames, poc)
      ok == /\ started \/ type \in 16 .. 21
            /\ ~(no_rasl_output /\ type \in {8, 9})
            /\ ~Collides(frames, poc)
            /\ acceptable_slice(in, type, ps, poc, va, refs)
  IN /\ scaling' = IF matrix # NoMatrix THEN matrix ELSE scaling
     /\ hevc_au' = IF ok THEN [vps |-> hevc_vps, sps |-> hevc_sps(ps, scaling'), pps |-> hevc_pps(ps),
                               slice |-> rewrite_slice(in, type, ps, poc, va, refs)]
                   ELSE Refused
     /\ started' = (started \/ ok)
     /\ no_rasl_output' = IF ok /\ type \in 16 .. 21 THEN no_rasl_after(type)
                          ELSE no_rasl_output

\* The references of a picture: each POC in at most one role.
Roles == {"st", "st foll", "lt", "lt foll"}
ReferenceSets ==
  UNION {[S -> Roles] : S \in {T \in SUBSET Pocs : Cardinality(T) <= MaxReferences}}
Frames(roles) ==
  LET pocs == SetToSortSeq(DOMAIN roles, LAMBDA a, b : a < b)
  IN [i \in DOMAIN pocs |->
        [poc |-> pocs[i], valid |-> TRUE, used |-> roles[pocs[i]] \in {"st", "lt"},
         long_term |-> roles[pocs[i]] \in {"lt", "lt foll"}]]
     \o <<[poc |-> 0, valid |-> FALSE, used |-> TRUE, long_term |-> FALSE]>>

\* The header the stream has: its own way to code the set, its own order of the
\* lists.  va is what the client makes of it.
Slice(type, ps, roles, slice_type, first, dependent, counts, order) ==
  LET refs  == collect_references(Frames(roles), Current)
      total == total_curr(refs)
      long  == Len(refs.long_term)
      Active(l) == [j \in 1 .. counts[l] |-> IF order = 1 THEN ((j - 1) % total) + 1
                                             ELSE total - ((j - 1) % total)]
  IN [va |-> [address |-> 1, slice_type |-> slice_type,
              st_rps_bits |-> IF ps.form = "predicted" THEN 5 ELSE 0,
              RefPicList |-> IF total = 0 THEN <<<<>>, <<>>>>
                             ELSE [l \in 1 .. 2 |->
                                     [j \in 1 .. counts[l] |-> refs.list[l][Active(l)[j]]]]],
      h |-> [type |-> type, first |-> first, dependent |-> dependent, no_output |-> 1, pps |-> 3,
             address |-> 1, slice_type |-> slice_type, pic_output |-> 0, poc |-> Current,
             short_term |-> IF ps.form = "explicit" THEN short_term_set(refs, Current)
                            ELSE [form |-> ps.form],
             long_term |-> [of_sps |-> Min({long, ps.num_long_term_ref_pic_sps}),
                            lsbs |-> [k \in 1 .. long |-> refs.long_term[k].poc % Lsb]],
             mvp |-> 1, counts |-> counts, tail |-> 7,
             lists |-> IF order = 1 THEN <<<<>>, <<>>>>
                       ELSE [l \in 1 .. 2 |-> [j \in 1 .. counts[l] |-> Active(l)[j] - 1]]]]

\* The decoder has seen no picture before, or skips the leading ones after a BLA.
Opens(type) == type \in 16 .. 20 \/ (type = Cra /\ ~started)

submit_hevc(type, ps, roles, slice_type, first, dependent, counts, order, matrix) ==
  LET s  == Slice(type, ps, roles, slice_type, first, dependent, counts, order)
      in == SliceHeader(ps, total_curr(collect_references(Frames(roles), Current)), s.h)
  IN /\ translate_hevc(type, ps, Current, Frames(roles), s.va, in, matrix)
     /\ request' = [ps |-> ps, frames |-> Frames(roles), slice |-> s]
     /\ opened' = IF hevc_au' # Refused /\ type \in 16 .. 21 THEN Opens(type) ELSE opened

\* Every sequence of picture types with the plainest slice there is, and every
\* slice after an IDR picture; a slice with references ends the behaviour.
Plain(type, matrix, lists) ==
  submit_hevc(type, [PlainStream EXCEPT !.scaling_list_enabled_flag = lists], <<>>, I, TRUE, FALSE,
              <<1, 1>>, 1, matrix)
HevcNext ==
  \/ /\ request # <<>> => request.frames = Frames(<<>>)
     /\ \E type \in NalTypes, matrix \in {NoMatrix} \cup Matrices, lists \in BOOLEAN :
          Plain(type, matrix, lists)
  \/ /\ request # <<>> /\ request.slice.h.type = Idr /\ scaling = NoMatrix
     /\ \E ps \in Streams, type \in {Trail, Cra}, slice_type \in {B, P, I},
          first, dependent \in BOOLEAN, counts \in {<<1, 1>>, <<2, 3>>}, order \in 1 .. 2 :
          /\ dependent => ~first /\ ps.dependent_slice_segments_enabled_flag /\ slice_type = I
          /\ order = 2 => ps.lists_modification_present_flag
          /\ slice_type = I => order = 1 /\ counts = <<1, 1>>
          /\ type = Cra => slice_type = I
          /\ \E roles \in ReferenceSets :
               /\ slice_type # I => \E x \in DOMAIN roles : roles[x] \in {"st", "lt"}
               /\ (\E x \in DOMAIN roles : roles[x] \in {"lt", "lt foll"})
                    => ps.long_term_ref_pics_present_flag
               /\ submit_hevc(type, ps, roles, slice_type, first, dependent, counts, order, NoMatrix)
HevcSpec == HevcInit /\ [][HevcNext]_hevcVars
-----------------------------------------------------------------------------
(* What the decoder makes of a rewritten header (external, 8.3.2, 8.3.4).  *)

ElementOf(au, name) == au[CHOOSE i \in DOMAIN au : au[i].name = name].value
Sum(s) == FoldLeft(LAMBDA a, b : a + b, 0, s)
Upto(s, k, Of(_)) == Sum([i \in 1 .. k |-> Of(s[i])])

DecodedBefore(st) ==
  [k \in DOMAIN st.before |->
     [poc |-> Current - Upto(st.before, k, LAMBDA d : d.delta), used |-> st.before[k].used]]
DecodedAfter(st) ==
  [k \in DOMAIN st.after |->
     [poc |-> Current + Upto(st.after, k, LAMBDA d : d.delta), used |-> st.after[k].used]]
DecodedLong(lt) ==
  [k \in DOMAIN lt |->
     [poc |-> Current - (Current % Lsb) - Lsb * Upto(lt, k, LAMBDA d : d.cycle) + lt[k].lsb,
      used |-> lt[k].used]]

\* A scaling list, row by row (external, 7.3.4 and 6.5.3).
DecodedList(list) ==
  LET first == IF list.large THEN list.dc + 8 ELSE 8
      Scan(c) == Cardinality({e \in (0 .. Side - 1) \X (0 .. Side - 1) :
                   e[1] + e[2] < c[1] + c[2] \/ (e[1] + e[2] = c[1] + c[2] /\ e[1] <= c[1])})
  IN [i \in 1 .. Side * Side |->
       (first + Upto(list.deltas, Scan(<<(i - 1) % Side, (i - 1) \div Side>>), LAMBDA d : d)
        + 256 * Side * Side) % 256]

UsedPocs(s) == LET u == SelectSeq(s, LAMBDA r : r.used) IN [k \in DOMAIN u |-> u[k].poc]

\* Everything but what had to change is as it was.
KeepsFields(au, total, entries) ==
  LET h == request.slice.h
      split == IF Len(entries) > h.counts[1] THEN h.counts[1] ELSE Len(entries)
  IN au = SliceHeader(Generated(hevc_au), total,
       [h EXCEPT !.pps = 0, !.no_output = 0, !.pic_output = 1,
          !.short_term = IF h.dependent \/ h.type = Idr THEN @ ELSE ElementOf(au, "short_term"),
          !.long_term  = IF h.dependent \/ h.type = Idr
                            \/ ~request.ps.long_term_ref_pics_present_flag
                         THEN @ ELSE ElementOf(au, "long_term"),
          !.lists = <<SubSeq(entries, 1, split), SubSeq(entries, split + 1, Len(entries))>>])

\* The SPS of a stream with scaling lists has those that came last, value for
\* value, and no list before the first came (hevc.cc:366, 71).
ScalingListsDecode ==
  LET lists == hevc_au.sps.scaling_list
  IN IF request.ps.scaling_list_enabled_flag /\ scaling # NoMatrix
     THEN /\ lists # NoMatrix /\ DecodedList(lists) = scaling.values
          /\ scaling.large => lists.dc + 8 = scaling.dc
     ELSE lists = NoMatrix

\* The rewritten header is one that the generated parameter sets parse, with
\* everything but what had to change as it was; the reference picture set in it
\* holds the pictures VA has, in their roles, and its lists are VA's lists, however
\* the stream coded either; and the SPS has VA's scaling lists (hevc.cc:3-8, 183).
HevcSliceDecodes ==
  hevc_au # Refused => ScalingListsDecode /\
    LET ps == request.ps
        au == hevc_au.slice
        s  == request.slice
        found == SelectSeq(au, LAMBDA e : e.name = "entry")
        entries == [j \in DOMAIN found |-> found[j].value]
        frames == {request.frames[i] : i \in {j \in DOMAIN request.frames : request.frames[j].valid}}
        Given(lt, Where(_)) == {[poc |-> f.poc, used |-> f.used] :
                                 f \in {g \in frames : g.long_term = lt /\ Where(g.poc)}}
    IN IF s.h.dependent \/ s.h.type = Idr THEN KeepsFields(au, 0, entries)
       ELSE LET st == ElementOf(au, "short_term")
                before == DecodedBefore(st)
                after  == DecodedAfter(st)
                long   == IF ps.long_term_ref_pics_present_flag
                          THEN DecodedLong(ElementOf(au, "long_term")) ELSE <<>>
                initial == <<UsedPocs(before) \o UsedPocs(after) \o UsedPocs(long),
                             UsedPocs(after) \o UsedPocs(before) \o UsedPocs(long)>>
                total == Len(initial[1])
                Entry(l, j) == IF total = 1 THEN 0 ELSE entries[j + IF l = 1 THEN 0 ELSE s.h.counts[1]]
            IN /\ ToSet(before) = Given(FALSE, LAMBDA p : p < Current)
               /\ ToSet(after)  = Given(FALSE, LAMBDA p : p > Current)
               /\ ToSet(long)   = Given(TRUE, LAMBDA p : TRUE)
               /\ KeepsFields(au, total, entries)
               /\ s.h.slice_type # I =>
                    \A l \in Lists(s.h) : \A j \in 1 .. s.h.counts[l] :
                      initial[l][Entry(l, j) + 1] = request.frames[s.va.RefPicList[l][j]].poc

\* Decoding starts at an IRAP picture, and a RASL picture is passed on just when
\* the IRAP picture before it did not open the sequence: it refers to pictures
\* the decoder has never seen, or it would be missed (hevc.cc:391).
HevcAdmits ==
  /\ hevc_au # Refused => started
  /\ request # <<>> /\ request.slice.h.type = Rasl =>
       (hevc_au # Refused) = (started /\ ~opened)
=============================================================================
