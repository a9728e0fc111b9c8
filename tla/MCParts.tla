------------------------------ MODULE MCParts -------------------------------
(* The parts of the driver that share no state with each other, each on an *)
(* instance of its own: a behaviour is one of the part that was chosen in  *)
(* its first state, and the others stay as they begin.                     *)
EXTENDS Layout, Av1, Bits, Vp9, H264, Hevc, Device, TLC

VARIABLE part

Parts == {"layout", "av1", "bits", "vp9", "h264", "hevc", "device"}

PartsInit ==
  /\ part \in Parts
  /\ LayoutInit /\ Av1Init /\ BitsInit /\ Vp9Init /\ H264Init /\ HevcInit /\ DeviceInit
  /\ part # "device" => fd = open_device("")

\* Every part but p stays as it is.
Only(p) ==
  /\ UNCHANGED part
  /\ p # "layout" => UNCHANGED layoutVars
  /\ p # "av1"    => UNCHANGED av1Vars
  /\ p # "bits"   => UNCHANGED bitsVars
  /\ p # "vp9"    => UNCHANGED vp9Vars
  /\ p # "h264"   => UNCHANGED h264Vars
  /\ p # "hevc"   => UNCHANGED hevcVars
  /\ p # "device" => UNCHANGED deviceVars

PartsNext ==
  \/ part = "layout" /\ LayoutNext /\ Only("layout")
  \/ part = "av1" /\ Av1Next /\ Only("av1")
  \/ part = "bits" /\ BitsNext /\ Only("bits")
  \/ part = "vp9" /\ Vp9Next /\ Only("vp9")
  \/ part = "h264" /\ H264Next /\ Only("h264")
  \/ part = "hevc" /\ HevcNext /\ Only("hevc")
  \/ part = "device" /\ DeviceNext /\ Only("device")

PartsSpec == PartsInit /\ [][PartsNext]_<<part, layoutVars, av1Vars, bitsVars, vp9Vars,
                                          h264Vars, hevcVars, deviceVars>>
-----------------------------------------------------------------------------
(* Values of their constants.                                              *)

\* Formats a kernel may grant for the geometries: as the Iris driver lays them
\* out, and others: tight, padded or too small.
SomeGrants ==
  LET Format(b, w, h, s, z) == [bytes |-> b, width |-> w, height |-> h, stride |-> s, size |-> z]
  IN {Format(b, w, h, FirmwarePitch(b, w), FirmwareSize(b, w, h)) :
        b \in Bytes, w \in {64, 129}, h \in {2, 33}}
     \cup {Format(b, w, h, s, z) :
        b \in Bytes, w \in {64, 129}, h \in {2, 33}, s \in {128, 129}, z \in {4096, 16384}}

\* A stream with nothing special, and streams that between them code their
\* reference picture sets in every way and have every optional element.
Stream(lt, sets, form, mods, dep, extra) ==
  [long_term_ref_pics_present_flag |-> lt, num_short_term_ref_pic_sets |-> sets,
   form |-> form, num_long_term_ref_pic_sps |-> IF lt THEN sets ELSE 0,
   sps_temporal_mvp_enabled_flag |-> lt,
   sample_adaptive_offset_enabled_flag |-> mods,
   dependent_slice_segments_enabled_flag |-> dep, output_flag_present_flag |-> dep,
   num_extra_slice_header_bits |-> extra, defaults |-> <<1, 1>>,
   scaling_list_enabled_flag |-> dep, lists_modification_present_flag |-> mods]
Simple  == Stream(FALSE, 1, "sps", FALSE, FALSE, 0)
Several == {Simple, Stream(TRUE, 0, "explicit", TRUE, FALSE, 1),
            Stream(TRUE, 2, "predicted", FALSE, TRUE, 0),
            Stream(FALSE, 1, "explicit", TRUE, TRUE, 2)}

\* A flat scaling list, and a large one whose values wrap.
SomeMatrices ==
  {[large |-> FALSE, dc |-> 8, values |-> [i \in 1 .. 9 |-> 16]],
   [large |-> TRUE, dc |-> 250, values |-> <<1, 255, 2, 128, 129, 3, 127, 250, 16>>]}

\* A camera, the encoder and the decoder.
Node(driver, caps, formats) ==
  [opens |-> TRUE, driver |-> driver, device_caps |-> caps, capabilities |-> {"M2M_MPLANE"},
   output_formats |-> formats, decoder |-> formats # <<"raw">>]
ThreePaths == <<"video0", "video1", "video2">>
ThreeNodes ==
  [video0 |-> Node("camera", {"CAPTURE"}, <<"raw">>),
   video1 |-> Node("iris_driver", {"M2M_MPLANE"}, <<"raw">>),
   video2 |-> Node("iris_driver", {}, <<"raw", "compressed">>)]

Alike == Permutations(Surfaces) \cup Permutations(Slots)
=============================================================================
