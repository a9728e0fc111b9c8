------------------------------- MODULE Device -------------------------------
(***************************************************************************)
(* The wrapper of the decoder node (device.cc) under the slot pool that    *)
(* calls it (slots.cc): how a node is chosen, which memory each queue has, *)
(* and what becomes of every errno.  The node (external) is videobuf2 as   *)
(* the wrapper meets it: it refuses a buffer of another memory type than   *)
(* the queue was allocated with, whatever else is right with it.           *)
(*                                                                         *)
(* The wrapper throws, answers FALSE or "nothing", or returns what the     *)
(* node gave.  EINTR is retried and is no step.  Indices, time stamps and  *)
(* formats pass through it unchanged and are left out.                     *)
(*                                                                         *)
(* X_f is a mutant of f: a bug the code could have.  Nothing uses it.      *)
(***************************************************************************)
EXTENDS Integers, Sequences

CONSTANTS
  Paths,            \* /dev/video*, as a sequence in glob order
  NodeAt,           \* NodeAt[p]: what QUERYCAP and ENUM_FMT tell of path p
  MaxBuffersOf      \* bound: buffers of a queue

Queues   == {"Output", "Capture"}
Memories == {"MMAP", "DMABUF"}

ASSUME DeviceAssumption ==
  /\ MaxBuffersOf \in Nat
  /\ \A i \in DOMAIN Paths : NodeAt[Paths[i]].opens \in BOOLEAN

VARIABLES
  fd,               \* the path that was opened, or "thrown"
  memory,           \* memory_ of the wrapper
  capture_memory,   \* capture_memory_ of the slot pool
  vb2,              \* the node's queues
  dead,             \* the node answers EIO to everything
  result            \* of the call that ended last

deviceVars == <<fd, memory, capture_memory, vb2, dead, result>>
-----------------------------------------------------------------------------
\* is_iris_decoder: the encoder is the same driver, but its OUTPUT formats are
\* raw.
is_iris_decoder(node) ==
  /\ node.opens /\ node.driver = "iris_driver"
  /\ "M2M_MPLANE" \in (IF node.device_caps # {} THEN node.device_caps ELSE node.capabilities)
  /\ \E i \in DOMAIN node.output_formats : node.output_formats[i] = "compressed"

\* open_device: the path asked for, or the first that qualifies.
open_device(explicit) ==
  LET candidates == IF explicit = "" THEN Paths ELSE <<explicit>>
      Good(i)    == is_iris_decoder(NodeAt[candidates[i]])
      first      == {i \in DOMAIN candidates : Good(i) /\ \A j \in 1 .. i - 1 : ~Good(j)}
  IN IF first = {} THEN "thrown" ELSE candidates[CHOOSE i \in first : TRUE]

\* What each call makes of errno; 0 is success.
set_control(errno) ==
  CASE errno = "0" -> "true" [] errno \in {"EINVAL", "ENOTTY", "EACCES"} -> "false"
    [] OTHER -> "thrown"
decoder_command(errno) ==
  CASE errno = "0" -> "true" [] errno = "EBUSY" -> "false" [] OTHER -> "thrown"
checked(errno) == IF errno = "0" THEN "true" ELSE "thrown"
\* Formats, buffers and streaming: whatever is wrong, the call throws.
get_format(errno)   == checked(errno)
query_buffer(errno) == checked(errno)
stream_queue(errno) == checked(errno)
\* EPIPE on CAPTURE is a queue that has been drained.
dequeue_buffer_result(queue, errno) ==
  CASE errno = "0" -> "buffer" [] errno = "EAGAIN" -> "nothing"
    [] errno = "EPIPE" /\ queue = "Capture" -> "nothing"
    [] OTHER -> "thrown"
\* dequeue_event and get_control have one answer for every error.
optional(errno) == IF errno = "0" THEN "value" ELSE "nothing"
\* poll: POLLERR and POLLHUP are events like others; POLLNVAL throws.
poll(revents) ==
  IF "NVAL" \in revents THEN "thrown" ELSE IF revents = {} THEN "timeout" ELSE "events"
-----------------------------------------------------------------------------
\* The node.
Fresh(m, count) ==
  [memory |-> m, count |-> count, queued |-> 0, done |-> 0, drained |-> FALSE]
QbufErrno(q, m) ==
  IF dead THEN "EIO" ELSE IF vb2[q].memory # m \/ vb2[q].count = 0 THEN "EINVAL" ELSE "0"
DqbufErrno(q, m) ==
  IF dead THEN "EIO"
  ELSE IF vb2[q].memory # m \/ vb2[q].count = 0 THEN "EINVAL"
  ELSE IF vb2[q].done > 0 THEN "0"
  ELSE IF vb2[q].drained THEN "EPIPE" ELSE "EAGAIN"

DeviceInit ==
  /\ \E explicit \in {""} \cup {Paths[i] : i \in DOMAIN Paths} : fd = open_device(explicit)
  /\ memory = [q \in Queues |-> "MMAP"] /\ capture_memory = "MMAP"
  /\ vb2 = [q \in Queues |-> Fresh("MMAP", 0)]
  /\ dead = FALSE /\ result = "true"

\* request_buffers: the queue's memory is remembered for DQBUF, also when its
\* buffers are freed.
X_request_buffers(q, count, m) ==
  /\ result' = checked(IF dead THEN "EIO" ELSE "0")
  /\ IF dead THEN UNCHANGED <<memory, vb2>>
     ELSE /\ memory' = IF count = 0 THEN [memory EXCEPT ![q] = "MMAP"] ELSE memory
          /\ vb2' = [vb2 EXCEPT ![q] = Fresh(m, count)]
request_buffers(q, count, m) ==
  /\ result' = checked(IF dead THEN "EIO" ELSE "0")
  /\ IF dead THEN UNCHANGED <<memory, vb2>>
     ELSE /\ memory' = [memory EXCEPT ![q] = m]
          /\ vb2' = [vb2 EXCEPT ![q] = Fresh(m, count)]

\* The slot pool: Import allocates DMABUF slots, and frees them as such.
allocate_capture(m) ==
  /\ vb2["Capture"].count = 0 /\ capture_memory' = IF dead THEN capture_memory ELSE m
  /\ request_buffers("Capture", MaxBuffersOf, m)
  /\ UNCHANGED <<fd, dead>>
release_capture ==
  /\ vb2["Capture"].count # 0
  /\ request_buffers("Capture", 0, capture_memory)
  /\ capture_memory' = IF dead THEN capture_memory ELSE "MMAP"
  /\ UNCHANGED <<fd, dead>>
allocate_output ==
  /\ vb2["Output"].count = 0 /\ request_buffers("Output", MaxBuffersOf, "MMAP")
  /\ UNCHANGED <<fd, dead, capture_memory>>
release_output ==
  /\ vb2["Output"].count # 0 /\ request_buffers("Output", 0, "MMAP")
  /\ UNCHANGED <<fd, dead, capture_memory>>

\* queue_buffer and queue_buffer_dmabuf: an imported buffer goes by the second.
queue_buffer(q) ==
  LET m == IF q = "Capture" THEN capture_memory ELSE "MMAP"
      errno == QbufErrno(q, m)
  IN /\ vb2[q].count > vb2[q].queued + vb2[q].done
     /\ result' = checked(errno)
     /\ vb2' = IF errno = "0" THEN [vb2 EXCEPT ![q].queued = @ + 1] ELSE vb2
     /\ UNCHANGED <<fd, memory, capture_memory, dead>>

dequeue_buffer(q) ==
  LET errno == DqbufErrno(q, memory[q])
  IN /\ vb2[q].count # 0
     /\ result' = dequeue_buffer_result(q, errno)
     /\ vb2' = IF errno = "0" THEN [vb2 EXCEPT ![q].done = @ - 1] ELSE vb2
     /\ UNCHANGED <<fd, memory, capture_memory, dead>>

\* Other calls: formats, streaming, controls, commands, events and poll.
other_call ==
  /\ \/ \E errno \in IF dead THEN {"EIO"} ELSE {"0", "EINVAL", "ENOTTY", "EACCES"} :
          result' = set_control(errno)
     \/ \E errno \in IF dead THEN {"EIO"} ELSE {"0", "EBUSY"} : result' = decoder_command(errno)
     \/ LET errno == IF dead THEN "EIO" ELSE "0"
        IN result' \in {get_format(errno), query_buffer(errno), stream_queue(errno)}
     \/ \E errno \in {"0", "EAGAIN"} : result' = optional(errno)
     \/ \E revents \in {{}, {"IN"}, {"PRI", "ERR"}} : result' = poll(revents)
  /\ UNCHANGED <<fd, memory, capture_memory, vb2, dead>>

\* The node fills a buffer, ends a drain, or dies.
node_step ==
  /\ \/ \E q \in Queues : /\ vb2[q].queued > 0
                          /\ vb2' = [vb2 EXCEPT ![q].queued = @ - 1, ![q].done = @ + 1]
                          /\ UNCHANGED dead
     \/ /\ vb2["Capture"].count > 0 /\ vb2' = [vb2 EXCEPT !["Capture"].drained = ~@]
        /\ UNCHANGED dead
     \/ dead' = TRUE /\ UNCHANGED vb2
  /\ result' = "true" /\ UNCHANGED <<fd, memory, capture_memory>>

DeviceNext ==
  /\ fd # "thrown"
  /\ \/ \E m \in Memories : allocate_capture(m)
     \/ release_capture \/ allocate_output \/ release_output
     \/ \E q \in Queues : queue_buffer(q) \/ dequeue_buffer(q)
     \/ other_call \/ node_step
DeviceSpec == DeviceInit /\ [][DeviceNext]_deviceVars
-----------------------------------------------------------------------------
\* A call throws only when the node is dead: no buffer is ever queued or
\* dequeued with a memory type the queue does not have, over pools that are
\* freed and allocated with the other one, and an empty, drained or unanswered
\* queue is no failure (device.cc:138, 228, 234).  And it is a decoder that was
\* opened, never the encoder of the same driver.
DeviceAnswers ==
  /\ result = "thrown" => dead
  /\ fd # "thrown" => NodeAt[fd].decoder
=============================================================================
