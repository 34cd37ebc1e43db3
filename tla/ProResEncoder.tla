--------------------------- MODULE ProResEncoder ---------------------------
(***************************************************************************)
(* VulkanProResEncoder: send, drain and flush around FFmpeg's              *)
(* prores_ks_vulkan codec, which takes frames into one waiting place,      *)
(* encodes up to depth of them at once and gives packets out in order.     *)
(* CpuProResEncoder has the same three calls, line for line.               *)
(*                                                                         *)
(* One step is one call of libavcodec with what the code does up to the    *)
(* next.  A frame is the number of the send that brought it, and so is its *)
(* packet.  The codec keeps FFmpeg's contract: it refuses input only while *)
(* its waiting place is taken, and the place is free once it has answered  *)
(* a receive with EAGAIN.  Any call of it may fail instead.                *)
(*                                                                         *)
(* Definitions marked Faulty are not part of the specification: each is    *)
(* the definition after it with one plausible mistake.                     *)
(***************************************************************************)
EXTENDS Integers, Sequences

CONSTANTS
  MaxFrames      \* bound on the frames sent to one encoder

ASSUME MaxFramesAssumption == MaxFrames \in Nat

VARIABLES
  depth,         \* configured_async_depth; 0: there is no encoder
  held,          \* codec: frames sent whose packets were not received
  full,          \* codec: the waiting place is taken
  draining,      \* codec: the null frame was sent
  buffered, flush_sent, reached_eof,
  counters,      \* VulkanProResTelemetry
  call,          \* the call that runs, or "none"
  at,            \* where it is
  frame,         \* the frame send was given
  output,        \* packets the call is going to return
  received,      \* packets of the receive_available() that runs
  sent,          \* number of calls of send that reached the codec
  returned,      \* packets the caller has got
  outcome        \* the last call that returned, or "thrown", or "none"

codecVars == <<held, full, draining>>
stateVars == <<buffered, flush_sent, reached_eof>>
callVars  == <<call, at, frame, output, received>>
callerVars == <<sent, returned, outcome>>
encoderVars == <<depth, codecVars, stateVars, counters, callVars, callerVars>>

-----------------------------------------------------------------------------

NoCounters == [upload_frames |-> 0, direct_frames |-> 0,
               gpu_resident |-> FALSE, packets |-> 0]

Empty ==
  /\ held = << >> /\ full = FALSE /\ draining = FALSE
  /\ buffered = << >> /\ flush_sent = FALSE /\ reached_eof = FALSE
  /\ counters = NoCounters
  /\ call = "none" /\ at = "none" /\ frame = 0
  /\ output = << >> /\ received = << >>
  /\ sent = 0 /\ returned = << >> /\ outcome = "none"

InitEncoder == depth = 0 /\ Empty

Renew ==
  /\ held' = << >> /\ full' = FALSE /\ draining' = FALSE
  /\ buffered' = << >> /\ flush_sent' = FALSE /\ reached_eof' = FALSE
  /\ counters' = NoCounters
  /\ call' = "none" /\ at' = "none" /\ frame' = 0
  /\ output' = << >> /\ received' = << >>
  /\ sent' = 0 /\ returned' = << >> /\ outcome' = "none"

\* The constructor, when nothing in it throws; and the destructor.
Construct(d) == depth = 0 /\ depth' = d /\ Renew
Destroy      == depth' = 0 /\ Renew

Idle == depth # 0 /\ call = "none"

-----------------------------------------------------------------------------
(* How a call ends.                                                        *)

NoCall ==
  /\ call' = "none" /\ at' = "none" /\ frame' = 0
  /\ output' = << >> /\ received' = << >>

Return(name, packets) ==
  /\ returned' = returned \o packets
  /\ outcome' = name
  /\ NoCall

\* The locals of the call go, with the packets in them.
Throw ==
  /\ outcome' = "thrown"
  /\ UNCHANGED returned
  /\ NoCall

-----------------------------------------------------------------------------
(* The beginning of the calls.                                             *)

\* A frame of the exact pool, or one that has to be uploaded first.
Counted(kind) ==
  LET upload == counters.upload_frames + (IF kind = "cpu" THEN 1 ELSE 0)
      direct == counters.direct_frames + (IF kind = "vulkan" THEN 1 ELSE 0)
  IN [counters EXCEPT !.upload_frames = upload, !.direct_frames = direct,
                      !.gpu_resident = upload = 0 /\ direct > 0]

\* send() after flush(), with a frame of another size or format or pool, or
\* with a CPU frame whose upload fails.
SendRefused ==
  /\ Idle
  /\ Throw
  /\ UNCHANGED <<depth, codecVars, stateVars, counters, sent>>

Send(kind) ==
  /\ Idle
  /\ ~flush_sent
  /\ sent < MaxFrames
  /\ sent' = sent + 1
  /\ frame' = sent + 1
  /\ counters' = Counted(kind)
  /\ call' = "send" /\ at' = "give"
  /\ UNCHANGED <<depth, codecVars, stateVars, output, received, returned,
                 outcome>>

\* drain(): what send() had to receive comes first.
Drain ==
  /\ Idle
  /\ call' = "drain" /\ at' = "receive"
  /\ output' = buffered
  /\ buffered' = << >>
  /\ UNCHANGED <<depth, codecVars, flush_sent, reached_eof, counters, frame,
                 received, callerVars>>

\* flush(): the null frame the first time, then as drain() up to EOF.
Flush ==
  /\ Idle
  /\ \/ /\ ~flush_sent
        /\ call' = "flush" /\ at' = "give"
        /\ UNCHANGED <<buffered, output, frame, received, callerVars>>
     \/ /\ flush_sent /\ ~reached_eof
        /\ call' = "flush" /\ at' = "receive"
        /\ output' = buffered
        /\ buffered' = << >>
        /\ UNCHANGED <<frame, received, callerVars>>
     \/ /\ flush_sent /\ reached_eof
        /\ Return("flush", buffered)
        /\ buffered' = << >>
        /\ UNCHANGED sent
  /\ UNCHANGED <<depth, codecVars, flush_sent, reached_eof, counters>>

-----------------------------------------------------------------------------
(* avcodec_send_frame.                                                     *)

Giving == call # "none" /\ at \in {"give", "give_again"}

\* The codec may take a frame to work at once, or leave it waiting; it has to
\* wait when depth others are there.
Waiting(frames) == IF Len(frames) > depth THEN {TRUE} ELSE BOOLEAN

GiveFrame ==
  /\ Giving /\ call = "send"
  /\ ~full /\ ~draining
  /\ held' = Append(held, frame)
  /\ full' \in Waiting(held')
  /\ Return("send", << >>)
  /\ UNCHANGED <<depth, draining, stateVars, counters, sent>>

\* The null frame.  What follows in flush() up to the receive is done too.
GiveNull ==
  /\ Giving /\ call = "flush"
  /\ ~full /\ ~draining
  /\ draining' = TRUE
  /\ flush_sent' = TRUE
  /\ at' = "receive"
  /\ output' = buffered
  /\ buffered' = << >>
  /\ UNCHANGED <<depth, held, full, reached_eof, counters, call, frame,
                 received, callerVars>>

\* EAGAIN: receive what there is and try once more.
GiveRefused ==
  /\ Giving /\ at = "give"
  /\ full /\ ~draining
  /\ at' = "receive_first"
  /\ UNCHANGED <<depth, codecVars, stateVars, counters, call, frame, output,
                 received, callerVars>>

\* Any other error, a second EAGAIN included.  The codec may have taken the
\* frame nevertheless.
GiveFails ==
  /\ Giving
  /\ Throw
  /\ \/ UNCHANGED <<held, draining>>
     \/ /\ call = "send" /\ ~draining
        /\ held' = Append(held, frame)
        /\ UNCHANGED draining
     \/ /\ call = "flush"
        /\ draining' = TRUE
        /\ UNCHANGED held
  /\ full' \in Waiting(held')
  /\ UNCHANGED <<depth, stateVars, counters, sent>>

-----------------------------------------------------------------------------
(* receive_available.                                                      *)

Receiving == at \in {"receive", "receive_first"}

\* A packet: the codec waits for the oldest frame, if it must.
ReceivePacket ==
  /\ Receiving
  /\ held # << >>
  /\ received' = Append(received, Head(held))
  /\ held' = Tail(held)
  /\ full' \in {full, FALSE}
  /\ counters' = [counters EXCEPT !.packets = @ + 1]
  /\ UNCHANGED <<depth, draining, stateVars, call, at, frame, output,
                 callerVars>>

\* Faulty: what was received on EAGAIN is dropped.
AfterReceiveDropped ==
  IF at = "receive_first"
    THEN /\ at' = "give_again"
         /\ received' = << >>
         /\ UNCHANGED <<buffered, call, frame, output, callerVars>>
    ELSE /\ Return(call, output \o received)
         /\ UNCHANGED <<buffered, sent>>

\* What the callers of receive_available() do with its packets.
AfterReceive ==
  IF at = "receive_first"
    THEN /\ at' = "give_again"
         /\ buffered' = buffered \o received
         /\ received' = << >>
         /\ UNCHANGED <<call, frame, output, callerVars>>
    ELSE /\ Return(call, output \o received)
         /\ UNCHANGED <<buffered, sent>>

\* EAGAIN: nothing more without more input, and room for input.
ReceiveAgain ==
  /\ Receiving
  /\ ~draining
  /\ Len(held) < depth
  /\ full' = FALSE
  /\ AfterReceive
  /\ UNCHANGED <<depth, held, draining, flush_sent, reached_eof, counters>>

\* EOF: all packets are out.
ReceiveEof ==
  /\ Receiving
  /\ draining
  /\ held = << >>
  /\ reached_eof' = TRUE
  /\ AfterReceive
  /\ UNCHANGED <<depth, codecVars, flush_sent, counters>>

\* An error, perhaps that of encoding the oldest frame.
ReceiveFails ==
  /\ Receiving
  /\ Throw
  /\ \/ UNCHANGED held
     \/ held # << >> /\ held' = Tail(held)
  /\ full' \in {full, FALSE}
  /\ UNCHANGED <<depth, draining, stateVars, counters, sent>>

EncoderStep ==
  \/ GiveFrame \/ GiveNull \/ GiveRefused \/ GiveFails
  \/ ReceivePacket \/ ReceiveAgain \/ ReceiveEof \/ ReceiveFails

-----------------------------------------------------------------------------
(* The invariant behind the contract, in named parts.                      *)

\* The frames given to the codec: all but the one send() has in its hands.
Given == IF call = "send" THEN sent - 1 ELSE sent

\* What waits anywhere, or was returned, is the packet of a frame given.
EncoderTyped ==
  /\ depth \in 0..64
  /\ full \in BOOLEAN /\ draining \in BOOLEAN
  /\ flush_sent \in BOOLEAN /\ reached_eof \in BOOLEAN
  /\ call \in {"none", "send", "drain", "flush"}
  /\ at \in {"none", "give", "give_again", "receive", "receive_first"}
  /\ sent \in 0..MaxFrames
  /\ Given \in Nat
  /\ outcome \in {"none", "send", "drain", "flush", "thrown"}
  /\ \A packets \in {held, buffered, output, received, returned} :
       packets \in Seq(1..Given)

\* Which of the locals of a call are in use where.
CallStage ==
  /\ call = "none" <=> at = "none"
  /\ call # "none" => depth # 0
  /\ call = "send" => frame = sent
  /\ at # "receive" => output = << >>
  /\ at \in {"none", "give", "give_again"} => received = << >>
  /\ at = "receive" => call \in {"drain", "flush"} /\ buffered = << >>
  /\ at \notin {"none", "receive"} => call \in {"send", "flush"}
  /\ at = "receive" /\ call = "flush" => flush_sent

\* The end was signalled to a codec that drains, and seen when it is empty.
EndOfStream ==
  /\ flush_sent => draining
  /\ reached_eof => draining /\ held = << >>

-----------------------------------------------------------------------------
(* The contract implemented.                                               *)

\* Packets and frames inside the encoder, oldest first.
Inside == buffered \o output \o received \o held

Queue ==
  INSTANCE VideoEncoder WITH
    Depths <- 1..64,
    Frames <- 1..MaxFrames,
    inside <- Inside,
    ended <- flush_sent,
    last <- outcome

=============================================================================
