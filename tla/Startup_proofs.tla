--------------------------- MODULE Startup_proofs ---------------------------
(***************************************************************************)
(* The resources a conversion is given fit, the backend chosen is the one  *)
(* asked for, and its encoder is the queue its callers take it for,        *)
(* whatever the configuration, the machine and the codec do.               *)
(***************************************************************************)
EXTENDS Startup, CommonFacts, TLAPS

-----------------------------------------------------------------------------
(* The sizes and the execution plan.                                       *)

\* A total divided into parts, and the parts put together again.
LEMMA Division ==
  ASSUME NEW t \in Nat, NEW n \in Nat \ {0}
  PROVE  t \div n \in Nat /\ n * (t \div n) <= t
  BY SMT

\* For every depth the configuration may ask for, what the pool create_video
\* makes lacks of the frames queued, in the hands of the threads and kept by
\* the encoder: nothing up to 61, then one frame more for each.
\* (create_video.)
THEOREM PoolShortage ==
  ASSUME NEW d \in 1..64
  PROVE  PoolFits(d, SlotCount(d), PoolSize(d))
  BY SMT DEF PoolFits, Shortage, SlotCount, PoolSize, EncoderDepth, Clamp, Lesser, Greater

\* The number of frames the plan lets run at once, and the memory they need
\* when the program has chosen it.
LEMMA Parallel ==
  ASSUME NEW c \in Config, NEW total \in Nat \ {0}, NEW memory \in Nat,
         NEW frames \in Nat \ {0}, c.max_parallel_frames <= 64
  PROVE  LET n == ParallelFrames(c, total, memory, frames)
         IN  /\ n \in 1..64 /\ n <= frames /\ n <= total
             /\ c.max_parallel_frames = 0 /\ memory # 0 =>
                  n = 1 \/ 4 * n * EstimatedFrame <= memory
<1> DEFINE limit == FrameWorkerLimit(c)
           room == MemoryFrames(memory)
           auto == AutomaticFrames(c, total, memory)
           requested == RequestedFrames(c, total, memory)
           n == ParallelFrames(c, total, memory, frames)
<1>1. limit \in {2, 6}
  BY DEF FrameWorkerLimit
<1>2. /\ room \in Nat \ {0}
      /\ memory # 0 => room = 1 \/ 4 * room * EstimatedFrame <= memory
  <2>1. CASE memory = 0
    BY <2>1 DEF MemoryFrames, SizeMax
  <2>2. CASE memory # 0
    <3> DEFINE quarter == memory \div 4
               fit == quarter \div EstimatedFrame
    <3>1. quarter \in Nat /\ 4 * quarter <= memory
      BY Division
    <3>2. fit \in Nat /\ EstimatedFrame * fit <= quarter
      BY <3>1, Division DEF EstimatedFrame
    <3>3. room = Greater(1, fit)
      BY <2>2 DEF MemoryFrames
    <3> HIDE DEF quarter, fit
    <3> QED
      BY <3>1, <3>2, <3>3 DEF Greater, EstimatedFrame
  <2> QED
    BY <2>1, <2>2
<1>3. total \div 2 \in Nat
  BY Division
<1>4. auto \in 1..6 /\ auto <= room
  <2>1. auto = Greater(1, Lesser(limit, Lesser(Greater(1, total \div 2), room)))
    BY DEF AutomaticFrames
  <2> HIDE DEF limit, room, auto
  <2> QED
    BY <1>1, <1>2, <1>3, <2>1 DEF Lesser, Greater
<1>5. requested \in 1..64
  BY <1>4 DEF RequestedFrames, Config
<1>6. n = Greater(1, Lesser(requested, Lesser(frames, total)))
  BY DEF ParallelFrames
<1>7. c.max_parallel_frames = 0 => requested = auto
  BY DEF RequestedFrames
<1> HIDE DEF requested, auto, room, limit, n
<1>8. n \in 1..64 /\ n <= frames /\ n <= total /\ n <= requested
  BY <1>5, <1>6 DEF Lesser, Greater
<1>9. ASSUME c.max_parallel_frames = 0, memory # 0, n # 1
      PROVE  4 * n * EstimatedFrame <= memory
  BY <1>2, <1>4, <1>7, <1>8, <1>9 DEF EstimatedFrame
<1> QED
  BY <1>8, <1>9 DEF n

\* The plan is sound for every configuration that validate() accepts and
\* every machine: at least one frame at a time and no more than asked for,
\* selected or affordable, and as many threads as there are.
\* (resolve_execution_plan.)
THEOREM PlanIsSound ==
  ASSUME NEW c \in Config, NEW cores \in Nat, NEW memory \in Nat,
         NEW frames \in Nat \ {0}, c.max_parallel_frames <= 64
  PROVE  PlanFits(c, ExecutionPlan(c, cores, memory, frames),
                  memory, frames)
<1> DEFINE total == TotalThreads(c, cores)
           n == ParallelFrames(c, total, memory, frames)
           plan == ExecutionPlan(c, cores, memory, frames)
<1>1. total \in Nat \ {0}
  BY DEF TotalThreads, Greater, Config
<1>2. /\ n \in 1..64 /\ n <= frames /\ n <= total
      /\ c.max_parallel_frames = 0 /\ memory # 0 =>
           n = 1 \/ 4 * n * EstimatedFrame <= memory
  BY <1>1, Parallel
<1>3. /\ plan.total_threads = total
      /\ plan.parallel_frames = n
      /\ plan.threads_per_frame = Greater(1, total \div n)
      /\ plan.encode_contexts = Clamp(total, 1, 16)
  BY DEF ExecutionPlan
<1> HIDE DEF total, n, plan
<1>4. /\ Greater(1, total \div n) >= 1
      /\ n * Greater(1, total \div n) <= total
  <2>1. total \div n \in Nat /\ n * (total \div n) <= total
    BY <1>1, <1>2, Division
  <2>2. Greater(1, total \div n) \in {1, total \div n}
    BY <2>1 DEF Greater
  <2>3. Greater(1, total \div n) >= 1
    BY <2>1 DEF Greater
  <2>4. CASE Greater(1, total \div n) = 1
    BY <1>1, <1>2, <2>3, <2>4
  <2>5. CASE Greater(1, total \div n) = total \div n
    BY <2>1, <2>3, <2>5
  <2> QED
    BY <2>2, <2>4, <2>5
<1>5. Clamp(total, 1, 16) \in 1..16
  BY <1>1 DEF Clamp, Greater, Lesser
<1> QED
  BY <1>2, <1>3, <1>4, <1>5 DEF PlanFits, plan

-----------------------------------------------------------------------------
(* The plan and the sizes a conversion gets.                               *)

-----------------------------------------------------------------------------
(* The encoder.                                                            *)

EncoderInv == EncoderTyped /\ CallStage /\ EndOfStream

\* Sequences of numbers up to m are such sequences up to a larger n, and
\* are sequences of naturals.
LEMMA Wider ==
  ASSUME NEW m \in Nat, NEW n \in Nat, m <= n
  PROVE  Seq(1..m) \subseteq Seq(1..n) /\ Seq(1..m) \subseteq Seq(Nat)
<1>1. 1..m \subseteq 1..n /\ 1..m \subseteq Nat
  OBVIOUS
<1>2. QED
  BY <1>1, SeqMonotonic

\* The sequences of EncoderTyped, one by one.
LEMMA EncoderSeqs ==
  ASSUME EncoderTyped
  PROVE  /\ held \in Seq(1..Given) /\ buffered \in Seq(1..Given)
         /\ output \in Seq(1..Given) /\ received \in Seq(1..Given)
         /\ returned \in Seq(1..Given) /\ Given \in Nat /\ sent \in Nat
BY DEF EncoderTyped

\* An encoder that has just been made, or is no more.
LEMMA RenewInv ==
  ASSUME Renew, depth' \in 0..64
  PROVE  EncoderInv'
<1>1. << >> \in Seq(1..Given') /\ Given' = 0 /\ 0 \in 0..MaxFrames
  BY MaxFramesAssumption, EmptySeq DEF Renew, Given
<1>2. EncoderTyped'
  BY <1>1 DEF Renew, EncoderTyped
<1>3. CallStage' /\ EndOfStream'
  BY DEF Renew, CallStage, EndOfStream
<1>4. QED
  BY <1>2, <1>3 DEF EncoderInv

\* A call begins.
LEMMA CallInv ==
  ASSUME EncoderInv,
         Send("cpu") \/ Send("vulkan") \/ SendRefused \/ Drain \/ Flush
  PROVE  EncoderInv'
<1>0. /\ EncoderTyped /\ CallStage /\ EndOfStream
      /\ depth # 0 /\ call = "none" /\ at = "none"
      /\ output = << >> /\ received = << >> /\ Given = sent
      /\ sent \in 0..MaxFrames /\ sent \in Nat
  BY MaxFramesAssumption
  DEF EncoderInv, EncoderTyped, CallStage, Given, Idle, Send, SendRefused, Drain, Flush
<1>1. /\ held \in Seq(1..sent) /\ buffered \in Seq(1..sent)
      /\ returned \in Seq(1..sent) /\ << >> \in Seq(1..sent)
  BY <1>0, EncoderSeqs, EmptySeq
<1>2. CASE Send("cpu") \/ Send("vulkan")
  <2>1. /\ Given' = sent /\ sent' = sent + 1 /\ sent' \in 0..MaxFrames
        /\ UNCHANGED <<depth, codecVars, stateVars, output, received, returned, outcome>>
        /\ call' = "send" /\ at' = "give" /\ frame' = sent'
    BY <1>0, <1>2, MaxFramesAssumption DEF Send, Given
  <2>2. EncoderTyped'
    BY <1>0, <1>1, <2>1 DEF EncoderTyped, codecVars, stateVars
  <2>3. CallStage' /\ EndOfStream'
    BY <1>0, <2>1 DEF CallStage, EndOfStream, codecVars, stateVars
  <2>4. QED
    BY <2>2, <2>3 DEF EncoderInv
<1>3. CASE SendRefused
  <2>1. /\ Given' = sent /\ UNCHANGED <<depth, codecVars, stateVars, sent, returned>>
        /\ call' = "none" /\ at' = "none" /\ output' = << >> /\ received' = << >>
        /\ outcome' = "thrown"
    BY <1>0, <1>3 DEF SendRefused, Throw, NoCall, Given
  <2>2. EncoderTyped'
    BY <1>0, <1>1, <2>1 DEF EncoderTyped, codecVars, stateVars
  <2>3. CallStage' /\ EndOfStream'
    BY <1>0, <2>1 DEF CallStage, EndOfStream, codecVars, stateVars
  <2>4. QED
    BY <2>2, <2>3 DEF EncoderInv
<1>4. CASE Drain
  <2>1. /\ Given' = sent
        /\ UNCHANGED <<depth, codecVars, flush_sent, reached_eof, frame, received,
                       callerVars>>
        /\ call' = "drain" /\ at' = "receive"
        /\ output' = buffered /\ buffered' = << >>
    BY <1>0, <1>4 DEF Drain, Given, callerVars
  <2>2. EncoderTyped'
    BY <1>0, <1>1, <2>1 DEF EncoderTyped, codecVars, callerVars
  <2>3. CallStage' /\ EndOfStream'
    BY <1>0, <2>1 DEF CallStage, EndOfStream, codecVars
  <2>4. QED
    BY <2>2, <2>3 DEF EncoderInv
<1>5. CASE Flush
  <2>0. UNCHANGED <<depth, held, full, draining, flush_sent, reached_eof, sent>>
    BY <1>5 DEF Flush, codecVars, callerVars
  <2>1. \/ /\ call' = "flush" /\ at' = "give"
           /\ UNCHANGED <<buffered, output, received, returned, outcome>>
        \/ /\ call' = "flush" /\ at' = "receive" /\ flush_sent
           /\ output' = buffered /\ buffered' = << >>
           /\ UNCHANGED <<received, returned, outcome>>
        \/ /\ call' = "none" /\ at' = "none" /\ outcome' = "flush"
           /\ output' = << >> /\ received' = << >>
           /\ buffered' = << >> /\ returned' = returned \o buffered
    BY <1>5 DEF Flush, Return, NoCall, callerVars
  <2>2. returned \o buffered \in Seq(1..sent)
    BY <1>1, ConcatProperties
  <2>3. Given' = sent
    BY <2>0, <2>1 DEF Given
  <2>4. EncoderTyped'
    BY <1>0, <1>1, <2>0, <2>1, <2>2, <2>3 DEF EncoderTyped
  <2>5. CallStage' /\ EndOfStream'
    BY <1>0, <2>0, <2>1 DEF CallStage, EndOfStream
  <2>6. QED
    BY <2>4, <2>5 DEF EncoderInv
<1>6. QED
  BY <1>2, <1>3, <1>4, <1>5

\* A frame, or the end, is given to the codec.
LEMMA GiveInv ==
  ASSUME EncoderInv, GiveFrame \/ GiveNull \/ GiveRefused \/ GiveFails
  PROVE  EncoderInv'
<1>0. /\ EncoderTyped /\ CallStage /\ EndOfStream
      /\ depth # 0 /\ at \in {"give", "give_again"} /\ call \in {"send", "flush"}
      /\ output = << >> /\ received = << >> /\ sent \in 0..MaxFrames /\ sent \in Nat
      /\ call = "send" => frame = sent
      /\ depth' = depth /\ sent' = sent
  BY MaxFramesAssumption
  DEF EncoderInv, EncoderTyped, CallStage, Giving, GiveFrame, GiveNull, GiveRefused,
      GiveFails, callerVars
<1>1. /\ held \in Seq(1..Given) /\ buffered \in Seq(1..Given)
      /\ returned \in Seq(1..Given) /\ << >> \in Seq(1..Given)
      /\ Given \in Nat /\ Given <= sent
      /\ call = "send" => sent \in 1..sent
  BY <1>0, EncoderSeqs, EmptySeq DEF Given
<1>2. /\ held \in Seq(1..sent) /\ buffered \in Seq(1..sent)
      /\ returned \in Seq(1..sent) /\ << >> \in Seq(1..sent)
  BY <1>0, <1>1, Wider
<1>3. call = "send" => Append(held, frame) \in Seq(1..sent)
  BY <1>0, <1>1, <1>2, AppendProperties
<1>4. returned \o << >> \in Seq(1..sent)
  BY <1>2, ConcatProperties
<1>5. CASE GiveFrame \/ GiveFails
  <2>1. /\ call' = "none" /\ at' = "none" /\ Given' = sent
        /\ output' = << >> /\ received' = << >>
        /\ outcome' \in {"send", "thrown"}
        /\ returned' \in {returned, returned \o << >>}
        /\ held' = held \/ (call = "send" /\ ~draining /\ held' = Append(held, frame))
        /\ draining => draining'
        /\ draining' \in BOOLEAN /\ full' \in BOOLEAN
        /\ UNCHANGED <<buffered, flush_sent, reached_eof>>
    BY <1>0, <1>5
    DEF EncoderTyped, GiveFrame, GiveFails, Return, Throw, NoCall, stateVars, Given, Waiting
  <2>2. held' \in Seq(1..sent) /\ returned' \in Seq(1..sent)
    BY <1>2, <1>3, <1>4, <2>1
  <2>3. EncoderTyped'
    BY <1>0, <1>2, <2>1, <2>2 DEF EncoderTyped
  <2>4. CallStage' /\ EndOfStream'
    BY <1>0, <2>1 DEF CallStage, EndOfStream
  <2>5. QED
    BY <2>3, <2>4 DEF EncoderInv
<1>6. CASE GiveNull
  <2>1. /\ call = "flush" /\ call' = "flush" /\ at' = "receive" /\ Given' = sent
        /\ Given = sent /\ draining' = TRUE /\ flush_sent' = TRUE
        /\ output' = buffered /\ buffered' = << >>
        /\ UNCHANGED <<held, full, reached_eof, frame, received, returned, outcome>>
    BY <1>0, <1>6 DEF GiveNull, callerVars, Given
  <2>2. EncoderTyped'
    BY <1>0, <1>2, <2>1 DEF EncoderTyped
  <2>3. CallStage' /\ EndOfStream'
    BY <1>0, <2>1 DEF CallStage, EndOfStream
  <2>4. QED
    BY <2>2, <2>3 DEF EncoderInv
<1>7. CASE GiveRefused
  <2>1. /\ at' = "receive_first" /\ Given' = Given
        /\ UNCHANGED <<held, full, draining, buffered, flush_sent, reached_eof, call,
                       frame, output, received, returned, outcome>>
    BY <1>0, <1>7 DEF GiveRefused, codecVars, stateVars, callerVars, Given
  <2>2. EncoderTyped'
    BY <1>0, <1>1, <2>1 DEF EncoderTyped
  <2>3. CallStage' /\ EndOfStream'
    BY <1>0, <2>1 DEF CallStage, EndOfStream
  <2>4. QED
    BY <2>2, <2>3 DEF EncoderInv
<1>8. QED
  BY <1>5, <1>6, <1>7

\* receive_available() runs.
LEMMA ReceiveInv ==
  ASSUME EncoderInv, ReceivePacket \/ ReceiveAgain \/ ReceiveEof \/ ReceiveFails
  PROVE  EncoderInv'
<1>0. /\ EncoderTyped /\ CallStage /\ EndOfStream
      /\ depth # 0 /\ at \in {"receive", "receive_first"}
      /\ call \in {"send", "drain", "flush"}
      /\ at = "receive" => call \in {"drain", "flush"} /\ buffered = << >>
      /\ at = "receive_first" => call \in {"send", "flush"} /\ output = << >>
      /\ sent \in 0..MaxFrames /\ sent \in Nat
      /\ depth' = depth /\ sent' = sent /\ flush_sent' = flush_sent
      /\ draining' = draining
  <2>1. EncoderTyped /\ CallStage /\ EndOfStream
    BY DEF EncoderInv
  <2>2. at \in {"receive", "receive_first"}
    BY DEF Receiving, ReceivePacket, ReceiveAgain, ReceiveEof, ReceiveFails
  <2>3. sent \in 0..MaxFrames /\ sent \in Nat
    BY <2>1, MaxFramesAssumption DEF EncoderTyped
  <2>4. UNCHANGED <<depth, draining, flush_sent>>
    BY DEF ReceivePacket, ReceiveAgain, ReceiveEof, ReceiveFails, stateVars, codecVars
  <2>5. sent' = sent
    BY DEF ReceivePacket, ReceiveAgain, ReceiveEof, ReceiveFails, AfterReceive, callerVars
  <2>6. /\ depth # 0 /\ call \in {"send", "drain", "flush"}
        /\ at = "receive" => call \in {"drain", "flush"} /\ buffered = << >>
        /\ at = "receive_first" => call \in {"send", "flush"} /\ output = << >>
    BY <2>1, <2>2 DEF CallStage
  <2>7. QED
    BY <2>1, <2>2, <2>3, <2>4, <2>5, <2>6
<1>1. /\ held \in Seq(1..Given) /\ buffered \in Seq(1..Given)
      /\ output \in Seq(1..Given) /\ received \in Seq(1..Given)
      /\ returned \in Seq(1..Given) /\ << >> \in Seq(1..Given)
      /\ Given \in Nat /\ Given <= sent
  BY <1>0, EncoderSeqs, EmptySeq DEF Given
<1>2. /\ held \in Seq(1..sent) /\ buffered \in Seq(1..sent)
      /\ returned \in Seq(1..sent) /\ << >> \in Seq(1..sent)
  BY <1>0, <1>1, Wider
<1>3. held # << >> => Head(held) \in 1..Given /\ Tail(held) \in Seq(1..Given)
                      /\ Tail(held) \in Seq(1..sent)
  <2>1. SUFFICES ASSUME held # << >>
                 PROVE  /\ Head(held) \in 1..Given /\ Tail(held) \in Seq(1..Given)
                        /\ Tail(held) \in Seq(1..sent)
    OBVIOUS
  <2>2. Head(held) \in 1..Given /\ Tail(held) \in Seq(1..Given)
    BY <1>1, <2>1, HeadTailProperties
  <2>3. QED
    BY <1>0, <1>1, <2>2, Wider
<1>4. CASE ReceivePacket
  <2>1. /\ held # << >> /\ received' = Append(received, Head(held))
        /\ held' = Tail(held) /\ full' \in {full, FALSE} /\ Given' = Given
        /\ UNCHANGED <<buffered, reached_eof, call, at, frame, output, returned, outcome>>
    BY <1>0, <1>4 DEF ReceivePacket, stateVars, callerVars, Given
  <2>2. Append(received, Head(held)) \in Seq(1..Given)
    BY <1>1, <1>3, <2>1, AppendProperties
  <2>3. EncoderTyped'
    BY <1>0, <1>1, <1>3, <2>1, <2>2 DEF EncoderTyped
  <2>4. CallStage' /\ EndOfStream'
    BY <1>0, <2>1 DEF CallStage, EndOfStream
  <2>5. QED
    BY <2>3, <2>4 DEF EncoderInv
<1>5. CASE ReceiveFails
  <2>1. /\ call' = "none" /\ at' = "none" /\ Given' = sent
        /\ output' = << >> /\ received' = << >> /\ outcome' = "thrown"
        /\ held' = held \/ (held # << >> /\ held' = Tail(held))
        /\ full' \in {full, FALSE}
        /\ UNCHANGED <<buffered, reached_eof, returned>>
    BY <1>0, <1>5 DEF ReceiveFails, Throw, NoCall, stateVars, Given
  <2>2. EncoderTyped'
    BY <1>0, <1>2, <1>3, <2>1 DEF EncoderTyped
  <2>3. CallStage' /\ EndOfStream'
    BY <1>0, <2>1 DEF CallStage, EndOfStream
  <2>4. QED
    BY <2>2, <2>3 DEF EncoderInv
<1>6. CASE ReceiveAgain \/ ReceiveEof
  <2>0. /\ held' = held /\ full' \in {full, FALSE} /\ AfterReceive
        /\ reached_eof' = reached_eof \/ (draining /\ held = << >> /\ reached_eof' = TRUE)
    BY <1>0, <1>6 DEF ReceiveAgain, ReceiveEof, codecVars
  <2>1. CASE at = "receive_first"
    <3>1. /\ at' = "give_again" /\ buffered' = buffered \o received
          /\ received' = << >> /\ Given' = Given
          /\ UNCHANGED <<call, frame, output, returned, outcome>>
      BY <1>0, <2>0, <2>1 DEF AfterReceive, callerVars, Given
    <3>2. buffered \o received \in Seq(1..Given)
      BY <1>1, ConcatProperties
    <3>3. EncoderTyped'
      BY <1>0, <1>1, <2>0, <3>1, <3>2 DEF EncoderTyped
    <3>4. CallStage' /\ EndOfStream'
      BY <1>0, <2>0, <2>1, <3>1 DEF CallStage, EndOfStream, EncoderTyped
    <3>5. QED
      BY <3>3, <3>4 DEF EncoderInv
  <2>2. CASE at = "receive"
    <3>1. /\ call' = "none" /\ at' = "none" /\ Given' = sent /\ Given = sent
          /\ output' = << >> /\ received' = << >> /\ outcome' = call
          /\ returned' = returned \o (output \o received)
          /\ buffered' = buffered
      BY <1>0, <2>0, <2>2 DEF AfterReceive, Return, NoCall, Given
    <3>2. output \o received \in Seq(1..Given)
      BY <1>1, ConcatProperties
    <3>3. returned \o (output \o received) \in Seq(1..Given)
      BY <1>1, <3>2, ConcatProperties
    <3>4. EncoderTyped'
      BY <1>0, <1>1, <2>0, <3>1, <3>3 DEF EncoderTyped
    <3>5. CallStage' /\ EndOfStream'
      BY <1>0, <2>0, <3>1 DEF CallStage, EndOfStream, EncoderTyped
    <3>6. QED
      BY <3>4, <3>5 DEF EncoderInv
  <2>3. QED
    BY <1>0, <2>1, <2>2
<1>7. QED
  BY <1>4, <1>5, <1>6

-----------------------------------------------------------------------------
(* The encoder implements the queue.                                       *)

\* Packets and frames inside, as one sequence.
InsideIs ==
  /\ buffered \in Seq(Nat) /\ output \in Seq(Nat) /\ received \in Seq(Nat)
  /\ held \in Seq(Nat) /\ Inside \in Seq(Nat) /\ Given \in Nat
  /\ Inside = Then(buffered, Then(output, Then(received, held)))
  /\ output = << >> => Inside = Then(buffered, Then(received, held))
  /\ output = << >> /\ received = << >> => Inside = Then(buffered, held)
  /\ buffered = << >> => Inside = Then(Then(output, received), held)
  /\ buffered = << >> /\ received = << >> => Inside = Then(output, held)

\* In every state with the right types.
LEMMA InsideChain == EncoderTyped => InsideIs
<1> SUFFICES ASSUME EncoderTyped PROVE InsideIs
  OBVIOUS
<1>1. /\ buffered \in Seq(Nat) /\ output \in Seq(Nat) /\ received \in Seq(Nat)
      /\ held \in Seq(Nat) /\ Given \in Nat
  BY EncoderSeqs, Wider
<1>2. Inside = Then(Then(Then(buffered, output), received), held)
  BY DEF Inside, Then
<1>3. /\ Then(buffered, output) \in Seq(Nat) /\ Then(received, held) \in Seq(Nat)
      /\ Then(output, received) \in Seq(Nat) /\ << >> \in Seq(Nat)
  BY <1>1, ThenProperties, EmptySeq
<1>4. /\ Then(buffered, Then(received, held)) \in Seq(Nat)
      /\ Then(output, Then(received, held)) \in Seq(Nat)
  BY <1>1, <1>3, ThenProperties
<1>5. Inside = Then(buffered, Then(output, Then(received, held)))
  <2>1. Inside = Then(Then(buffered, output), Then(received, held))
    BY <1>1, <1>2, <1>3, ThenAssociative
  <2>2. QED
    BY <1>1, <1>3, <2>1, ThenAssociative
<1>6. Inside \in Seq(Nat)
  BY <1>1, <1>4, <1>5, ThenProperties
<1>7. output = << >> => Inside = Then(buffered, Then(received, held))
  BY <1>3, <1>5, ThenEmpty
<1>8. received = << >> => Then(received, held) = held
  BY <1>1, ThenEmpty
<1>9. buffered = << >> => Inside = Then(output, Then(received, held))
  BY <1>4, <1>5, ThenEmpty
<1>10. Then(output, Then(received, held)) = Then(Then(output, received), held)
  BY <1>1, ThenAssociative
<1>11. QED
  BY <1>1, <1>5, <1>6, <1>7, <1>8, <1>9, <1>10 DEF InsideIs

\* And after a step into one.
LEMMA InsideChainNext == EncoderTyped' => InsideIs'
BY InsideChain, PTL

\* Numbers up to m are smaller than the next one.
LEMMA AllSmaller ==
  ASSUME NEW m \in Nat, NEW s \in Seq(1..m), NEW t \in Seq(1..m)
  PROVE  \A g \in Queue!ToSet(s \o t) : g < m + 1
<1>1. s \o t \in Seq(1..m)
  BY ConcatProperties
<1> DEFINE u == s \o t
<1>2. u \in Seq(1..m)
  BY <1>1
<1> HIDE DEF u
<1>3. ASSUME NEW i \in DOMAIN u PROVE u[i] < m + 1
  <2>1. i \in 1..Len(u)
    BY <1>2, <1>3, LenProperties
  <2>2. u[i] \in 1..m
    BY <1>2, <2>1, ElementOfSeq
  <2>3. QED
    BY <2>2
<1>4. QED
  BY <1>3 DEF Queue!ToSet, u

\* Handing over the first part of what is inside.
LEMMA HandsOver ==
  ASSUME NEW a \in Seq(Nat), NEW b \in Seq(Nat),
         Inside = Then(a, b), Inside' = b, returned' = returned \o a
  PROVE  /\ Queue!HandOver(Len(a))
         /\ Len(a) \in 0..Len(Inside)
         /\ Len(Inside) - Len(a) = Len(b)
<1>1. SubSeq(Inside, 1, Len(a)) = a /\ SubSeq(Inside, Len(a) + 1, Len(Inside)) = b
  BY ThenParts
<1>2. Len(Inside) = Len(a) + Len(b)
  BY ThenProperties
<1>3. Len(a) \in Nat /\ Len(b) \in Nat
  OBVIOUS
<1>4. Queue!HandOver(Len(a))
  BY <1>1 DEF Queue!HandOver
<1>5. QED
  BY <1>2, <1>3, <1>4

\* Losing the middle part of what is inside.
LEMMA Loses ==
  ASSUME NEW a \in Seq(Nat), NEW b \in Seq(Nat), NEW c \in Seq(Nat),
         Inside = Then(a, Then(b, c)),
         Inside' = Then(a, c) \/ \E f \in 1..MaxFrames : Queue!Newer(f, Then(a, c)),
         outcome' = "thrown", UNCHANGED <<depth, returned, flush_sent>>
  PROVE  Queue!Throw
<1>0. Leaves(Inside, a, c)
  BY WithoutMiddle
<1>1. PICK n \in 0..Len(Inside) : \E m \in n..Len(Inside) :
        /\ SubSeq(Inside, 1, n) = a
        /\ SubSeq(Inside, m + 1, Len(Inside)) = c
  BY <1>0 DEF Leaves
<1>2. PICK m \in n..Len(Inside) :
        /\ SubSeq(Inside, 1, n) = a
        /\ SubSeq(Inside, m + 1, Len(Inside)) = c
  BY <1>1
<1>3. SubSeq(Inside, 1, n) \o SubSeq(Inside, m + 1, Len(Inside)) = Then(a, c)
  BY <1>2 DEF Then
<1>4. QED
  BY <1>2, <1>3 DEF Queue!Throw

\* Losing nothing.
LEMMA LosesNothing ==
  ASSUME Inside \in Seq(Nat),
         Inside' = Inside \/ \E f \in 1..MaxFrames : Queue!Newer(f, Inside),
         outcome' = "thrown", UNCHANGED <<depth, returned, flush_sent>>
  PROVE  Queue!Throw
<1>1. << >> \in Seq(Nat) /\ Then(Inside, << >>) = Inside /\ Then(<< >>, << >>) = << >>
  BY EmptySeq, ThenEmpty
<1>2. QED
  BY <1>1, Loses

\* The frame send() gives to the codec is newer than all there are.
LEMMA GivenIsNewer ==
  ASSUME EncoderInv, EncoderTyped', Giving, call = "send",
         held' = Append(held, frame), buffered' = buffered,
         output' = << >>, received' = << >>
  PROVE  frame \in 1..MaxFrames /\ Queue!Newer(frame, Inside)
<1>1. /\ EncoderTyped /\ InsideIs /\ InsideIs'
      /\ output = << >> /\ received = << >> /\ frame = sent
  BY InsideChain, InsideChainNext DEF EncoderInv, CallStage, Giving
<1>2. Given = sent - 1 /\ Given \in Nat /\ sent \in 0..MaxFrames
  BY <1>1, EncoderSeqs DEF Given, EncoderTyped
<1>3. sent \in 1..MaxFrames /\ sent \in Nat /\ Given + 1 = sent
  BY <1>2, MaxFramesAssumption
<1>4. Inside = Then(buffered, held) /\ Inside' = Then(buffered, Append(held, frame))
  BY <1>1 DEF InsideIs
<1>5. Inside' = Append(Inside, frame)
  <2>1. buffered \in Seq(Nat) /\ held \in Seq(Nat) /\ frame \in Nat
    BY <1>1, <1>3 DEF InsideIs
  <2>2. QED
    BY <1>4, <2>1, AppendToLast
<1>6. Inside \in Seq(1..Given) /\ returned \in Seq(1..Given)
  BY <1>1, <1>4, EncoderSeqs, ConcatProperties DEF Then
<1>7. \A g \in Queue!ToSet(Inside \o returned) : g < frame
  BY <1>1, <1>2, <1>3, <1>6, AllSmaller
<1>8. QED
  BY <1>1, <1>3, <1>5, <1>7 DEF Queue!Newer

\* The calls as they begin.
LEMMA CallRefines ==
  ASSUME EncoderInv, EncoderTyped',
         Send("cpu") \/ Send("vulkan") \/ SendRefused \/ Drain \/ Flush
  PROVE  Queue!Next \/ UNCHANGED Queue!vars
<1>0. /\ InsideIs /\ InsideIs' /\ output = << >> /\ received = << >>
      /\ EndOfStream
      /\ << >> \in Seq(Nat)
  BY InsideChain, InsideChainNext, EmptySeq
  DEF EncoderInv, CallStage, Idle, Send, SendRefused, Drain, Flush
<1>1. Inside = Then(buffered, held) /\ buffered \in Seq(Nat) /\ held \in Seq(Nat)
      /\ Inside \in Seq(Nat)
  BY <1>0 DEF InsideIs
<1>2. CASE Send("cpu") \/ Send("vulkan")
  <2>1. UNCHANGED <<buffered, output, received, held, depth, returned, flush_sent, outcome>>
    BY <1>2 DEF Send, codecVars, stateVars
  <2>2. QED
    BY <2>1 DEF Queue!vars, Inside
<1>3. CASE SendRefused
  <2>1. /\ UNCHANGED <<buffered, held, depth, returned, flush_sent>>
        /\ output' = << >> /\ received' = << >> /\ outcome' = "thrown"
    BY <1>3 DEF SendRefused, Throw, NoCall, codecVars, stateVars
  <2>2. Inside' = Inside
    BY <1>0, <2>1 DEF InsideIs
  <2>3. QED
    BY <1>1, <2>1, <2>2, LosesNothing DEF Queue!Next
<1>4. CASE Drain \/ (Flush /\ call' # "none")
  <2>1. /\ UNCHANGED <<received, held, depth, returned, flush_sent, outcome>>
        /\ \/ UNCHANGED <<buffered, output>>
           \/ output' = buffered /\ buffered' = << >>
    BY <1>4 DEF Drain, Flush, Return, NoCall, codecVars, callerVars
  <2>2. Inside' = Inside
    BY <1>0, <2>1 DEF InsideIs
  <2>3. QED
    BY <2>1, <2>2 DEF Queue!vars
<1>5. CASE Flush /\ call' = "none"
  <2>1. /\ flush_sent /\ reached_eof /\ outcome' = "flush"
        /\ returned' = returned \o buffered /\ buffered' = << >>
        /\ output' = << >> /\ received' = << >>
        /\ UNCHANGED <<held, depth, flush_sent>>
    BY <1>5 DEF Flush, Return, NoCall, codecVars
  <2>2. held = << >>
    BY <1>0, <2>1 DEF EndOfStream
  <2>3. Inside' = << >>
    BY <1>0, <2>1, <2>2, ThenEmpty DEF InsideIs
  <2>4. /\ Queue!HandOver(Len(buffered))
        /\ Len(Inside) - Len(buffered) = Len(<< >>) /\ Len(<< >>) = 0
    BY <1>0, <1>1, <2>1, <2>2, <2>3, HandsOver
  <2>5. Len(buffered) = Len(Inside)
    BY <1>1, <2>2, ThenEmpty
  <2>6. QED
    BY <2>1, <2>4, <2>5 DEF Queue!Next, Queue!Flush
<1>6. QED
  BY <1>2, <1>3, <1>4, <1>5

\* A frame, or the end, is given to the codec.
LEMMA GiveRefines ==
  ASSUME EncoderInv, EncoderTyped', GiveFrame \/ GiveNull \/ GiveRefused \/ GiveFails
  PROVE  Queue!Next \/ UNCHANGED Queue!vars
<1>0. /\ InsideIs /\ InsideIs' /\ output = << >> /\ received = << >>
      /\ EndOfStream /\ Giving /\ << >> \in Seq(Nat) /\ Inside \in Seq(Nat)
      /\ EncoderTyped
  BY InsideChain, InsideChainNext, EmptySeq
  DEF EncoderInv, CallStage, Giving, GiveFrame, GiveNull, GiveRefused, GiveFails, InsideIs
<1>1. CASE GiveFrame
  <2>1. /\ call = "send" /\ ~draining /\ held' = Append(held, frame)
        /\ outcome' = "send" /\ returned' = returned \o << >>
        /\ output' = << >> /\ received' = << >>
        /\ UNCHANGED <<buffered, depth, flush_sent>>
    BY <1>1 DEF GiveFrame, Return, NoCall, stateVars
  <2>2. ~flush_sent
    BY <1>0, <2>1 DEF EndOfStream, EncoderTyped
  <2>3. returned' = returned
    <3>1. returned \in Seq(1..Given)
      BY <1>0, EncoderSeqs
    <3>2. QED
      BY <2>1, <3>1, ConcatEmptySeq
  <2>4. frame \in 1..MaxFrames /\ Queue!Newer(frame, Inside)
    BY <1>0, <2>1, GivenIsNewer
  <2>5. Queue!Send(frame)
    BY <2>1, <2>2, <2>3, <2>4 DEF Queue!Send
  <2>6. QED
    BY <2>4, <2>5 DEF Queue!Next
<1>2. CASE GiveFails
  <2>1. /\ outcome' = "thrown" /\ output' = << >> /\ received' = << >>
        /\ held' = held \/ (call = "send" /\ held' = Append(held, frame))
        /\ UNCHANGED <<buffered, depth, flush_sent, returned>>
    BY <1>2 DEF GiveFails, Throw, NoCall, stateVars
  <2>2. CASE held' = held
    <3>1. Inside' = Inside
      BY <1>0, <2>1, <2>2 DEF InsideIs
    <3>2. QED
      BY <1>0, <2>1, <3>1, LosesNothing DEF Queue!Next
  <2>3. CASE call = "send" /\ held' = Append(held, frame)
    <3>1. frame \in 1..MaxFrames /\ Queue!Newer(frame, Inside)
      BY <1>0, <2>1, <2>3, GivenIsNewer
    <3>2. QED
      BY <1>0, <2>1, <3>1, LosesNothing DEF Queue!Next
  <2>4. QED
    BY <2>1, <2>2, <2>3
<1>3. CASE GiveNull
  <2>1. /\ ~draining /\ flush_sent' = TRUE
        /\ output' = buffered /\ buffered' = << >>
        /\ UNCHANGED <<depth, held, received, returned, outcome>>
    BY <1>3 DEF GiveNull, callerVars
  <2>2. ~flush_sent
    BY <1>0, <2>1 DEF EndOfStream
  <2>3. Inside' = Inside
    BY <1>0, <2>1 DEF InsideIs
  <2>4. QED
    BY <2>1, <2>2, <2>3 DEF Queue!Next, Queue!End
<1>4. CASE GiveRefused
  <2>1. UNCHANGED <<buffered, output, received, held, depth, returned, flush_sent, outcome>>
    BY <1>4 DEF GiveRefused, codecVars, stateVars, callerVars
  <2>2. QED
    BY <2>1 DEF Queue!vars, Inside
<1>5. QED
  BY <1>1, <1>2, <1>3, <1>4

\* receive_available() runs.
LEMMA ReceiveRefines ==
  ASSUME EncoderInv, EncoderTyped',
         ReceivePacket \/ ReceiveAgain \/ ReceiveEof \/ ReceiveFails
  PROVE  Queue!Next \/ UNCHANGED Queue!vars
<1>0. /\ InsideIs /\ InsideIs' /\ EncoderTyped /\ EndOfStream
      /\ at = "receive" \/ at = "receive_first"
      /\ call = "drain" \/ call = "flush" \/ at = "receive_first"
      /\ at = "receive" => buffered = << >>
      /\ at = "receive" /\ call = "flush" => flush_sent
      /\ at = "receive_first" => output = << >>
      /\ depth # 0 /\ depth \in 0..64 /\ << >> \in Seq(Nat)
  <2>1. at = "receive" \/ at = "receive_first"
    BY DEF Receiving, ReceivePacket, ReceiveAgain, ReceiveEof, ReceiveFails
  <2>2. EncoderTyped /\ CallStage /\ EndOfStream
    BY DEF EncoderInv
  <2>3. QED
    BY <2>1, <2>2, InsideChain, InsideChainNext, EmptySeq DEF CallStage, EncoderTyped
<1>1. /\ buffered \in Seq(Nat) /\ output \in Seq(Nat) /\ received \in Seq(Nat)
      /\ held \in Seq(Nat)
  BY <1>0 DEF InsideIs
<1>2. CASE ReceivePacket
  <2>1. /\ held # << >> /\ received' = Append(received, Head(held)) /\ held' = Tail(held)
        /\ UNCHANGED <<buffered, output, depth, returned, flush_sent, outcome>>
    BY <1>2 DEF ReceivePacket, stateVars, callerVars
  <2>2. Then(received', held') = Then(received, held)
    BY <1>1, <2>1, HandedOn
  <2>3. Inside' = Inside
    BY <1>0, <2>1, <2>2 DEF InsideIs
  <2>4. QED
    BY <2>1, <2>3 DEF Queue!vars
<1>3. CASE ReceiveFails
  <2>1. /\ outcome' = "thrown" /\ output' = << >> /\ received' = << >>
        /\ held' = held \/ (held # << >> /\ held' = Tail(held))
        /\ UNCHANGED <<buffered, depth, returned, flush_sent>>
    BY <1>3 DEF ReceiveFails, Throw, NoCall, stateVars
  <2>2. Inside' = Then(buffered, held') /\ held' \in Seq(Nat)
    BY <1>0, <2>1 DEF InsideIs
  <2>3. CASE held' = held
    <3>1. Then(output, received) \in Seq(Nat)
      BY <1>1, ThenProperties
    <3>2. Inside = Then(buffered, Then(Then(output, received), held))
      BY <1>0, <1>1, ThenAssociative DEF InsideIs
    <3>3. QED
      BY <1>1, <2>1, <2>2, <2>3, <3>1, <3>2, Loses DEF Queue!Next
  <2>4. CASE held # << >> /\ held' = Tail(held)
    <3> DEFINE got == Append(received, Head(held))
    <3>1. got \in Seq(Nat)
      BY <1>1, <2>4, HeadTailProperties, AppendProperties
    <3>2. Then(got, held') = Then(received, held)
      BY <1>1, <2>4, HandedOn
    <3> HIDE DEF got
    <3>3. Then(output, got) \in Seq(Nat)
      BY <1>1, <3>1, ThenProperties
    <3>4. Then(output, Then(got, held')) = Then(Then(output, got), held')
      BY <1>1, <2>2, <3>1, ThenAssociative
    <3>5. Inside = Then(buffered, Then(Then(output, got), held'))
      BY <1>0, <3>2, <3>4 DEF InsideIs
    <3>6. QED
      BY <1>1, <2>1, <2>2, <3>3, <3>5, Loses DEF Queue!Next
  <2>5. QED
    BY <2>1, <2>3, <2>4
<1>4. CASE (ReceiveAgain \/ ReceiveEof) /\ at = "receive_first"
  <2>1. /\ buffered' = buffered \o received /\ received' = << >>
        /\ UNCHANGED <<output, held, depth, returned, flush_sent, outcome>>
    BY <1>4 DEF ReceiveAgain, ReceiveEof, AfterReceive, codecVars, callerVars
  <2>2. buffered' = Then(buffered, received)
    BY <2>1 DEF Then
  <2>3. Inside = Then(buffered, Then(received, held))
        /\ Inside' = Then(Then(buffered, received), held)
    BY <1>0, <1>4, <2>1, <2>2 DEF InsideIs
  <2>4. Inside' = Inside
    BY <1>1, <2>3, ThenAssociative
  <2>5. QED
    BY <2>1, <2>4 DEF Queue!vars
<1>5. CASE (ReceiveAgain \/ ReceiveEof) /\ at = "receive"
  <2> DEFINE out == Then(output, received)
  <2>1. /\ returned' = returned \o out /\ outcome' = call
        /\ output' = << >> /\ received' = << >>
        /\ UNCHANGED <<buffered, held, depth, flush_sent>>
    BY <1>5 DEF ReceiveAgain, ReceiveEof, AfterReceive, Return, NoCall, codecVars, Then
  <2>2. out \in Seq(Nat) /\ Inside = Then(out, held)
    BY <1>0, <1>1, <1>5, ThenProperties DEF InsideIs
  <2>3. Inside' = held
    BY <1>0, <1>1, <1>5, <2>1, ThenEmpty DEF InsideIs
  <2> HIDE DEF out
  <2>4. /\ Queue!HandOver(Len(out))
        /\ Len(out) \in 0..Len(Inside)
        /\ Len(Inside) - Len(out) = Len(held)
    BY <1>1, <2>1, <2>2, <2>3, HandsOver
  <2>5. \/ ReceiveAgain /\ ~draining /\ Len(held) < depth
        \/ ReceiveEof /\ held = << >>
    BY <1>5 DEF ReceiveAgain, ReceiveEof
  <2>6. CASE call = "drain"
    <3>1. Len(held) < depth
      BY <1>0, <2>5
    <3>2. Queue!Drain
      BY <2>1, <2>4, <2>6, <3>1 DEF Queue!Drain
    <3>3. QED
      BY <3>2 DEF Queue!Next
  <2>7. CASE call = "flush"
    <3>1. flush_sent /\ held = << >>
      BY <1>0, <1>5, <2>5, <2>7 DEF EndOfStream
    <3>2. Len(out) = Len(Inside)
      BY <2>2, <3>1, ThenEmpty
    <3>3. Queue!Flush
      BY <2>1, <2>4, <2>7, <3>1, <3>2 DEF Queue!Flush
    <3>4. QED
      BY <3>3 DEF Queue!Next
  <2>8. QED
    BY <1>0, <1>5, <2>6, <2>7
<1>6. QED
  BY <1>0, <1>2, <1>3, <1>4, <1>5

\* An encoder is made, or destroyed.
LEMMA RenewRefines ==
  ASSUME EncoderTyped', Renew
  PROVE  /\ depth = 0 /\ depth' \in 1..64 => Queue!Next
         /\ depth # 0 /\ depth' = 0 => Queue!Next
<1>1. /\ Inside' = << >> /\ returned' = << >> /\ flush_sent' = FALSE /\ outcome' = "none"
  BY InsideChainNext, EmptySeq, ThenEmpty DEF Renew, InsideIs
<1>2. QED
  BY <1>1 DEF Queue!Next, Queue!Open, Queue!Close, Queue!NoEncoder

-----------------------------------------------------------------------------
(* The inductive invariant.                                                *)

\* It holds before anything is probed.
LEMMA InitInv == Init => IInv
<1> SUFFICES ASSUME Init PROVE IInv
  OBVIOUS
<1>1. StartTyped /\ WithinLimits /\ Chosen /\ BackendHonoured /\ OneFrameSent
  <2>1. config \in Config /\ machine \in [cores : Nat, memory : Nat, frames : Nat \ {0}]
    BY ConfigsAssumption, MachinesAssumption DEF Init
  <2>2. StartTyped
    BY <2>1 DEF Init, StartTyped
  <2>3. WithinLimits /\ Chosen /\ OneFrameSent
    BY <2>2 DEF Init, WithinLimits, Chosen, OneFrameSent, StartTyped
  <2>4. BackendHonoured
    BY DEF Init, InitEncoder, BackendHonoured, Refused
  <2>5. QED
    BY <2>2, <2>3, <2>4
<1>2. EncoderTyped /\ CallStage /\ EndOfStream
  <2>1. << >> \in Seq(1..Given) /\ Given = 0 /\ 0 \in 0..MaxFrames
    BY MaxFramesAssumption, EmptySeq DEF Init, InitEncoder, Empty, Given
  <2>2. EncoderTyped
    <3>1. /\ depth = 0 /\ full = FALSE /\ draining = FALSE /\ flush_sent = FALSE
          /\ reached_eof = FALSE /\ call = "none" /\ at = "none" /\ sent = 0
          /\ outcome = "none"
      BY DEF Init, InitEncoder, Empty
    <3>2. \A packets \in {held, buffered, output, received, returned} :
            packets \in Seq(1..Given)
      BY <2>1 DEF Init, InitEncoder, Empty
    <3>3. depth \in 0..64 /\ sent \in 0..MaxFrames /\ Given \in Nat
      BY <2>1, <3>1
    <3>4. QED
      BY <3>1, <3>2, <3>3, Zenon DEF EncoderTyped
  <2>3. CallStage /\ EndOfStream
    BY DEF Init, InitEncoder, Empty, CallStage, EndOfStream
  <2>4. QED
    BY <2>2, <2>3
<1>3. QED
  BY <1>1, <1>2 DEF IInv

\* A selection is made only from a valid configuration.
LEMMA SelectValid ==
  ASSUME config \in Config, SelectBackend(config, capabilities) # Refused
  PROVE  Limits
  BY DEF SelectBackend, Valid, Limits, Config

\* What a selection honours.
LEMMA SelectHonours ==
  ASSUME StartTyped,
         NEW s, s = SelectBackend(config, capabilities)
  PROVE  /\ s.backend = "vulkan" =>
              /\ capabilities.vulkan_backend_available
              /\ config.demosaic = "rcd"
         /\ config.backend # "auto" => s.backend \in {"none", config.backend}
         /\ s.used_fallback => s.backend = "cpu" /\ config.fallback = "prores_ks"
<1>1. \/ s = Refused
      \/ /\ s = [backend |-> "cpu", used_fallback |-> FALSE]
         /\ config.backend = "cpu"
      \/ /\ s = [backend |-> "vulkan", used_fallback |-> FALSE]
         /\ config.backend # "cpu"
         /\ VulkanUsable(config, capabilities)
      \/ /\ s = [backend |-> "cpu", used_fallback |-> TRUE]
         /\ config.backend \notin {"cpu", "vulkan"} /\ config.fallback = "prores_ks"
  BY DEF SelectBackend, FallBack
<1>2. config.backend \in {"auto", "cpu", "vulkan"}
  BY DEF StartTyped, Config
<1>3. QED
  BY <1>1, <1>2 DEF Refused, VulkanUsable

\* The configuration with what the plan has put in.
LEMMA ResolvedConfig ==
  ASSUME NEW c \in Config, NEW plan,
         plan.total_threads \in Nat, plan.parallel_frames \in Nat
  PROVE  /\ Resolved(c, plan) \in Config
         /\ Resolved(c, plan).max_parallel_frames = plan.parallel_frames
         /\ Resolved(c, plan).async_depth = c.async_depth
         /\ Resolved(c, plan).backend = c.backend
         /\ Resolved(c, plan).fallback = c.fallback
         /\ Resolved(c, plan).demosaic = c.demosaic
  BY DEF Config, Resolved

\* The encoder's part of the invariant, where nothing of the encoder changes.
LEMMA EncoderStays ==
  ASSUME EncoderInv, UNCHANGED encoderVars
  PROVE  EncoderInv'
BY DEF EncoderInv, EncoderTyped, CallStage, EndOfStream, Given, encoderVars, codecVars,
   stateVars, callVars, callerVars

\* A selection and the plan.
LEMMA SelectPlanInv ==
  ASSUME IInv, Select \/ Plan
  PROVE  IInv'
<1>0. /\ StartTyped /\ WithinLimits /\ Chosen /\ BackendHonoured /\ EncoderInv
      /\ UNCHANGED encoderVars
  BY DEF IInv, EncoderInv, Select, Plan
<1>1. EncoderInv' /\ depth' = depth
  BY <1>0, EncoderStays DEF encoderVars
<1>2. CASE Select
  <2>1. /\ selection' = SelectBackend(config, capabilities)
        /\ phase' \in {"failed", "plan"} /\ (phase' = "plan" => selection' # Refused)
        /\ UNCHANGED <<config, machine, capabilities, smoke>>
    BY <1>2 DEF Select
  <2>2. StartTyped' /\ OneFrameSent'
    BY <1>0, <2>1 DEF StartTyped, OneFrameSent
  <2>3. WithinLimits'
    BY <1>0, <2>1, SelectValid DEF WithinLimits, Limits, StartTyped
  <2>4. Chosen'
    BY <1>0, <2>1 DEF Chosen
  <2>5. BackendHonoured'
    BY <1>0, <1>1, <2>1, SelectHonours DEF BackendHonoured, Chosen
  <2>6. QED
    BY <1>1, <2>2, <2>3, <2>4, <2>5 DEF IInv, EncoderInv
<1>3. CASE Plan
  <2> DEFINE plan == ExecutionPlan(config, machine.cores, machine.memory,
                                   machine.frames)
             total == TotalThreads(config, machine.cores)
  <2>0. /\ Limits /\ config \in Config /\ machine.cores \in Nat /\ machine.memory \in Nat
        /\ machine.frames \in Nat \ {0}
    BY <1>0, <1>3 DEF Plan, WithinLimits, StartTyped
  <2>1. total \in Nat \ {0}
    BY <2>0 DEF TotalThreads, Greater, Config
  <2>2. plan.parallel_frames \in 1..64 /\ plan.total_threads = total
    BY <2>0, <2>1, Parallel DEF Limits, ExecutionPlan
  <2>3. /\ config' = Resolved(config, plan) /\ phase' = "create"
        /\ UNCHANGED <<machine, capabilities, smoke, selection>>
    BY <1>3 DEF Plan
  <2> HIDE DEF plan, total
  <2>4. plan.parallel_frames \in Nat /\ plan.total_threads \in Nat
    BY <2>1, <2>2
  <2>5. /\ config' \in Config
        /\ config'.max_parallel_frames = plan.parallel_frames
        /\ config'.async_depth = config.async_depth
        /\ config'.backend = config.backend
        /\ config'.fallback = config.fallback
        /\ config'.demosaic = config.demosaic
    BY <2>0, <2>3, <2>4, ResolvedConfig
  <2>6. WithinLimits'
    BY <2>0, <2>2, <2>5 DEF Limits, WithinLimits
  <2>7. StartTyped' /\ OneFrameSent' /\ Chosen'
    BY <1>0, <2>3, <2>5 DEF StartTyped, OneFrameSent, Chosen
  <2>8. BackendHonoured'
    BY <1>0, <1>1, <2>3, <2>5 DEF BackendHonoured
  <2>9. QED
    BY <1>1, <2>6, <2>7, <2>8 DEF IInv, EncoderInv
<1>4. QED
  BY <1>2, <1>3

\* The preflight begins and ends.
LEMMA ProbeInv ==
  ASSUME IInv, ProbeWithoutGpu \/ ProbeGpu \/ SmokePassed \/ SmokeFailed
  PROVE  IInv'
<1>0. /\ StartTyped /\ WithinLimits /\ Chosen /\ BackendHonoured /\ EncoderInv
      /\ phase \in {"probe", "smoke"} /\ selection = Refused
      /\ UNCHANGED <<config, machine, selection>>
  BY DEF IInv, EncoderInv, Chosen, ProbeWithoutGpu, ProbeGpu, SmokePassed, SmokeFailed
<1>1. WithinLimits'
  BY DEF ProbeWithoutGpu, ProbeGpu, SmokePassed, SmokeFailed, WithinLimits
<1>2. CASE ProbeWithoutGpu \/ SmokeFailed
  <2>1. /\ phase' = "select" /\ UNCHANGED <<capabilities, smoke>>
        /\ depth' = depth \/ depth' = 0
    BY <1>2 DEF ProbeWithoutGpu, SmokeFailed, Destroy, encoderVars
  <2>2. EncoderInv'
    <3>1. CASE ProbeWithoutGpu
      BY <1>0, <3>1, EncoderStays DEF ProbeWithoutGpu
    <3>2. CASE SmokeFailed
      BY <3>2, RenewInv DEF SmokeFailed, Destroy
    <3>3. QED
      BY <1>2, <3>1, <3>2
  <2>3. StartTyped' /\ Chosen' /\ OneFrameSent'
    BY <1>0, <2>1 DEF StartTyped, Chosen, OneFrameSent
  <2>4. BackendHonoured'
    BY <1>0, <2>1 DEF BackendHonoured
  <2>5. QED
    BY <1>1, <2>2, <2>3, <2>4 DEF IInv, EncoderInv
<1>3. CASE ProbeGpu
  <2>1. /\ phase' = "smoke" /\ UNCHANGED <<capabilities, smoke>>
        /\ config.backend # "cpu" /\ depth' = 2 /\ Renew
    BY <1>3 DEF ProbeGpu, Construct
  <2>2. EncoderInv'
    BY <2>1, RenewInv
  <2>3. sent' = 0
    BY <2>1 DEF Renew
  <2>4. StartTyped' /\ Chosen' /\ OneFrameSent'
    BY <1>0, <2>1, <2>3 DEF StartTyped, Chosen, OneFrameSent
  <2>5. BackendHonoured'
    BY <1>0, <2>1 DEF BackendHonoured
  <2>6. QED
    BY <1>1, <2>2, <2>4, <2>5 DEF IInv, EncoderInv
<1>4. CASE SmokePassed
  <2>1. /\ phase = "smoke" /\ phase' = "select" /\ depth' = 0 /\ Renew
        /\ smoke' = returned /\ Len(returned) = 1
        /\ capabilities' = [capabilities EXCEPT !.vulkan_backend_available = TRUE]
    BY <1>4 DEF SmokePassed, Destroy
  <2>2. EncoderInv'
    BY <2>1, RenewInv
  <2>3. smoke' = <<1>>
    <3>1. returned \in Seq(1..Given) /\ Given \in Nat /\ Given <= sent /\ sent \in Nat
      BY <1>0, EncoderSeqs DEF EncoderInv, Given
    <3>2. sent <= 1
      BY <2>1 DEF IInv, OneFrameSent
    <3>3. returned[1] \in 1..Given
      BY <2>1, <3>1, ElementOfSeq
    <3>4. returned[1] = 1
      BY <3>1, <3>2, <3>3
    <3>5. /\ <<1>> \in Seq(1..Given) /\ Len(<<1>>) = 1 /\ <<1>>[1] = 1
      BY <3>3, <3>4
    <3>6. returned = <<1>>
      BY <2>1, <3>1, <3>4, <3>5, SeqEqual
    <3>7. QED
      BY <2>1, <3>6
  <2>4. StartTyped'
    BY <1>0, <2>1 DEF StartTyped
  <2>5. Chosen' /\ OneFrameSent'
    BY <1>0, <2>1, <2>3 DEF Chosen, OneFrameSent
  <2>6. BackendHonoured'
    BY <1>0, <2>1 DEF BackendHonoured, Refused
  <2>7. QED
    BY <1>1, <2>2, <2>4, <2>5, <2>6 DEF IInv, EncoderInv
<1>5. QED
  BY <1>2, <1>3, <1>4

\* The encoder of the conversion is made, or not, and goes.
LEMMA CreateInv ==
  ASSUME IInv, CreateVulkan \/ CreateCpu \/ CreateFails \/ Finish
  PROVE  IInv'
<1>0. /\ StartTyped /\ WithinLimits /\ Chosen /\ BackendHonoured /\ EncoderInv
      /\ phase \in {"create", "convert"}
      /\ phase' \in {"convert", "convert_cpu", "failed", "done"}
      /\ UNCHANGED <<config, machine, capabilities, smoke, selection>>
  BY DEF IInv, EncoderInv, CreateVulkan, CreateCpu, CreateFails, Finish
<1>1. StartTyped' /\ WithinLimits' /\ Chosen' /\ OneFrameSent'
  BY <1>0 DEF StartTyped, WithinLimits, Chosen, OneFrameSent
<1>2. CASE CreateVulkan
  <2>1. /\ Renew /\ depth' \in 1..64 /\ selection.backend = "vulkan"
    BY <1>0, <1>2 DEF CreateVulkan, Construct, WithinLimits, Limits
  <2>2. EncoderInv'
    BY <2>1, RenewInv
  <2>3. config.backend # "cpu"
    BY <1>0, <2>1 DEF BackendHonoured
  <2>4. BackendHonoured'
    BY <1>0, <2>3 DEF BackendHonoured
  <2>5. QED
    BY <1>1, <2>2, <2>4 DEF IInv, EncoderInv
<1>3. CASE CreateCpu \/ CreateFails \/ Finish
  <2>1. EncoderInv' /\ (depth' = depth \/ depth' = 0)
    <3>1. CASE CreateCpu \/ CreateFails
      <4>1. UNCHANGED encoderVars
        BY <3>1 DEF CreateCpu, CreateFails
      <4>2. QED
        BY <1>0, <4>1, EncoderStays DEF encoderVars
    <3>2. CASE Finish
      BY <3>2, RenewInv DEF Finish, Destroy
    <3>3. QED
      BY <1>3, <3>1, <3>2
  <2>2. BackendHonoured'
    BY <1>0, <2>1 DEF BackendHonoured
  <2>3. QED
    BY <1>1, <2>1, <2>2 DEF IInv, EncoderInv
<1>4. QED
  BY <1>2, <1>3

\* The calls of the encoder there are.
LEMMA Calls ==
  ASSUME SmokeCall \/ ConvertCall
  PROVE  Send("cpu") \/ Send("vulkan") \/ SendRefused \/ Drain \/ Flush
BY DEF SmokeCall, ConvertCall

\* The encoder is used.
LEMMA UseInv ==
  ASSUME IInv, SmokeCall \/ ConvertCall \/ Encode
  PROVE  IInv'
<1>0. /\ StartTyped /\ WithinLimits /\ Chosen /\ BackendHonoured /\ EncoderInv
      /\ OneFrameSent
      /\ UNCHANGED <<config, machine, capabilities, smoke, selection, phase>>
  BY DEF IInv, EncoderInv, SmokeCall, ConvertCall, Encode, startVars
<1>1. EncoderInv'
  <2>1. CASE SmokeCall \/ ConvertCall
    BY <1>0, <2>1, Calls, CallInv
  <2>2. CASE Encode
    BY <1>0, <2>2, GiveInv, ReceiveInv DEF Encode, EncoderStep
  <2>3. QED
    BY <2>1, <2>2
<1>2. depth' = depth
  BY DEF SmokeCall, ConvertCall, Encode, EncoderStep, Send, SendRefused, Drain, Flush,
     GiveFrame, GiveNull, GiveRefused, GiveFails, ReceivePacket, ReceiveAgain, ReceiveEof,
     ReceiveFails
<1>3. StartTyped' /\ WithinLimits' /\ Chosen' /\ BackendHonoured'
  BY <1>0, <1>2 DEF StartTyped, WithinLimits, Limits, Chosen, BackendHonoured
<1>4. OneFrameSent'
  <2>1. SUFFICES ASSUME phase = "smoke"
                 PROVE  sent' <= 1 /\ (sent' = 1 => call' = "send" \/ outcome' # "none")
    BY <1>0 DEF OneFrameSent
  <2>2. sent <= 1 /\ (sent = 1 => call = "send" \/ outcome # "none") /\ sent \in Nat
    BY <1>0, <2>1, EncoderSeqs DEF OneFrameSent, EncoderInv
  <2>3. CASE SmokeCall
    <3>1. call = "none" \/ ~Idle
      BY DEF Idle
    <3>2. CASE outcome = "none"
      <4>1. Send("vulkan")
        BY <2>3, <3>2 DEF SmokeCall
      <4>2. sent = 0 /\ sent' = sent + 1 /\ call' = "send"
        BY <2>2, <3>2, <4>1 DEF Send, Idle
      <4>3. QED
        BY <4>2
    <3>3. CASE outcome = "send"
      <4>1. Drain
        BY <2>3, <3>3 DEF SmokeCall
      <4>2. UNCHANGED <<sent, outcome>>
        BY <4>1 DEF Drain, callerVars
      <4>3. QED
        BY <2>2, <3>3, <4>2
    <3>4. CASE outcome = "drain"
      <4>1. Flush
        BY <2>3, <3>4 DEF SmokeCall
      <4>2. sent' = sent /\ outcome' \in {"drain", "flush"}
        BY <3>4, <4>1 DEF Flush, Return, callerVars
      <4>3. QED
        BY <2>2, <4>2
    <3>5. QED
      BY <2>3, <3>2, <3>3, <3>4 DEF SmokeCall
  <2>4. CASE Encode
    <3>1. sent' = sent
      BY <2>4 DEF Encode, EncoderStep, GiveFrame, GiveNull, GiveRefused, GiveFails,
         ReceivePacket, ReceiveAgain, ReceiveEof, ReceiveFails, AfterReceive, callerVars
    <3>2. UNCHANGED <<call, outcome>> \/ outcome' \in {"send", "thrown", call}
      BY <2>4 DEF Encode, EncoderStep, GiveFrame, GiveNull, GiveRefused, GiveFails,
         ReceivePacket, ReceiveAgain, ReceiveEof, ReceiveFails, AfterReceive, Return,
         Throw, callerVars
    <3>3. call # "none"
      BY <1>0, <2>4 DEF EncoderInv, CallStage, Giving, Receiving, Encode, EncoderStep,
         GiveFrame, GiveNull, GiveRefused, GiveFails, ReceivePacket, ReceiveAgain,
         ReceiveEof, ReceiveFails
    <3>4. QED
      BY <2>2, <3>1, <3>2, <3>3
  <2>5. CASE ConvertCall
    BY <2>1, <2>5 DEF ConvertCall
  <2>6. QED
    BY <2>3, <2>4, <2>5
<1>5. QED
  BY <1>0, <1>1, <1>3, <1>4 DEF IInv, EncoderInv

\* Every step keeps the invariant.
LEMMA NextInv == IInv /\ [Next]_vars => IInv'
<1> SUFFICES ASSUME IInv, [Next]_vars PROVE IInv'
  OBVIOUS
<1>1. CASE UNCHANGED vars
  <2>1. EncoderInv'
    BY <1>1, EncoderStays DEF vars, IInv, EncoderInv
  <2>2. UNCHANGED <<startVars, depth, sent, call, outcome>>
    BY <1>1 DEF vars, encoderVars, callVars, callerVars
  <2>3. (StartTyped /\ WithinLimits /\ Chosen /\ BackendHonoured /\ OneFrameSent)'
    BY <2>2 DEF startVars, IInv, StartTyped, WithinLimits, Limits, Chosen,
       BackendHonoured, OneFrameSent
  <2>4. QED
    BY <2>1, <2>3 DEF IInv, EncoderInv
<1>2. QED
  BY <1>1, SelectPlanInv, ProbeInv, CreateInv, UseInv DEF Next

\* Hence it always holds.
THEOREM Invariance == Spec => []IInv
BY InitInv, NextInv, PTL DEF Spec

-----------------------------------------------------------------------------
(* The theorems.                                                           *)

\* Vulkan is chosen only with the packet of the preflight's frame in hand,
\* a backend asked for by name is the one used or none, and the CPU stands
\* in only where it may. (select_backend, probe_backend_capabilities.)
THEOREM Honoured == Spec => []BackendHonoured
<1>1. IInv => BackendHonoured
  BY DEF IInv
<1>2. QED
  BY <1>1, Invariance, PTL

\* Every plan made is sound, and every frame pool made at run time suffices for
\* its encoder up to a depth of 61 and is short by depth - 61 above that.
\* (resolve_execution_plan, create_video.)
THEOREM PlannedResourcesFit == Spec => ResourcesFit
<1> DEFINE Fits ==
      /\ execution' # execution =>
           PlanFits(config, execution', machine.memory, machine.frames)
      /\ phase' = "convert" /\ phase # "convert" =>
           PoolFits(depth', sizes'.slots, sizes'.pool)
<1>1. ASSUME IInv, [Next]_vars PROVE Fits
  <2>0. StartTyped /\ WithinLimits
    BY <1>1 DEF IInv
  <2>1. CASE Plan
    <3>1. Limits /\ execution' = ExecutionPlan(config, machine.cores, machine.memory,
                                               machine.frames)
          /\ phase' = "create"
      BY <2>0, <2>1 DEF Plan, WithinLimits
    <3>2. PlanFits(config, execution', machine.memory, machine.frames)
      BY <2>0, <3>1, PlanIsSound DEF Limits, StartTyped
    <3>3. QED
      BY <3>1, <3>2
  <2>2. CASE CreateVulkan
    <3>1. depth' = config.async_depth /\ config.async_depth \in 1..64
      BY <2>0, <2>2 DEF CreateVulkan, Construct, WithinLimits, Limits
    <3>2. /\ sizes'.slots = SlotCount(config.async_depth)
          /\ sizes'.pool = PoolSize(config.async_depth)
          /\ execution' = execution
      BY <2>2 DEF CreateVulkan
    <3> QED
      BY <3>1, <3>2, PoolShortage
  <2>3. CASE \/ ProbeWithoutGpu \/ ProbeGpu \/ SmokePassed \/ SmokeFailed
             \/ Select \/ CreateCpu \/ CreateFails \/ Finish
    BY <2>3 DEF ProbeWithoutGpu, ProbeGpu, SmokePassed, SmokeFailed, Select,
                CreateCpu, CreateFails, Finish
  <2>4. CASE SmokeCall \/ ConvertCall \/ Encode \/ UNCHANGED vars
    BY <2>4 DEF SmokeCall, ConvertCall, Encode, startVars, vars
  <2> QED
    BY <1>1, <2>1, <2>2, <2>3, <2>4 DEF Next
<1>2. QED
  BY <1>1, Invariance, PTL DEF Spec, ResourcesFit

\* VulkanProResEncoder implements the queue IVideoEncoder promises, whatever
\* the codec answers and whatever order the calls come in.
THEOREM Refinement == Spec => QueueSpec
<1>1. Init => Queue!Init
  <2>1. ASSUME Init PROVE Inside = << >>
    <3>1. << >> \in Seq(Nat) /\ Inside = Then(Then(Then(<< >>, << >>), << >>), << >>)
      BY <2>1, EmptySeq DEF Init, InitEncoder, Empty, Inside, Then
    <3>2. QED
      BY <3>1, ThenEmpty
  <2>2. QED
    BY <2>1 DEF Init, InitEncoder, Empty, Queue!Init, Queue!NoEncoder
<1>2. IInv /\ IInv' /\ [Next]_vars => [Queue!Next]_(Queue!vars)
  <2> SUFFICES ASSUME IInv, IInv', [Next]_vars
               PROVE  Queue!Next \/ UNCHANGED Queue!vars
    OBVIOUS
  <2>0. EncoderInv /\ EncoderTyped' /\ WithinLimits
    BY DEF IInv, EncoderInv
  <2>1. CASE UNCHANGED encoderVars
    BY <2>1 DEF encoderVars, codecVars, stateVars, callVars, callerVars, Queue!vars, Inside
  <2>2. CASE SmokeCall \/ ConvertCall
    BY <2>0, <2>2, Calls, CallRefines
  <2>3. CASE Encode
    BY <2>0, <2>3, GiveRefines, ReceiveRefines DEF Encode, EncoderStep
  <2>4. CASE ProbeGpu \/ CreateVulkan
    <3>1. Renew /\ depth = 0 /\ depth' \in 1..64
      BY <2>0, <2>4 DEF ProbeGpu, CreateVulkan, Construct, WithinLimits, Limits
    <3>2. QED
      BY <2>0, <3>1, RenewRefines
  <2>5. CASE SmokePassed \/ SmokeFailed \/ Finish
    <3>1. Renew /\ depth # 0 /\ depth' = 0
      BY <2>5 DEF SmokePassed, SmokeFailed, Finish, Destroy, Idle
    <3>2. QED
      BY <2>0, <3>1, RenewRefines
  <2>6. CASE ProbeWithoutGpu \/ Select \/ Plan \/ CreateCpu \/ CreateFails \/ UNCHANGED vars
    BY <2>1, <2>6 DEF ProbeWithoutGpu, Select, Plan, CreateCpu, CreateFails, vars
  <2>7. QED
    BY <2>2, <2>3, <2>4, <2>5, <2>6 DEF Next
<1>3. QED
  BY <1>1, <1>2, Invariance, PTL DEF Spec, QueueSpec, Queue!Spec

=============================================================================
