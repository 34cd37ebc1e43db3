------------------------------ MODULE GpuQueue ------------------------------
(***************************************************************************)
(* External: one Vulkan compute queue, its fences, timestamp queries and   *)
(* the memory of the buffers, as far as the code in src/vulkan relies on   *)
(* them.                                                                   *)
(*                                                                         *)
(* The commands of the submissions execute in any order the barriers allow *)
(* (a barrier orders what is before it in submission order, of the stages  *)
(* in src, before what is after it, of the stages in dst, also across      *)
(* submissions).  A write is visible to nothing until a barrier, or the    *)
(* end of its submission, makes it so; a command that reads what it cannot *)
(* see, or what the recording does not mean it to read, computes garbage.  *)
(* The end of a submission makes its writes visible to the device, not to  *)
(* the host.                                                               *)
(***************************************************************************)
EXTENDS GpuCommands

CONSTANTS
  NumSlots       \* slots of the class that owns the buffers

ASSUME NumSlotsAssumption == NumSlots \in Nat \ {0}

VARIABLES
  pending,   \* submissions not finished: [slot, op, frame, done]
  mem,       \* per location: tag (what was written), kind (how), vis (to whom)
  fence,     \* the slot's fence is signaled
  available, \* the timestamp pairs of the slot that have a result
  lost       \* VK_ERROR_DEVICE_LOST: nothing executes any more

queueVars == <<pending, mem, fence, available, lost>>

Slots == 0..(NumSlots - 1)
Shared == {"lut", "staging"}
Buffers == {"input", "rgb0", "rgb1", "status", "raw", "calibrated", "image",
            "readback"} \cup CameraRgb \cup RcdScratch

\* The location of a buffer an operation on slot s names.
Home(s, b) == <<IF b \in Shared THEN NumSlots ELSE s, b>>
Locations == (Slots \X Buffers) \cup ({NumSlots} \X Shared)

\* A tag names the frame and the command of its stream that wrote it; the
\* host is command 0.
Garbage == <<-1, -1>>
LutTag == <<0, 1>>

QueueInit(signaled) ==
  /\ pending = << >>
  /\ mem = [l \in Locations |->
              [tag |-> Garbage, kind |-> "none", vis |-> DeviceKinds]]
  /\ fence = [s \in Slots |-> signaled]
  /\ available = [s \in Slots |-> {}]
  /\ lost = FALSE

Busy(s) == \E i \in 1..Len(pending) : pending[i].slot = s

-----------------------------------------------------------------------------
(* Execution.  ops are the operations of the class, by name.               *)

Stream(ops, i) == ops[pending[i].op].stream
Undone(ops, i) == (1..Len(Stream(ops, i))) \ pending[i].done

\* No command before command k of submission i, in it or in an earlier one,
\* that is still to execute is ordered before it.
MayExecute(ops, i, k) ==
  LET cmd == Stream(ops, i)[k]
  IN  \A a \in 1..i : \A j \in Undone(ops, a) :
        a < i \/ j < k => ~Ordered(Stream(ops, a)[j], cmd)

ReadKind(stage) == IF stage = "compute" THEN "R" ELSE "TR"
WriteKind(stage) == IF stage = "compute" THEN "W" ELSE "TW"

\* The buffers hold what command k of submission sub is to find there.
Holds(ops, sub, k, bufs) ==
  \A f \in ops[sub.op].finds[k] :
    f[1] \in bufs =>
      mem[Home(sub.slot, f[1])].tag =
        IF f = <<"lut", 0>> THEN LutTag ELSE <<sub.frame, f[2]>>

\* Command k of submission sub finds all it needs, and may write.
Sound(ops, sub, k) ==
  LET cmd == ops[sub.op].stream[k]
      sees(b, kind) == kind \in mem[Home(sub.slot, b)].vis
  IN  /\ \A b \in cmd.reads : sees(b, ReadKind(cmd.stage))
      /\ \A b \in cmd.writes : sees(b, WriteKind(cmd.stage))
      /\ Holds(ops, sub, k, cmd.reads)

\* The memory after command k of submission sub.
Written(ops, sub, k) ==
  LET cmd == ops[sub.op].stream[k]
      tag == IF Sound(ops, sub, k) THEN <<sub.frame, k>> ELSE Garbage
  IN  [l \in Locations |->
         IF \E b \in cmd.writes : l = Home(sub.slot, b)
         THEN [tag |-> tag, kind |-> WriteKind(cmd.stage), vis |-> {}]
         ELSE mem[l]]

\* A barrier makes a write visible, or passes on what has been made visible.
MadeVisible(sub, cmd) ==
  LET to(l) == UNION {x[3] : x \in {y \in cmd.scope :
                                      /\ l = Home(sub.slot, y[1])
                                      /\ mem[l].vis # {} \/ mem[l].kind \in y[2]}}
  IN  [l \in Locations |-> [mem[l] EXCEPT !.vis = @ \cup to(l)]]

Execute(ops) ==
  /\ ~lost
  /\ \E i \in 1..Len(pending) : \E k \in Undone(ops, i) :
       LET sub == pending[i]
           cmd == Stream(ops, i)[k]
       IN  /\ MayExecute(ops, i, k)
           /\ mem' = IF cmd.stage = "barrier" THEN MadeVisible(sub, cmd)
                                               ELSE Written(ops, sub, k)
           /\ pending' = [pending EXCEPT ![i].done = @ \cup {k}]
  /\ UNCHANGED <<fence, available, lost>>

\* The oldest submission has executed.  coherent: the host sees what the
\* device wrote to host-visible memory without a barrier that says so.
Complete(ops, coherent) ==
  LET sub == Head(pending)
  IN  /\ ~lost
      /\ pending # << >>
      /\ sub.done = 1..Len(ops[sub.op].stream)
      /\ pending' = Tail(pending)
      /\ fence' = [fence EXCEPT ![sub.slot] = TRUE]
      /\ available' = [available EXCEPT ![sub.slot] = @ \cup ops[sub.op].stamps]
      /\ mem' = [l \in Locations |->
                   IF l[1] = sub.slot
                   THEN [mem[l] EXCEPT !.vis = @ \cup DeviceKinds
                                         \cup (IF coherent THEN {"HR"} ELSE {})]
                   ELSE mem[l]]
      /\ UNCHANGED lost

DeviceLost ==
  /\ ~lost
  /\ lost' = TRUE
  /\ UNCHANGED <<pending, mem, fence, available>>

-----------------------------------------------------------------------------
(* What the host does to the queue; the caller's actions conjoin these.    *)

\* An image is not written by the host, it comes from the encoder's pool.
HostWrite(s, frame, bufs) ==
  mem' = [l \in Locations |->
            IF \E b \in bufs : l = Home(s, b)
            THEN [tag |-> <<frame, 0>>, vis |-> {},
                  kind |-> IF l[2] = "image" THEN "encoder" ELSE "host"]
            ELSE mem[l]]

\* A submission sees what the host wrote before it.
Enqueue(ops, s, op, frame) ==
  /\ pending' = Append(pending, [slot |-> s, op |-> op, frame |-> frame,
                                 done |-> {}])
  /\ mem' = [l \in Locations |->
               IF mem[l].kind = "host" THEN [mem[l] EXCEPT !.vis = DeviceKinds]
                                       ELSE mem[l]]
  /\ available' = [available EXCEPT ![s] = @ \ ops[op].resets]

\* The host finds in the buffers what operation op was to leave there.
HostReads(ops, s, op, frame, bufs) ==
  LET sub == [slot |-> s, op |-> op, frame |-> frame]
  IN  /\ \A b \in bufs : "HR" \in mem[Home(s, b)].vis
      /\ Holds(ops, sub, Len(ops[op].stream) + 1, bufs)

\* What the oldest submission leaves in buffer b is what it was to leave.
Computed(ops, b) ==
  LET sub == Head(pending)
  IN  Holds(ops, sub, Len(ops[sub.op].stream) + 1, {b})

-----------------------------------------------------------------------------
(* What a recording must be for the queue to execute it as it is meant to, *)
(* in whatever order: a condition on pairs of its commands.                *)

\* Command j is the last one before command k that writes b; 0 is the host.
IsLast(o, j, k, b) ==
  /\ j > 0 => b \in o.stream[j].writes
  /\ \A i \in (j + 1)..(k - 1) : b \notin o.stream[i].writes

\* Command m keeps commands j and k, or the ends of the recording, in order.
Between(o, j, k, m) ==
  /\ m \in (j + 1)..(k - 1)
  /\ j > 0 => Ordered(o.stream[j], o.stream[m])
  /\ k <= Len(o.stream) => Ordered(o.stream[m], o.stream[k])

\* How b has been written if j is its last writer; an image that none has
\* written comes from the encoder.
KindOf(o, j) == IF j = 0 THEN "encoder" ELSE WriteKind(o.stream[j].stage)

\* What command j wrote to b, or the encoder, is visible to accesses of this
\* kind by command k.
VisibleAt(o, j, k, b, kind) ==
  \E m \in 1..Len(o.stream) :
    /\ Between(o, j, k, m)
    /\ \E x \in o.stream[m].scope : x[1] = b /\ KindOf(o, j) \in x[2] /\ kind \in x[3]

WellFormed(o) ==
  /\ Len(o.stream) \in Nat
  /\ \A k \in 1..Len(o.stream) :
       LET cmd == o.stream[k]
       IN  /\ cmd.stage \in {"compute", "transfer", "barrier"}
           /\ IF cmd.stage = "barrier" THEN cmd.reads = {} /\ cmd.writes = {}
                                        ELSE cmd.scope = {}

\* Two commands of which one writes what the other touches are kept in order.
Separated(o) ==
  \A k \in 1..Len(o.stream) : \A j \in 1..(k - 1) :
    LET first == o.stream[j]
        second == o.stream[k]
    IN  \/ first.writes \cap (second.reads \cup second.writes) # {}
        \/ first.reads \cap second.writes # {}
        => \E m \in 1..Len(o.stream) : Between(o, j, k, m)

\* What a command touches has been made visible to it.  What the host writes
\* is, and what is not written by this recording.
AccessVisible(o) ==
  \A k \in 1..Len(o.stream) :
    LET cmd == o.stream[k]
    IN  \A b \in cmd.reads \cup cmd.writes : \E j \in 0..(k - 1) :
          /\ IsLast(o, j, k, b)
          /\ b \in cmd.reads =>
               IF j = 0 THEN b \in o.uploads \cup {"lut"}
                        ELSE VisibleAt(o, j, k, b, ReadKind(cmd.stage))
          /\ b \in cmd.writes =>
               \/ j = 0 /\ b # "image"
               \/ VisibleAt(o, j, k, b, WriteKind(cmd.stage))

\* finds names the last writers.
FindsLast(o) ==
  \A k \in 1..(Len(o.stream) + 1) :
    /\ o.finds[k] \subseteq (Buffers \cup Shared) \X (0..(k - 1))
    /\ \A f \in o.finds[k] : IsLast(o, f[2], k, f[1])

\* The results are written by the recording and visible to the host, with a
\* barrier that says so or without.
ResultsVisible(o, coherent) ==
  LET after == Len(o.stream) + 1
  IN  /\ \A b \in o.results : \E f \in o.finds[after] : f[1] = b
      /\ \A f \in o.finds[after] :
           /\ f[1] \in o.results /\ f[2] > 0
           /\ f[1] \in {"image", "lut"} \/ coherent
                \/ VisibleAt(o, f[2], after, f[1], "HR")

\* The buffers the slots share are written for the constructor only.
SharesRight(o, name, names) ==
  IF name = "lut"
  THEN /\ o.uploads = {"staging"} /\ o.results = {"lut"}
       /\ o.finds[Len(o.stream) + 1] = {<<"lut", 1>>}
       /\ VisibleAt(o, 1, Len(o.stream) + 1, "lut", "R")
       /\ \A k \in 1..Len(o.stream) :
            /\ o.stream[k].reads \subseteq {"staging"}
            /\ o.stream[k].writes \subseteq {"lut"}
            /\ \A x \in o.stream[k].scope : x[1] = "lut"
  ELSE /\ o.uploads \cup o.results \subseteq Buffers /\ "image" \notin o.uploads
       /\ \A k \in 1..Len(o.stream) :
            /\ o.stream[k].reads \subseteq Buffers \cup {"lut"}
            /\ "lut" \in o.stream[k].reads =>
                 o.stream[k].stage = "compute" /\ "lut" \in names
            /\ o.stream[k].writes \subseteq Buffers
            /\ \A x \in o.stream[k].scope :
                 x[1] \in Buffers /\ (x[1] = "image" => "image" \in o.results)

\* names are the operations of the class.
Synchronized(o, name, names, coherent) ==
  /\ WellFormed(o)
  /\ Separated(o)
  /\ AccessVisible(o)
  /\ FindsLast(o)
  /\ ResultsVisible(o, coherent)
  /\ SharesRight(o, name, names)
=============================================================================
