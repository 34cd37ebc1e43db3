---------------------------- MODULE DecoderPool ----------------------------
(***************************************************************************)
(* The decoders of McrawReader: each keeps a file handle and scratch       *)
(* buffers, so a frame that is loaded leases one and gives it back.  A     *)
(* lease takes an idle decoder under decoder_pool_mutex, or else opens a   *)
(* new one after the mutex is released.                                    *)
(*                                                                         *)
(* Definitions marked Faulty are not part of the specification: each is    *)
(* the definition after it with one plausible mistake.                     *)
(***************************************************************************)
EXTENDS Integers, Sequences

CONSTANTS
  Users            \* the threads that load frames

VARIABLES
  opened,          \* decoders opened so far; the first is the reader's own
  idle_decoders,   \* decoders nobody leases, the last one taken first
  lease,           \* where each thread is with its frame
  decoder          \* the decoder each thread leases, 0 for none

decoderVars == <<opened, idle_decoders, lease, decoder>>

DecoderInit ==
  /\ opened = 1
  /\ idle_decoders = <<1>>
  /\ lease = [u \in Users |-> "none"]
  /\ decoder = [u \in Users |-> 0]

\* Faulty: the decoder taken stays in the pool.
TakeIdleShared(u) ==
  /\ idle_decoders # << >>
  /\ decoder' = [decoder EXCEPT ![u] = idle_decoders[Len(idle_decoders)]]
  /\ lease' = [lease EXCEPT ![u] = "leased"]
  /\ UNCHANGED idle_decoders

TakeIdle(u) ==
  /\ idle_decoders # << >>
  /\ decoder' = [decoder EXCEPT ![u] = idle_decoders[Len(idle_decoders)]]
  /\ idle_decoders' = SubSeq(idle_decoders, 1, Len(idle_decoders) - 1)
  /\ lease' = [lease EXCEPT ![u] = "leased"]

\* The constructor of DecoderLease, under the mutex ...
Lease(u) ==
  /\ lease[u] = "none"
  /\ \/ TakeIdle(u)
     \/ /\ idle_decoders = << >>
        /\ lease' = [lease EXCEPT ![u] = "open"]
        /\ UNCHANGED <<idle_decoders, decoder>>
  /\ UNCHANGED opened

\* ... and after it: a constructor that throws leases nothing.
OpenDecoder(u) ==
  /\ lease[u] = "open"
  /\ \/ /\ opened' = opened + 1
        /\ decoder' = [decoder EXCEPT ![u] = opened + 1]
        /\ lease' = [lease EXCEPT ![u] = "leased"]
     \/ /\ lease' = [lease EXCEPT ![u] = "failed"]
        /\ UNCHANGED <<opened, decoder>>
  /\ UNCHANGED idle_decoders

\* loadFrame returns or throws; the destructor gives the decoder back.
ReturnDecoder(u) ==
  /\ lease[u] = "leased"
  /\ idle_decoders' = Append(idle_decoders, decoder[u])
  /\ decoder' = [decoder EXCEPT ![u] = 0]
  /\ \E outcome \in {"loaded", "failed"} : lease' = [lease EXCEPT ![u] = outcome]
  /\ UNCHANGED opened

\* The frame has been used; the thread may load another.
EndLoad(u) ==
  /\ lease[u] \in {"loaded", "failed"}
  /\ lease' = [lease EXCEPT ![u] = "none"]
  /\ UNCHANGED <<opened, idle_decoders, decoder>>

=============================================================================
