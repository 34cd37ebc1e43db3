------------------------ MODULE OutputPublish_proofs ------------------------
(***************************************************************************)
(* Proofs about the publication of a file, for any number of runs of the   *)
(* command on one output.                                                  *)
(***************************************************************************)
EXTENDS OutputPublish, TLAPS

USE MaxRunsAssumption DEF optionVars

-----------------------------------------------------------------------------
(* Files.                                                                  *)

\* A file that exists is told from one that does not.
LEMMA FilesExist ==
  /\ \A m \in Movie : m # Absent
  /\ \A s \in Sidecar : s # Absent
<1>1. ASSUME NEW m \in Movie PROVE m # Absent
  <2>1. DOMAIN m = {"by", "sealed", "defects"}
    BY DEF Movie
  <2>2. DOMAIN Absent = {"absent"}
    BY DEF Absent
  <2>3. QED
    BY <2>1, <2>2
<1>2. ASSUME NEW s \in Sidecar PROVE s # Absent
  <2>1. DOMAIN s = {"by", "sealed"}
    BY DEF Sidecar
  <2>2. DOMAIN Absent = {"absent"}
    BY DEF Absent
  <2>3. QED
    BY <2>1, <2>2
<1>3. QED
  BY <1>1, <1>2

\* The file the writer creates.
LEMMA Blanks ==
  ASSUME NEW r \in Runs
  PROVE  Blank(r) \in Movie /\ Blank(r).by = r
BY DEF Blank, Movie

\* A sidecar being written, and when it is written.
LEMMA Sidecars ==
  ASSUME NEW r \in Runs
  PROVE  /\ [by |-> r, sealed |-> FALSE] \in Sidecar
         /\ \A s \in Sidecar, sealed \in BOOLEAN :
              LET n == [s EXCEPT !.sealed = sealed] IN
                n \in Sidecar /\ n.by = s.by /\ n.sealed = sealed
BY DEF Sidecar

\* What another program leaves at the output.
LEMMA ForeignMovie ==
  LET m == [by |-> Foreign, sealed |-> TRUE, defects |-> {}] IN
    m \in Movie /\ m # Absent /\ m.by = Foreign /\ m.sealed /\ m.defects = {}
<1> DEFINE m == [by |-> Foreign, sealed |-> TRUE, defects |-> {}]
<1>1. m \in Movie /\ m.by = Foreign /\ m.sealed /\ m.defects = {}
  BY DEF Movie
<1>2. QED
  BY <1>1, FilesExist

-----------------------------------------------------------------------------
(* The inductive invariant.                                                *)

\* It holds before the first run.
LEMMA InitInv == Init => IInv
<1> SUFFICES ASSUME Init PROVE IInv
  OBVIOUS
<1>1. output = Absent \/ (output \in Movie /\ output.sealed /\ output.defects = {})
  BY ForeignMovie DEF Init
<1>2. TypeOK /\ Started
  <2>1. 0 \in 0..MaxRuns /\ output \in Movie \union {Absent}
        /\ sidecar \in Sidecar \union {Absent}
    BY <1>1 DEF Init
  <2>2. "none" \in Places /\ "none" \notin {"convert", "validate", "remove", "rename"}
    BY DEF Places
  <2>3. overwrite \in BOOLEAN /\ verify_output \in BOOLEAN
    BY DEF Init
  <2>4. process = "none" /\ run = 0 /\ partial = Absent
    BY DEF Init
  <2>5. QED
    BY <2>1, <2>2, <2>3, <2>4 DEF TypeOK, Started
<1>3. PublishedIsValidated
  <2>1. {} \intersect {"metadata", "writer_count"} = {}
    OBVIOUS
  <2>2. QED
    BY <1>1, <2>1 DEF PublishedIsValidated
<1>4. PartialValidated /\ OutputInPlace /\ SidecarAge
  BY DEF Init, PartialValidated, OutputInPlace, SidecarAge
<1>5. QED
  BY <1>2, <1>3, <1>4 DEF IInv

\* Where a step that changes no file may lead.
LEMMA FilesStay ==
  ASSUME IInv, UNCHANGED <<optionVars, partial, output, sidecar>>,
         process # "none", process' \in {"none", "failed"}
  PROVE  IInv'
<1>1. /\ run' = run /\ overwrite' = overwrite /\ verify_output' = verify_output
      /\ partial' = partial /\ output' = output /\ sidecar' = sidecar
  OBVIOUS
<1>2. TypeOK' /\ Started'
  BY <1>1 DEF IInv, TypeOK, Started, Places
<1>3. PublishedIsValidated'
  BY <1>1 DEF IInv, PublishedIsValidated
<1>4. PartialValidated' /\ OutputInPlace' /\ SidecarAge'
  BY <1>1 DEF IInv, PartialValidated, OutputInPlace, SidecarAge
<1>5. QED
  BY <1>2, <1>3, <1>4 DEF IInv

\* The command is started.
LEMMA StartInv == ASSUME IInv, Start PROVE IInv'
<1>1. /\ run \in 0..MaxRuns /\ run' = run + 1 /\ run < MaxRuns
      /\ run' \in 0..MaxRuns /\ run \in Int
      /\ sidecar # Absent => sidecar.by \in 0..MaxRuns
  BY DEF IInv, TypeOK, Start, Sidecar, Runs, Foreign
<1>2. QED
  BY <1>1 DEF Start, IInv, TypeOK, Started, Places, PublishedIsValidated, PartialValidated,
     OutputInPlace, SidecarAge

\* Up to the validation only the partial file changes.
LEMMA PartialInv ==
  ASSUME IInv,
         CheckOutput \/ PrepareFails \/ RemovePartial \/ Open \/ OpenFails
           \/ Convert \/ ConvertFails
  PROVE  IInv'
<1>0. TypeOK /\ UNCHANGED <<optionVars, output, sidecar>>
  BY DEF IInv, CheckOutput, PrepareFails, RemovePartial, Open, OpenFails, Convert,
     ConvertFails, Fails
<1>1. sidecar' # Absent =>
        /\ sidecar'.by <= run' /\ sidecar'.by < run'
        /\ output' # Absent /\ output'.by # Foreign => sidecar'.by <= output'.by
  BY <1>0 DEF IInv, SidecarAge, CheckOutput, PrepareFails, RemovePartial, Open,
     OpenFails, Convert, ConvertFails
<1>2. PublishedIsValidated'
  BY <1>0 DEF IInv, PublishedIsValidated
<1>3. process \in {"check", "prepare", "open", "convert"}
      /\ process' \in {"failed", "prepare", "open", "convert", "validate"}
  BY DEF CheckOutput, PrepareFails, RemovePartial, Open, OpenFails, Convert,
     ConvertFails, Fails
<1>4. OutputInPlace' /\ SidecarAge'
  BY <1>1, <1>3 DEF OutputInPlace, SidecarAge
<1>5. /\ partial' \in Movie \union {Absent}
      /\ process' \in {"convert", "validate"} => partial' # Absent /\ partial'.by = run'
      /\ process' = "validate" => partial'.sealed
  <2>1. CASE CheckOutput \/ PrepareFails \/ RemovePartial
    BY <1>0, <2>1 DEF TypeOK, CheckOutput, PrepareFails, RemovePartial, Fails
  <2>2. CASE Open \/ OpenFails
    <3>1. run \in Runs
      BY <1>0, <2>2 DEF IInv, Started, TypeOK, Runs, Open, OpenFails
    <3>2. QED
      BY <1>0, <2>2, <3>1, Blanks, FilesExist DEF TypeOK, Open, OpenFails, Fails
  <2>3. CASE Convert \/ ConvertFails
    <3>1. partial \in Movie /\ partial.by = run
      BY <1>0, <2>3 DEF TypeOK, Convert, ConvertFails
    <3>2. PICK sealed \in BOOLEAN, defects \in SUBSET Defects :
            /\ partial' = [partial EXCEPT !.sealed = sealed, !.defects = defects]
            /\ process' = "failed" \/ (process' = "validate" /\ sealed)
      BY <2>3 DEF Convert, ConvertFails, Fails
    <3>3. /\ partial' \in Movie /\ partial'.by = partial.by
          /\ partial'.sealed = sealed
      <4>1. partial' = [partial EXCEPT !.sealed = sealed, !.defects = defects]
        BY <3>2
      <4> QED
        BY <3>1, <4>1 DEF Movie
    <3>4. QED
      BY <1>0, <3>1, <3>2, <3>3, FilesExist
  <2>4. QED
    BY <2>1, <2>2, <2>3
<1>6. TypeOK' /\ Started' /\ PartialValidated'
  BY <1>0, <1>3, <1>5 DEF IInv, Started, TypeOK, Places, PartialValidated
<1>7. QED
  BY <1>2, <1>4, <1>6 DEF IInv

\* The file is validated, and put in place of the output.
LEMMA PublishInv ==
  ASSUME IInv, Validate \/ RemoveOutput \/ Rename
  PROVE  IInv'
<1>0. /\ TypeOK /\ UNCHANGED <<optionVars, sidecar>>
      /\ partial \in Movie /\ partial # Absent /\ partial.by = run /\ partial.sealed
  BY DEF IInv, TypeOK, PartialValidated, Validate, RemoveOutput, Rename
<1>1. sidecar # Absent => sidecar.by < run
  BY DEF IInv, SidecarAge, Validate, RemoveOutput, Rename
<1>2. CASE Validate
  <2>1. UNCHANGED <<partial, output>>
    BY <1>2 DEF Validate
  <2>2. process' = "remove" => partial.defects \intersect {"metadata", "writer_count"} = {}
                               /\ (verify_output => partial.defects = {})
    <3>1. partial.defects \subseteq Defects
      BY <1>0 DEF Movie
    <3>2. process' = "remove" => Found = {}
      BY <1>2 DEF Validate
    <3>3. CASE verify_output
      <4>1. Found = partial.defects
        BY <3>1, <3>3 DEF Found
      <4>2. QED
        BY <3>2, <4>1
    <3>4. CASE ~verify_output
      BY <3>2, <3>4 DEF Found
    <3>5. QED
      BY <3>3, <3>4
  <2>3. process' \in {"failed", "remove"} /\ process = "validate"
    BY <1>2 DEF Validate, AfterValidation
  <2>4. TypeOK' /\ Started' /\ PartialValidated'
    BY <1>0, <2>1, <2>2, <2>3 DEF IInv, Started, TypeOK, Places, PartialValidated
  <2>5. PublishedIsValidated' /\ OutputInPlace' /\ SidecarAge'
    BY <1>0, <2>1, <2>3 DEF IInv, PublishedIsValidated, OutputInPlace, SidecarAge
  <2>6. QED
    BY <2>4, <2>5 DEF IInv
<1>3. CASE RemoveOutput
  <2>1. /\ process = "remove" /\ process' = "rename" /\ partial' = partial
        /\ output' = Absent
    BY <1>3 DEF RemoveOutput
  <2>2. TypeOK' /\ Started' /\ PartialValidated'
    BY <1>0, <2>1 DEF IInv, Started, TypeOK, Places, PartialValidated
  <2>3. PublishedIsValidated' /\ OutputInPlace' /\ SidecarAge'
    BY <1>0, <1>1, <2>1 DEF PublishedIsValidated, OutputInPlace, IInv, SidecarAge
  <2>4. QED
    BY <2>2, <2>3 DEF IInv
<1>4. CASE Rename
  <2>1. /\ process = "rename" /\ process' = "sidecar" /\ partial' = Absent
        /\ output' = partial
    BY <1>4 DEF Rename
  <2>2. /\ partial.defects \intersect {"metadata", "writer_count"} = {}
        /\ verify_output => partial.defects = {}
    BY <2>1 DEF IInv, PartialValidated
  <2>3. TypeOK' /\ Started' /\ PartialValidated'
    BY <1>0, <2>1 DEF IInv, Started, TypeOK, Places, PartialValidated
  <2>4. PublishedIsValidated' /\ OutputInPlace'
    BY <1>0, <2>1, <2>2 DEF PublishedIsValidated, OutputInPlace
  <2>5. SidecarAge'
    <3>1. sidecar # Absent => sidecar.by \in Nat /\ run \in Nat
      BY <1>0 DEF TypeOK, Sidecar, Runs, Foreign
    <3>2. QED
      BY <1>0, <1>1, <2>1, <3>1 DEF IInv, SidecarAge
  <2>6. QED
    BY <2>3, <2>4, <2>5 DEF IInv
<1>5. QED
  BY <1>2, <1>3, <1>4

\* The sidecar is written next to it.
LEMMA SidecarInv ==
  ASSUME IInv, OpenSidecar \/ WriteSidecar
  PROVE  IInv'
<1>0. /\ TypeOK /\ UNCHANGED <<optionVars, partial, output>>
      /\ process \in {"sidecar", "write_sidecar"}
      /\ process' \in {"write_sidecar", "succeeded"}
      /\ run \in Runs /\ run \in Nat
  BY DEF IInv, TypeOK, Started, Runs, OpenSidecar, WriteSidecar
<1>1. sidecar' \in Sidecar /\ sidecar'.by = run
  <2>1. CASE OpenSidecar
    BY <1>0, <2>1, Sidecars DEF OpenSidecar, Sidecar
  <2>2. CASE WriteSidecar
    <3>1. sidecar \in Sidecar /\ sidecar.by = run
      BY <1>0, <2>2 DEF WriteSidecar, IInv, TypeOK, SidecarAge
    <3>2. QED
      BY <1>0, <2>2, <3>1, Sidecars DEF WriteSidecar
  <2>3. QED
    BY <2>1, <2>2
<1>2. sidecar' # Absent
  BY <1>1, FilesExist
<1>3. output # Absent /\ output.by = run
  BY <1>0 DEF IInv, OutputInPlace
<1>4. SidecarAge'
  BY <1>0, <1>1, <1>2, <1>3 DEF SidecarAge
<1>5. TypeOK' /\ Started'
  BY <1>0, <1>1 DEF IInv, TypeOK, Started, Places
<1>6. PublishedIsValidated' /\ PartialValidated' /\ OutputInPlace'
  BY <1>0 DEF IInv, PublishedIsValidated, PartialValidated, OutputInPlace
<1>7. QED
  BY <1>4, <1>5, <1>6 DEF IInv

\* Another program's file is whole, and older than every sidecar's MOV.
LEMMA OthersInv == ASSUME IInv, OthersCreateOutput PROVE IInv'
<1>1. /\ output' \in Movie /\ output' # Absent /\ output'.by = Foreign
      /\ output'.sealed /\ output'.defects = {}
      /\ UNCHANGED <<process, optionVars, partial, sidecar>> /\ output = Absent
      /\ process # "succeeded"
  BY ForeignMovie DEF OthersCreateOutput
<1>2. process \notin {"sidecar", "write_sidecar", "succeeded"}
  BY <1>1 DEF IInv, OutputInPlace
<1>3. TypeOK' /\ Started' /\ PartialValidated'
  BY <1>1 DEF IInv, TypeOK, Started, PartialValidated
<1>4. PublishedIsValidated' /\ OutputInPlace' /\ SidecarAge'
  BY <1>1, <1>2 DEF IInv, PublishedIsValidated, OutputInPlace, SidecarAge
<1>5. QED
  BY <1>3, <1>4 DEF IInv

\* Every step keeps the invariant.
LEMMA NextInv == IInv /\ [Next]_vars => IInv'
<1> SUFFICES ASSUME IInv, [Next]_vars PROVE IInv'
  OBVIOUS
<1>1. CASE PublishFails \/ SidecarFails \/ Crash
  BY <1>1, FilesStay DEF PublishFails, SidecarFails, Crash, Fails
<1>2. CASE UNCHANGED vars
  BY <1>2 DEF vars, IInv, TypeOK, Started, PublishedIsValidated, PartialValidated,
     OutputInPlace, SidecarAge
<1>3. QED
  BY <1>1, <1>2, StartInv, PartialInv, PublishInv, SidecarInv, OthersInv
  DEF Next, Steps, Terminated

\* Hence it always holds.
THEOREM Invariance == Spec => []IInv
BY InitInv, NextInv, PTL DEF Spec

-----------------------------------------------------------------------------
(* The theorems.                                                           *)

\* Every variable keeps its type, and the process its own partial file.
THEOREM TypeCorrect == Spec => []TypeOK
<1>1. IInv => TypeOK
  BY DEF IInv
<1>2. QED
  BY <1>1, Invariance, PTL

\* However often the command is killed and started again, a file at the
\* output has its trailer and passed the validation.
THEOREM Published == Spec => []PublishedIsValidated
<1>1. IInv => PublishedIsValidated
  BY DEF IInv
<1>2. QED
  BY <1>1, Invariance, PTL

\* A command that succeeded leaves its own MOV and its own sidecar.
THEOREM Whole == Spec => []SuccessIsWhole
<1>1. IInv => SuccessIsWhole
  BY DEF IInv, OutputInPlace, SidecarAge, SuccessIsWhole
<1>2. QED
  BY <1>1, Invariance, PTL

\* No sidecar describes a MOV that is yet to be published.
THEOREM NotAhead == Spec => []SidecarIsNotAhead
<1>1. IInv => SidecarIsNotAhead
  BY DEF IInv, SidecarAge, SidecarIsNotAhead
<1>2. QED
  BY <1>1, Invariance, PTL

=============================================================================
