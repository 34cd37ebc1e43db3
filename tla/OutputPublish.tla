--------------------------- MODULE OutputPublish ---------------------------
(***************************************************************************)
(* How command_convert publishes a file: it writes <output>.partial.mov,   *)
(* validates it, puts it in the place of the output and writes the sidecar *)
(* <output>.json next to it.  The process may be killed between any two    *)
(* steps; the files stay as they are and somebody starts it again.         *)
(*                                                                         *)
(* One process works on an output at a time.  Other programs may create    *)
(* the output in the meantime.                                             *)
(*                                                                         *)
(* Definitions marked Faulty are not part of the specification: each is    *)
(* the definition after it with one plausible mistake.                     *)
(***************************************************************************)
EXTENDS Integers

CONSTANTS MaxRuns   \* bound: how often the command is started

ASSUME MaxRunsAssumption == MaxRuns \in Nat \ {0}

Runs == 1..MaxRuns
Foreign == 0        \* a file of another program

\* What may be wrong with a MOV: its metadata, frames the writer knows it
\* did not write, or something only reading the whole file shows.
Defects == {"metadata", "writer_count", "content"}

\* A MOV: the run that wrote it, whether its trailer is written, defects.
Movie == [by : Runs \union {Foreign}, sealed : BOOLEAN, defects : SUBSET Defects]
Sidecar == [by : Runs \union {Foreign}, sealed : BOOLEAN]
Absent == [absent |-> TRUE]

Blank(r) == [by |-> r, sealed |-> FALSE, defects |-> {}]

VARIABLES
  process,       \* where the process is, "none" when there is none
  run,           \* how often the command was started
  overwrite,     \* --overwrite
  verify_output, \* --verify-output
  partial,       \* the files
  output,
  sidecar

optionVars == <<run, overwrite, verify_output>>
vars == <<process, optionVars, partial, output, sidecar>>

Init ==
  /\ process = "none"
  /\ run = 0
  /\ overwrite = FALSE
  /\ verify_output = FALSE
  /\ partial = Absent
  /\ output \in {Absent, [by |-> Foreign, sealed |-> TRUE, defects |-> {}]}
  /\ sidecar = Absent

-----------------------------------------------------------------------------

Start ==
  /\ process \in {"none", "failed", "succeeded"}
  /\ run < MaxRuns
  /\ run' = run + 1
  /\ overwrite' \in BOOLEAN
  /\ verify_output' \in BOOLEAN
  /\ process' = "check"
  /\ UNCHANGED <<partial, output, sidecar>>

\* An exception anywhere in command_convert: main() prints it and returns 1.
Fails ==
  /\ process' = "failed"
  /\ UNCHANGED <<optionVars, output, sidecar>>

CheckOutput ==
  /\ process = "check"
  /\ \/ /\ output # Absent /\ ~overwrite
        /\ process' = "failed"
     \/ /\ output = Absent \/ overwrite
        /\ process' = "prepare"
  /\ UNCHANGED <<optionVars, partial, output, sidecar>>

\* Reader, configuration, backend, execution plan and audio.
PrepareFails ==
  /\ process = "prepare"
  /\ Fails
  /\ UNCHANGED partial

\* filesystem::remove of the partial file; an error is ignored.
RemovePartial ==
  /\ process = "prepare"
  /\ \/ partial' = Absent
     \/ UNCHANGED partial
  /\ process' = "open"
  /\ UNCHANGED <<optionVars, output, sidecar>>

\* The writer creates the file, or truncates the one that is there.
Open ==
  /\ process = "open"
  /\ partial' = Blank(run)
  /\ process' = "convert"
  /\ UNCHANGED <<optionVars, output, sidecar>>

\* The writer cannot be created: before or after it opened the file.
OpenFails ==
  /\ process = "open"
  /\ \/ UNCHANGED partial
     \/ partial' = Blank(run)
  /\ Fails

\* finish() returned: the trailer is in the file, the file is closed.
Convert ==
  /\ process = "convert"
  /\ \E defects \in SUBSET Defects :
       partial' = [partial EXCEPT !.sealed = TRUE, !.defects = defects]
  /\ process' = "validate"
  /\ UNCHANGED <<optionVars, output, sidecar>>

\* An exception: the destructor writes a trailer after the frames that are
\* in the file; the process does not remove the file.
ConvertFails ==
  /\ process = "convert"
  /\ \E sealed \in BOOLEAN :
       partial' = [partial EXCEPT !.sealed = sealed, !.defects = Defects]
  /\ Fails

\* Faulty: the metadata are looked at only with --verify-output.
FoundLazily == partial.defects \intersect
                 (IF verify_output THEN Defects ELSE {"writer_count"})

\* Faulty: the file is never read, --verify-output or not.
FoundUnread == partial.defects \intersect {"metadata", "writer_count"}

\* What the validation finds wrong: validate_prores_mov_metadata, and then
\* validate_prores_mov or the comparison of the writer's packet count.  A
\* frame the writer did not write is not in the file either.
Found == partial.defects \intersect
           (IF verify_output THEN Defects ELSE {"metadata", "writer_count"})

\* Faulty: the sidecar of an existing output is brought up to date first.
AfterValidationSidecar == IF output = Absent THEN "remove" ELSE "sidecar"

AfterValidation == "remove"

Validate ==
  /\ process = "validate"
  /\ \/ /\ Found # {}
        /\ process' = "failed"
     \/ /\ Found = {}
        /\ process' = AfterValidation
  /\ UNCHANGED <<optionVars, partial, output, sidecar>>

\* Whatever is at the output now is removed, then the file is renamed.
RemoveOutput ==
  /\ process = "remove"
  /\ output' = Absent
  /\ process' = "rename"
  /\ UNCHANGED <<optionVars, partial, sidecar>>

Rename ==
  /\ process = "rename"
  /\ output' = partial
  /\ partial' = Absent
  /\ process' = "sidecar"
  /\ UNCHANGED <<optionVars, sidecar>>

\* The file system refuses to remove or to rename.
PublishFails ==
  /\ process \in {"remove", "rename"}
  /\ Fails
  /\ UNCHANGED partial

\* write_sidecar: the file is truncated, then written.
OpenSidecar ==
  /\ process = "sidecar"
  /\ sidecar' = [by |-> run, sealed |-> FALSE]
  /\ process' = "write_sidecar"
  /\ UNCHANGED <<optionVars, partial, output>>

\* The stream is checked before its destructor flushes the last bytes, so
\* the sidecar of a run that succeeds may still lack them.
WriteSidecar ==
  /\ process = "write_sidecar"
  /\ \E sealed \in BOOLEAN : sidecar' = [sidecar EXCEPT !.sealed = sealed]
  /\ process' = "succeeded"
  /\ UNCHANGED <<optionVars, partial, output>>

SidecarFails ==
  /\ process \in {"sidecar", "write_sidecar"}
  /\ Fails
  /\ UNCHANGED partial

-----------------------------------------------------------------------------

Steps ==
  \/ CheckOutput \/ PrepareFails \/ RemovePartial \/ Open \/ OpenFails
  \/ Convert \/ ConvertFails \/ Validate
  \/ RemoveOutput \/ Rename \/ PublishFails
  \/ OpenSidecar \/ WriteSidecar \/ SidecarFails

\* The process is killed.
Crash ==
  /\ process \notin {"none", "failed", "succeeded"}
  /\ process' = "none"
  /\ UNCHANGED <<optionVars, partial, output, sidecar>>

\* Another program creates a file at the output, if there is none.
OthersCreateOutput ==
  /\ output = Absent
  /\ process \notin {"none", "failed", "succeeded"}
  /\ output' = [by |-> Foreign, sealed |-> TRUE, defects |-> {}]
  /\ UNCHANGED <<process, optionVars, partial, sidecar>>

Terminated ==
  /\ run = MaxRuns
  /\ process \in {"none", "failed", "succeeded"}
  /\ UNCHANGED vars

Next == Start \/ Steps \/ Crash \/ OthersCreateOutput \/ Terminated

Spec == Init /\ [][Next]_vars

-----------------------------------------------------------------------------
(* Properties.                                                             *)

Places ==
  {"none", "check", "prepare", "open", "convert", "validate", "remove",
   "rename", "sidecar", "write_sidecar", "failed", "succeeded"}

\* Every variable has the type the code gives it; while the process works on
\* the partial file it is there, and its own.
TypeOK ==
  /\ process \in Places
  /\ run \in 0..MaxRuns
  /\ overwrite \in BOOLEAN
  /\ verify_output \in BOOLEAN
  /\ partial \in Movie \union {Absent}
  /\ output \in Movie \union {Absent}
  /\ sidecar \in Sidecar \union {Absent}
  /\ process \in {"convert", "validate", "remove", "rename"} =>
       partial # Absent /\ partial.by = run

\* docs/GPU_PHASE8_PRODUCTION.md:19-20: whatever crashes, failures and
\* leftovers of earlier runs there are, a file at the output has its trailer
\* and passed the validation.
PublishedIsValidated ==
  output # Absent =>
    output.sealed /\ output.defects \intersect {"metadata", "writer_count"} = {}

\* A command that succeeded leaves its own MOV and its own sidecar behind,
\* never those of an earlier run, and no partial file; with --verify-output
\* the MOV has no defect.
SuccessIsWhole ==
  process = "succeeded" =>
    /\ output # Absent /\ output.by = run
    /\ verify_output => output.defects = {}
    /\ sidecar # Absent /\ sidecar.by = run
    /\ partial = Absent

\* A sidecar never describes a MOV that is yet to be published: next to a
\* converted MOV there is that run's sidecar, or, after a crash or a failure
\* between the two, the sidecar of an earlier run.
SidecarIsNotAhead ==
  sidecar # Absent =>
    /\ process \notin {"check", "prepare", "open", "convert", "validate"}
         \/ sidecar.by < run
    /\ output # Absent /\ output.by # Foreign => sidecar.by <= output.by

\* README.md:84: the conversion atomically renames the partial file to the
\* target file, so a target that exists never ceases to.
AtomicReplace == [][output # Absent => output' # Absent]_vars

\* docs/GPU_PHASE8_PRODUCTION.md:13-14: a runtime failure removes the partial
\* output.
PartialRemoved == process = "failed" => partial = Absent

-----------------------------------------------------------------------------
(* The inductive invariant behind them, in named parts.                    *)

\* A process is that of some run.
Started == process # "none" => run # 0

\* What the process knows of the partial file before it puts it in place.
PartialValidated ==
  /\ process \in {"validate", "remove", "rename"} => partial.sealed
  /\ process \in {"remove", "rename"} =>
       /\ partial.defects \intersect {"metadata", "writer_count"} = {}
       /\ verify_output => partial.defects = {}

\* What stands at the output once it is in place.
OutputInPlace ==
  process \in {"sidecar", "write_sidecar", "succeeded"} =>
    /\ output # Absent /\ output.by = run
    /\ verify_output => output.defects = {}
    /\ partial = Absent

\* The sidecar is of this run or an earlier one, and of this run only once
\* the process has begun to write it.
SidecarAge ==
  /\ sidecar # Absent =>
       /\ sidecar.by <= run
       /\ process \in {"check", "prepare", "open", "convert", "validate",
                       "remove", "rename", "sidecar"} => sidecar.by < run
       /\ output # Absent /\ output.by # Foreign => sidecar.by <= output.by
  /\ process \in {"write_sidecar", "succeeded"} =>
       sidecar # Absent /\ sidecar.by = run

IInv ==
  /\ TypeOK
  /\ Started
  /\ PublishedIsValidated
  /\ PartialValidated
  /\ OutputInPlace
  /\ SidecarAge

=============================================================================
