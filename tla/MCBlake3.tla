------------------------------ MODULE MCBlake3 ------------------------------
(***************************************************************************)
(* The parts of src/libs/blake3 in one run of TLC: the hasher, one call of *)
(* the platform layer, the reader of the extended output, and b3sum.  The  *)
(* initial state chooses a part; the others rest, and share no state with  *)
(* it.                                                                     *)
(***************************************************************************)
EXTENDS OutputReader, Blake3Incremental

CONSTANTS
  InputCounts, BlockCounts, OutputBlocks, Counters,
  Names, MaxChanges

VARIABLES
  part,
  job, backend, inputCounter, out,
  windows, format, seeks, pc, file_args, hashed, content, checkfile, files_failed,
  statuses, printed, checked, changes

kernelsVars == <<job, backend, inputCounter, out>>
cliVars == <<windows, format, seeks, pc, file_args, hashed, content, checkfile, files_failed,
             statuses, printed, checked, changes>>

Kernels == INSTANCE Blake3Kernels WITH counter <- inputCounter
Cli == INSTANCE B3sum

ASSUME CliAssumption == Cli!NamesAssumption

HasherAtRest ==
  hasher = <<>> /\ origin = 0 /\ fed = 0 /\ reference = <<>> /\ panicked = FALSE

KernelsAtRest == job = <<>> /\ backend = "none" /\ inputCounter = 0 /\ out = <<>>

CliAtRest ==
  /\ windows = FALSE /\ format = "none" /\ seeks = <<>> /\ pc = "none"
  /\ file_args = <<>> /\ hashed = 0 /\ content = <<>> /\ checkfile = <<>>
  /\ files_failed = 0 /\ statuses = <<>> /\ printed = <<>> /\ checked = <<>> /\ changes = 0

\* The reader rests where it starts.
ReaderAtRest == Init

PartInit ==
  \/ part = "hasher" /\ Hasher!Init /\ KernelsAtRest /\ CliAtRest /\ ReaderAtRest
  \/ part = "kernels" /\ Kernels!Init /\ HasherAtRest /\ CliAtRest /\ ReaderAtRest
  \/ part = "b3sum" /\ Cli!Init /\ HasherAtRest /\ KernelsAtRest /\ ReaderAtRest
  \/ part = "reader" /\ Init /\ HasherAtRest /\ KernelsAtRest /\ CliAtRest

PartNext ==
  \/ part = "hasher" /\ Hasher!Next /\ UNCHANGED <<part, kernelsVars, cliVars, vars>>
  \/ part = "kernels" /\ Kernels!Next /\ UNCHANGED <<part, hasherVars, cliVars, vars>>
  \/ part = "b3sum" /\ Cli!Next /\ UNCHANGED <<part, hasherVars, kernelsVars, vars>>
  \/ part = "reader" /\ Next /\ UNCHANGED <<part, hasherVars, kernelsVars, cliVars>>

PartSpec == PartInit /\ [][PartNext]_<<part, hasherVars, kernelsVars, cliVars, vars>>

\* Spaces, marks of both kinds of line, escapes, and what is no Unicode
SomeNames ==
  { <<"a">>, <<"a", "sp", "sp", "a">>, <<"sp", "a">>, <<")", "sp", "=", "sp", "a">>,
    <<"nl">>, <<"n", "cr">>, <<"bs", "n">>, <<"a", "bs", "n">>, <<"bad">>, <<"fffd">> }

-----------------------------------------------------------------------------
(* The properties of the parts (ReadsOneStream is the reader's own).       *)

\* The incremental hasher gives the hash of the reference implementation.
FinalizeMatchesReference == part = "hasher" => Hasher!FinalizeMatchesReference

\* The one-shot functions give the hash of the incremental hasher.
OneShotAgrees == part = "hasher" => Hasher!OneShotAgrees

\* Subtrees hashed apart merge into the hash of the whole input.
SubtreesMerge == part = "hasher" => Hasher!SubtreesMerge

\* The stack of chaining values never outgrows its room.
StackFits == part = "hasher" => Hasher!StackFits

\* Whichever back end and grouping: each input has its own hash.
EachInputOwnHash == part = "kernels" => Kernels!EachInputOwnHash

\* Every back end's single compression is the reference's.
CompressionsAgree == part = "kernels" => Kernels!CompressionsAgree

\* b3sum --check never says OK of what it should not.
CheckVouches == part = "b3sum" => Cli!CheckVouches

\* b3sum --check passes what b3sum listed.
ListedFilesPass == part = "b3sum" => Cli!ListedFilesPass

\* The documentation: every Unicode name can be checked.
EveryNameCanBeChecked == part = "b3sum" => Cli!EveryNameCanBeChecked
=============================================================================
