------------------------------- MODULE PyMiner ------------------------------
(***************************************************************************)
(* miner_openblas.py: the rounds of main, the exact search on the CPU, the *)
(* fast search with the accelerator, and the performance report.           *)
(*                                                                         *)
(* Every request may fail or bring a seed too short, the accelerator may   *)
(* fail, and the user may press Ctrl-C at any time.  A round's seed        *)
(* decides how many leading zero bits the hash of each nonce has: `bits`.  *)
(*                                                                         *)
(* The exact search calls _process_nonce in the parent process, where      *)
(* _BASE_SEED is still None (only the workers' initializer sets it), and   *)
(* bytearray(None) raises: what follows line 203 in mine_correct is never  *)
(* reached.                                                                *)
(***************************************************************************)
EXTENDS Integers, FiniteSetsExt

CONSTANTS
  MaxIterations,  (* --iterations: the nonces are 0 to MaxIterations - 1   *)
  MaxBits         (* the bits of a hash                                    *)

PyMinerAssumption ==
  /\ MaxIterations \in Nat \ {0}
  /\ MaxBits \in Nat

Nonces == 0 .. MaxIterations - 1
NoResult == [success |-> FALSE, nonce |-> -1, bits |-> -1]

VARIABLES
  args,         (* --gpu, --report and --loop; fixed                       *)
  hasTtnn,      (* _HAS_TTNN: the accelerator's library is installed       *)
  pc,           (* where main is                                           *)
  shortSeed,    (* the seed that came has no room for a nonce at 228       *)
  bits,         (* the leading zero bits of each nonce's hash, this round  *)
  difficulty,   (* this round's difficulty                                 *)
  nonce,        (* the search's loop counter                               *)
  bestBits,     (* the search's best_bits                                  *)
  device,       (* the accelerator is open                                 *)
  result,       (* main's `result`, or NoResult when it has none           *)
  raised,       (* what the last exception was: "none" before the first    *)
  printed,      (* what the program printed last                           *)
  abandoned,    (* history: an exception or Ctrl-C left the device open    *)
  interrupted   (* history: Ctrl-C has been pressed                        *)

search == <<nonce, bestBits>>
history == <<abandoned, interrupted>>
input == <<shortSeed, bits, difficulty>>
vars == <<args, hasTtnn, pc, input, search, device, result, raised, printed, history>>

Init ==
  /\ args \in [gpu : BOOLEAN, report : BOOLEAN, loop : BOOLEAN]
  /\ hasTtnn \in BOOLEAN
  /\ pc = "seed"
  /\ shortSeed = FALSE
  /\ bits = [n \in Nonces |-> 0]
  /\ difficulty = 0
  /\ nonce = 0
  /\ bestBits = 0
  /\ device = FALSE
  /\ result = NoResult
  /\ raised = "none"
  /\ printed = "none"
  /\ abandoned = FALSE
  /\ interrupted = FALSE

\* The handler of main: with --loop another round after five seconds.
Raise(what) ==
  /\ raised' = what
  /\ abandoned' = (abandoned \/ device)
  /\ pc' = IF args.loop THEN "sleep" ELSE "print"
  /\ UNCHANGED <<args, hasTtnn, input, search, device, result, printed,
                 interrupted>>

-----------------------------------------------------------------------------
(* A round.                                                                *)

\* What the hashes of the new seed's nonces will be is decided here.
FetchSeed ==
  /\ pc = "seed"
  /\ shortSeed' \in BOOLEAN
  /\ bits' \in [Nonces -> 0 .. MaxBits]
  /\ pc' = "difficulty"
  /\ UNCHANGED <<args, hasTtnn, difficulty, search, device, result, raised, printed,
                 history>>

\* A second request: the chain may have moved on in between.
FetchDifficulty ==
  /\ pc = "difficulty"
  /\ difficulty' \in 0 .. MaxBits
  /\ pc' = IF ~args.report THEN "validate"
           ELSE IF args.gpu THEN "open" ELSE "report"
  /\ UNCHANGED <<args, hasTtnn, shortSeed, bits, search, device, result, raised,
                 printed, history>>

\* test_validation submits the seed as it came
Validate ==
  /\ pc = "validate"
  /\ pc' = IF args.gpu THEN "open" ELSE "exact"
  /\ UNCHANGED <<args, hasTtnn, input, search, device, result, raised,
                 printed, history>>

RequestFails ==
  /\ pc \in {"seed", "difficulty", "validate"}
  /\ Raise("network")

\* mine_correct: _process_nonce(0) in the parent
ExactSearch ==
  /\ pc = "exact"
  /\ Raise("TypeError")

\* A device that an earlier round left open may refuse to be opened again.
OpenDevice ==
  /\ pc = "open"
  /\ hasTtnn
  /\ device' = TRUE
  /\ pc' = IF args.report THEN "report" ELSE "compute"
  /\ UNCHANGED <<args, hasTtnn, input, search, result, raised, printed, history>>

DeviceFails ==
  /\ \/ pc = "open"
     \/ pc = "compute"
     \/ pc = "report" /\ args.gpu
  /\ Raise("device")

\* Mutant: as mine_correct would: the first nonce's bits are the best to
\* beat, and the search starts after it.
AfterTheFirst(all) == [nonce |-> 1, best |-> all[0]]

SearchStart(all) == [nonce |-> 0, best |-> 0]

\* The one product of the fast search
ComputeProduct ==
  /\ pc = "compute"
  /\ nonce' = SearchStart(bits).nonce
  /\ bestBits' = SearchStart(bits).best
  /\ pc' = "hash"
  /\ UNCHANGED <<args, hasTtnn, input, device, result, raised, printed, history>>

\* Mutant: the device stays open when a solution is found.
LeaveOpen == device' = device

\* ttnn.close_device
CloseDevice == device' = FALSE

\* struct.pack_into, into a seed that is too short: the search raises with
\* the accelerator open, and so does the report.
PackFails ==
  /\ pc \in {"hash", "report"}
  /\ shortSeed
  /\ Raise("struct.error")

HashNonce ==
  /\ pc = "hash"
  /\ ~shortSeed
  /\ nonce < MaxIterations
  /\ LET b == bits[nonce]
         better == b > bestBits
     IN  /\ bestBits' = IF better THEN b ELSE bestBits
         /\ \/ /\ better /\ b >= difficulty
               /\ CloseDevice
               /\ result' = [success |-> TRUE, nonce |-> nonce, bits |-> b]
               /\ pc' = "after"
               /\ UNCHANGED nonce
            \/ /\ ~(better /\ b >= difficulty)
               /\ nonce' = nonce + 1
               /\ UNCHANGED <<device, result, pc>>
  /\ UNCHANGED <<args, hasTtnn, input, raised, printed, history>>

Exhausted ==
  /\ pc = "hash"
  /\ nonce >= MaxIterations
  /\ device' = FALSE
  /\ result' = [success |-> FALSE, nonce |-> -1, bits |-> bestBits]
  /\ pc' = "after"
  /\ UNCHANGED <<args, hasTtnn, input, search, raised, printed, history>>

\* Mutant: every round is the last.
LastRound == "print"

NextRound == IF args.loop THEN "seed" ELSE "print"

\* With a solution this is submit_solution's request, whatever its answer.
FinishRound ==
  /\ pc = "after"
  /\ pc' = NextRound
  /\ UNCHANGED <<args, hasTtnn, input, search, device, result, raised,
                 printed, history>>

\* The request fails, and the solution is lost.
SubmitFails ==
  /\ pc = "after"
  /\ result.success
  /\ Raise("network")

\* The report ends the program, --loop or not.
Report ==
  /\ pc = "report"
  /\ ~shortSeed
  /\ device' = FALSE
  /\ printed' = "report"
  /\ pc' = "ended"
  /\ UNCHANGED <<args, hasTtnn, input, search, result, raised, history>>

Sleep ==
  /\ pc = "sleep"
  /\ pc' = "seed"
  /\ UNCHANGED <<args, hasTtnn, input, search, device, result, raised,
                 printed, history>>

\* Ctrl-C ends the loop; but the pause is in an exception handler, out of
\* reach of the clause that catches it.
Interrupt ==
  /\ pc \notin {"print", "ended"}
  /\ interrupted' = TRUE
  /\ abandoned' = (abandoned \/ device)
  /\ \/ pc = "sleep" /\ pc' = "ended" /\ printed' = "traceback"
     \/ pc # "sleep" /\ pc' = "print" /\ UNCHANGED printed
  /\ UNCHANGED <<args, hasTtnn, input, search, device, result, raised>>

\* A successful result holds the solution's bytes, which JSON cannot.
PrintResult ==
  /\ pc = "print"
  /\ printed' = IF result = NoResult THEN "no result"
                ELSE IF result.success THEN "traceback" ELSE "json"
  /\ pc' = "ended"
  /\ UNCHANGED <<args, hasTtnn, input, search, device, result, raised, history>>

\* The program has ended; only deadlock checking needs this.
Terminating == pc = "ended" /\ UNCHANGED vars

Step ==
  \/ FetchSeed \/ FetchDifficulty \/ Validate \/ RequestFails
  \/ ExactSearch
  \/ OpenDevice \/ DeviceFails \/ ComputeProduct \/ PackFails \/ HashNonce \/ Exhausted
  \/ FinishRound \/ SubmitFails
  \/ Report \/ Sleep \/ PrintResult

Next == Step \/ Interrupt \/ Terminating

Spec == Init /\ [][Next]_vars

-----------------------------------------------------------------------------
(* Properties.                                                             *)

\* The nonces that meet this round's difficulty.
Solutions == {n \in Nonces : bits[n] >= difficulty}

\* The fast search checks the difficulty only of a hash better than all
\* before it; for any difficulty but zero it still returns the first nonce
\* that meets it, and fails only when there is none (lines 302-343).
FirstSolutionReturned ==
  pc = "after" /\ difficulty > 0 =>
    /\ result.success <=> Solutions # {}
    /\ result.success => result.nonce = Min(Solutions)

\* Between rounds and at the end the accelerator is closed, unless an
\* exception or Ctrl-C once came between opening and closing it
\* (lines 277-338, 511-513).
DeviceReturned ==
  pc \notin {"compute", "hash", "report"} /\ device => abandoned

\* With --loop, whatever fails, there is always another round, until Ctrl-C:
\* no search runs for ever and no error ends the program (lines 495-551).
RoundsGoOn == args.loop /\ ~args.report => []<>(pc = "seed" \/ interrupted)

\* README.md:6 and 78-81 give the miner a "CPU exact mode", the default of
\* miner_openblas.py: it would try nonces.  It never does.
ExactModeWorks == raised # "TypeError"
=============================================================================
