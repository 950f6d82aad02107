----------------------------- MODULE MCScripts ------------------------------
(***************************************************************************)
(* The three programs that run in rounds, in one run of TLC: mine.sh,      *)
(* miner_openblas.py and merkle_prove.sh.  The initial state chooses one;  *)
(* the others rest.                                                        *)
(***************************************************************************)
EXTENDS MineScript

CONSTANTS MaxIterations, MaxBits, Indexes, Sizes, None

\* The scripts share pc, localTest and round with mine.sh.
VARIABLES
  program,
  result,                 \* of the Python miner, and of the Merkle prover
  args, hasTtnn, shortSeed, bits, difficulty, nonce, bestBits, device, raised, printed,
  abandoned, interrupted,
  treeSize, proofIndex, heard, submitted, initialSize

mineVars == <<miner, file, attached, found, solution, requests, complete, orphans, killedIn, kills>>
pyVars == <<args, hasTtnn, shortSeed, bits, difficulty, nonce, bestBits, device, raised,
            printed, abandoned, interrupted>>
merkleVars == <<treeSize, proofIndex, heard, submitted, initialSize>>
programVars == <<program, pc, localTest, round, result, mineVars, pyVars, merkleVars>>

Py == INSTANCE PyMiner
Merkle == INSTANCE MerkleService

ASSUME ScriptsAssumption ==
  ScriptAssumption /\ Py!PyMinerAssumption /\ Merkle!ServiceAssumption

MineAtRest ==
  /\ miner = <<>> /\ file = <<>> /\ attached = {} /\ found = FALSE /\ solution = <<>>
  /\ requests = <<>> /\ complete = {} /\ orphans = <<>> /\ killedIn = {} /\ kills = 0

PyAtRest ==
  /\ args = <<>> /\ hasTtnn = FALSE /\ shortSeed = FALSE /\ bits = <<>> /\ difficulty = 0
  /\ nonce = 0 /\ bestBits = 0 /\ device = FALSE /\ raised = "none" /\ printed = "none"
  /\ abandoned = FALSE /\ interrupted = FALSE

MerkleAtRest ==
  treeSize = 0 /\ proofIndex = 0 /\ heard = <<>> /\ submitted = <<>> /\ initialSize = 0

ProgramInit ==
  \/ program = "mine.sh" /\ Init /\ PyAtRest /\ MerkleAtRest /\ result = <<>>
  \/ /\ program = "miner_openblas.py" /\ Py!Init /\ MineAtRest /\ MerkleAtRest
     /\ localTest = "none" /\ round = 0
  \/ program = "merkle_prove.sh" /\ Merkle!Init /\ MineAtRest /\ PyAtRest

InMine(Action) ==
  program = "mine.sh" /\ Action /\ UNCHANGED <<program, result, pyVars, merkleVars>>

InPy(Action) ==
  /\ program = "miner_openblas.py" /\ Action
  /\ UNCHANGED <<program, localTest, round, mineVars, merkleVars>>

InMerkle(Action) ==
  program = "merkle_prove.sh" /\ Action /\ UNCHANGED <<program, mineVars, pyVars>>

ProgramNext == InMine(Next) \/ InPy(Py!Next) \/ InMerkle(Merkle!Next)

ProgramSpec == ProgramInit /\ [][ProgramNext]_programVars

\* The shells go on with their scripts and the interpreter runs; curl and the
\* provers return, every request of the Python miner has a timeout of ten
\* seconds, and timeout(1) keeps its time with a miner.  Nothing says that a
\* miner finds anything.
FairSpec ==
  /\ ProgramSpec
  /\ WF_programVars(InMine(ScriptStep))
  /\ \A r \in Round : WF_programVars(InMine(Timeout(r)))
  /\ WF_programVars(InPy(Py!Step))
  /\ WF_programVars(InMerkle(Merkle!Step))

-----------------------------------------------------------------------------
(* The properties of mine.sh are those of module MineScript: the other     *)
(* programs submit none of its requests and never wait for its miner.      *)

\* The fast search returns the first nonce that meets the difficulty.
FirstSolutionReturned == program = "miner_openblas.py" => Py!FirstSolutionReturned

\* The accelerator is closed unless an exception came in between.
DeviceReturned == program = "miner_openblas.py" => Py!DeviceReturned

\* Whatever fails, there is another round.
RoundsGoOn ==
  /\ program = "miner_openblas.py" => Py!RoundsGoOn
  /\ program = "merkle_prove.sh" => Merkle!RoundsGoOn

\* A proof submitted is the one its workload asked for.
AnswersItsWorkload == program = "merkle_prove.sh" => Merkle!AnswersItsWorkload

\* A workload is answered, once, exactly when its proof verifies.
AnsweredIffProvable == program = "merkle_prove.sh" => Merkle!AnsweredIffProvable
=============================================================================
