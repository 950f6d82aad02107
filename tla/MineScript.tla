------------------------------ MODULE MineScript -----------------------------
(***************************************************************************)
(* mine.sh: rounds of fetching a seed, running the miner with a time       *)
(* limit and its output in a file, parsing the file, and submitting.       *)
(*                                                                         *)
(* The miner's one line of JSON is longer than the 4096 bytes of a stdio   *)
(* buffer, so it reaches the file in two writes: the first has `"found":   *)
(* true` and most of solution_b58, the second its end and closing quote.   *)
(* The time limit may end the miner before, between or after them.         *)
(*                                                                         *)
(* Someone may kill the script and start it again.  Its miner then runs on *)
(* until its own time limit, writing at its own offset into the file that  *)
(* it opened, which the next round's miner may be using too: the file has  *)
(* a fixed name.  A miner is known by the number of its round.             *)
(***************************************************************************)
EXTENDS Integers, Sequences

CONSTANTS
  MaxRounds,    (* bound: rounds, of all the scripts started               *)
  MaxKills      (* bound: how often the script is killed                   *)

ScriptAssumption == MaxRounds \in Nat /\ MaxKills \in Nat

Round == 1 .. MaxRounds
Nobody == 0
Empty == <<>>       \* SOL_B58 when grep finds no closed solution_b58

VARIABLES
  localTest,    (* LOCAL_TEST: "true", "false", or anything else           *)
  pc,           (* where the script is                                     *)
  round,        (* the number of the last miner started                    *)
  miner,        (* what each miner is doing                                *)
  file,         (* OUT_FILE: who wrote each of its two parts               *)
  attached,     (* the miners whose output goes into that file             *)
  found,        (* FOUND_YES is positive                                   *)
  solution,     (* SOL_B58: who wrote its two parts                        *)
  requests,     (* history: what has been submitted, in which round        *)
  complete,     (* history: the miners that wrote their whole result       *)
  orphans,      (* history: for each round, the miners of killed scripts   *)
                (* still writing into its file                             *)
  killedIn,     (* history: the rounds during which the script was killed  *)
  kills

history == <<requests, complete, orphans, killedIn, kills>>
vars == <<localTest, pc, round, miner, file, attached, found, solution, history>>

NoFile == [exists |-> FALSE, head |-> Nobody, rest |-> Nobody]
Alive(r) == miner[r] \in {"mining", "half"}

Init ==
  /\ localTest \in {"true", "false", "other"}
  /\ pc = "top"
  /\ round = 0
  /\ miner = [r \in Round |-> "none"]
  /\ file = NoFile
  /\ attached = {}
  /\ found = FALSE
  /\ solution = Empty
  /\ requests = <<>>
  /\ complete = {}
  /\ orphans = [r \in Round |-> {}]
  /\ killedIn = {}
  /\ kills = 0

-----------------------------------------------------------------------------
(* The script.                                                             *)

\* A local test makes its own seed; otherwise the fetch may bring nothing.
FetchNothing ==
  /\ pc = "top"
  /\ localTest # "true"
  /\ pc' = "asleep"
  /\ UNCHANGED <<localTest, round, miner, file, attached, found, solution, history>>

WakeUp ==
  /\ pc = "asleep"
  /\ pc' = "top"
  /\ UNCHANGED <<localTest, round, miner, file, attached, found, solution, history>>

\* Mutant: the output is appended to what the file has.
Appended == [file EXCEPT !.exists = TRUE]

Truncated == [exists |-> TRUE, head |-> Nobody, rest |-> Nobody]

\* A seed of any length has come: run the miner, its output to OUT_FILE.
StartMiner ==
  /\ pc = "top"
  /\ round < MaxRounds
  /\ LET r == round + 1
         others == IF file.exists THEN attached ELSE {}
     IN  /\ round' = r
         /\ miner' = [miner EXCEPT ![r] = "mining"]
         /\ attached' = others \cup {r}
         /\ orphans' = [orphans EXCEPT ![r] = {o \in others : Alive(o)}]
  /\ file' = Truncated
  /\ pc' = "wait"
  /\ UNCHANGED <<localTest, found, solution, requests, complete, killedIn, kills>>

\* Mutant: the miner is left in the background.
InBackground == TRUE

MinerEnded == ~Alive(round)

\* grep for "found"
ParseFound ==
  /\ pc = "wait"
  /\ MinerEnded
  /\ found' = (file.head # Nobody)
  /\ pc' = "parse"
  /\ UNCHANGED <<localTest, round, miner, file, attached, solution, history>>

\* grep for "solution_b58", up to its closing quote
ParseSolution ==
  /\ pc = "parse"
  /\ solution' = IF Nobody \in {file.head, file.rest} THEN Empty
                                                       ELSE <<file.head, file.rest>>
  /\ pc' = IF found /\ localTest = "false" THEN "submit" ELSE "remove"
  /\ UNCHANGED <<localTest, round, miner, file, attached, found, history>>

\* The answer is shown, and no answer is nothing to show: no retry.
Submit ==
  /\ pc = "submit"
  /\ requests' = Append(requests, [round |-> round, text |-> solution])
  /\ pc' = "remove"
  /\ UNCHANGED <<localTest, round, miner, file, attached, found, solution, complete,
                 orphans, killedIn, kills>>

\* Whoever is still writing writes into a file without a name.
RemoveFile ==
  /\ pc = "remove"
  /\ file' = NoFile
  /\ attached' = {}
  /\ pc' = "top"
  /\ UNCHANGED <<localTest, round, miner, found, solution, history>>

\* The script is killed at any point of a round, and started again.
KillAndRestart ==
  /\ pc # "top"
  /\ kills < MaxKills
  /\ kills' = kills + 1
  /\ killedIn' = IF pc = "asleep" THEN killedIn ELSE killedIn \cup {round}
  /\ pc' = "top"
  /\ found' = FALSE
  /\ solution' = Empty
  /\ UNCHANGED <<localTest, round, miner, file, attached, requests, complete, orphans>>

-----------------------------------------------------------------------------
(* The miners.                                                             *)

WriteHead(r) ==
  /\ miner[r] = "mining"
  /\ miner' = [miner EXCEPT ![r] = "half"]
  /\ file' = IF r \in attached THEN [file EXCEPT !.head = r] ELSE file
  /\ UNCHANGED <<localTest, pc, round, attached, found, solution, history>>

WriteRest(r) ==
  /\ miner[r] = "half"
  /\ miner' = [miner EXCEPT ![r] = "ended"]
  /\ file' = IF r \in attached THEN [file EXCEPT !.rest = r] ELSE file
  /\ complete' = complete \cup {r}
  /\ UNCHANGED <<localTest, pc, round, attached, found, solution, requests, orphans,
                 killedIn, kills>>

\* Mutant: a limit of zero seconds, which is none.
NoLimit(r) == FALSE

\* DIFF * 30 seconds, at least 60 and at most 600
TimeIsUp(r) == Alive(r)

Timeout(r) ==
  /\ TimeIsUp(r)
  /\ miner' = [miner EXCEPT ![r] = "ended"]
  /\ UNCHANGED <<localTest, pc, round, file, attached, found, solution, history>>

-----------------------------------------------------------------------------
ScriptStep ==
  \/ FetchNothing \/ WakeUp \/ StartMiner
  \/ ParseFound \/ ParseSolution \/ Submit \/ RemoveFile

MinerStep(r) == WriteHead(r) \/ WriteRest(r) \/ Timeout(r)

\* The bound on rounds is reached; only deadlock checking needs this.
Terminating == pc = "top" /\ round = MaxRounds /\ UNCHANGED vars

Next ==
  \/ ScriptStep
  \/ KillAndRestart
  \/ \E r \in Round : MinerStep(r)
  \/ Terminating

Spec == Init /\ [][Next]_vars

-----------------------------------------------------------------------------
(* Properties.                                                             *)

\* What is submitted is nothing, or put together from what the miner of the
\* very round wrote and the miners of killed scripts that were writing into
\* its file: never what an earlier round left there, and when nobody was
\* killed, the round's own solution or nothing (mine.sh:57, 68, 75, 102).
SubmissionExplained ==
  \A i \in 1 .. Len(requests) :
    LET r == requests[i].round
        text == requests[i].text
    IN  text # Empty => {text[1], text[2]} \subseteq orphans[r] \cup {r}

\* No solution is submitted twice, whenever the script is killed and started
\* again, also between a submission and the removal of the file.
SubmittedOnce ==
  \A i, j \in 1 .. Len(requests) :
    requests[i].text = requests[j].text /\ requests[i].text # Empty => i = j

\* A result that the miner wrote whole is submitted, however close to the
\* time limit it came (mine.sh:57-75): unless the script was killed in that
\* round, or another miner was writing into the file.
WholeResultSubmitted ==
  pc = "top" /\ localTest = "false" =>
    \A r \in complete \ killedIn :
      orphans[r] = {} =>
        \E i \in 1 .. Len(requests) : requests[i] = [round |-> r, text |-> <<r, r>>]

\* Every round ends, with a solution or without one.
RoundEnds == pc = "wait" ~> pc = "top"
=============================================================================
