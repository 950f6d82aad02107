---------------------------- MODULE ScriptsProofs ----------------------------
(***************************************************************************)
(* Proofs about the three programs that run in rounds, for any number of   *)
(* rounds, kills, iterations, bits and workloads.                          *)
(*                                                                         *)
(* mine.sh.  Three invariants, each with its own question about the file   *)
(* that all rounds share.  FileExplained: who may still write into it?     *)
(* The round's miner and the orphans counted when the round began, for the *)
(* file is truncated at that moment and no miner comes to life later.      *)
(* ResultsFresh: has its second half been submitted?  Not while a round    *)
(* may still submit it, because a miner that wrote a second half has ended *)
(* and writes no other.  ResultsKept: is a whole result on its way?  Step  *)
(* by step, unless an orphan or a kill disturbs the round.                 *)
(*                                                                         *)
(* miner_openblas.py.  The search looks at the difficulty only when a hash *)
(* is better than all before it.  It misses nothing because, while it      *)
(* runs, the best so far is below the difficulty: whatever meets it is     *)
(* better.                                                                 *)
(*                                                                         *)
(* merkle_prove.sh.  The script keeps one TREE_SIZE and no record of who   *)
(* named it; the properties look the size up in the history.  SizesOK ties *)
(* the two.  That the last naming exists is part of the invariant, since   *)
(* it grows with the history.  A round is settled when its answer, if it   *)
(* gets one, has been sent.                                                *)
(*                                                                         *)
(* At the end, what each program keeps is carried over to the              *)
(* specification in which the initial state chooses the program: it goes   *)
(* on being that program's, and the other two rest.                        *)
(***************************************************************************)
EXTENDS MCScripts, SequenceTheorems, TLAPS

-----------------------------------------------------------------------------
(***************************************************************************)
(* mine.sh                                                                 *)
(***************************************************************************)
Writer == 0 .. MaxRounds

Text == {Empty} \cup (Round \X Round)

TypeOK ==
  /\ localTest \in {"true", "false", "other"}
  /\ pc \in {"top", "asleep", "wait", "parse", "submit", "remove"}
  /\ round \in 0 .. MaxRounds
  /\ miner \in [Round -> {"none", "mining", "half", "ended"}]
  /\ file \in [exists : BOOLEAN, head : Writer, rest : Writer]
  /\ attached \subseteq Round
  /\ found \in BOOLEAN
  /\ solution \in Text
  /\ requests \in Seq([round : Round, text : Text])
  /\ complete \subseteq Round
  /\ orphans \in [Round -> SUBSET Round]
  /\ killedIn \subseteq Round
  \* A round begins with its miner.
  /\ pc \in {"wait", "parse", "submit", "remove"} => round \in Round
  /\ \A r \in Round : r > round => miner[r] = "none"

Writers(r) == orphans[r] \cup {r}

WritersExplained == \A r \in attached : Alive(r) => round \in Round /\ r \in Writers(round)

HalvesExplained ==
  \A w \in {file.head, file.rest} : w # Nobody => round \in Round /\ w \in Writers(round)

FileExplained ==
  /\ WritersExplained
  /\ HalvesExplained
  /\ pc = "submit" /\ solution # Empty => {solution[1], solution[2]} \subseteq Writers(round)
  /\ \A i \in 1 .. Len(requests) :
       /\ requests[i].round <= round
       /\ requests[i].text # Empty =>
            {requests[i].text[1], requests[i].text[2]} \subseteq Writers(requests[i].round)

\* No solution that has been submitted has its second half from w.
Fresh(w) == \A i \in 1 .. Len(requests) : requests[i].text # Empty => requests[i].text[2] # w

ResultsFresh ==
  /\ file.rest # Nobody => miner[file.rest] = "ended"
  /\ pc \in {"wait", "parse"} /\ file.rest # Nobody => Fresh(file.rest)
  /\ pc = "submit" /\ solution # Empty => miner[solution[2]] = "ended" /\ Fresh(solution[2])
  /\ \A i \in 1 .. Len(requests) :
       requests[i].text # Empty => miner[requests[i].text[2]] = "ended"
  /\ SubmittedOnce

Submitted(r) == \E i \in 1 .. Len(requests) : requests[i] = [round |-> r, text |-> <<r, r>>]

\* Nothing outside has disturbed the round.
Undisturbed(r) == r \notin killedIn /\ orphans[r] = {}

ResultsKept ==
  /\ \A r \in Round : Alive(r) => (r = round /\ pc = "wait") \/ r \in killedIn
  /\ \A r \in complete : miner[r] = "ended"
  /\ pc = "wait" => round \in attached
  /\ pc \in {"wait", "parse"} /\ Undisturbed(round) =>
       /\ miner[round] = "half" => file.head = round
       /\ round \in complete => file.head = round /\ file.rest = round
  /\ pc = "parse" /\ Undisturbed(round) /\ round \in complete => found
  /\ pc = "submit" /\ Undisturbed(round) /\ round \in complete => solution = <<round, round>>
  /\ \A r \in complete :
       Undisturbed(r) /\ localTest = "false" /\ (r < round \/ pc \in {"remove", "top", "asleep"})
         => Submitted(r)

IInv == TypeOK /\ FileExplained /\ ResultsFresh /\ ResultsKept

-----------------------------------------------------------------------------
\* The variables of mine.sh have their types at first,
LEMMA TypeInit == ScriptAssumption /\ Init => TypeOK
<1> SUFFICES ASSUME ScriptAssumption, Init PROVE TypeOK
  OBVIOUS
<1>1. file \in [exists : BOOLEAN, head : Writer, rest : Writer]
  BY DEF Init, NoFile, Nobody, Writer, ScriptAssumption
<1>2. solution \in Text
  BY DEF Init, Text
<1>3. requests \in Seq([round : Round, text : Text])
  BY DEF Init
<1>4. /\ miner \in [Round -> {"none", "mining", "half", "ended"}]
      /\ orphans \in [Round -> SUBSET Round]
      /\ \A r \in Round : r > round => miner[r] = "none"
  BY DEF Init
<1>5. /\ localTest \in {"true", "false", "other"}
      /\ pc \in {"top", "asleep", "wait", "parse", "submit", "remove"}
      /\ pc \in {"wait", "parse", "submit", "remove"} => round \in Round
      /\ round \in 0 .. MaxRounds
      /\ attached \subseteq Round /\ complete \subseteq Round /\ killedIn \subseteq Round
  BY DEF Init, ScriptAssumption
<1>6. found \in BOOLEAN
  BY DEF Init
<1> QED
  BY <1>1, <1>2, <1>3, <1>4, <1>5, <1>6 DEF TypeOK

\* and after each step.
LEMMA TypeStep == ScriptAssumption /\ TypeOK /\ [Next]_vars => TypeOK'
<1> SUFFICES ASSUME ScriptAssumption, TypeOK, [Next]_vars PROVE TypeOK'
  OBVIOUS
<1> USE DEF TypeOK, Writer, Nobody, ScriptAssumption, history
<1>1. CASE FetchNothing \/ WakeUp
  BY <1>1 DEF FetchNothing, WakeUp
<1>2. CASE StartMiner
  <2>1. round + 1 \in Round /\ round' = round + 1
    BY <1>2 DEF StartMiner, Round
  <2>2. attached' \subseteq Round /\ orphans' \in [Round -> SUBSET Round]
    BY <1>2, <2>1 DEF StartMiner
  <2>3. miner' = [miner EXCEPT ![round + 1] = "mining"]
    BY <1>2 DEF StartMiner
  <2>4. \A r \in Round : r > round' => miner'[r] = "none"
    BY <2>1, <2>3 DEF Round
  <2>5. file' \in [exists : BOOLEAN, head : Writer, rest : Writer]
    BY <1>2 DEF StartMiner, Truncated
  <2> QED
    BY <1>2, <2>1, <2>2, <2>3, <2>4, <2>5 DEF StartMiner
<1>3. CASE ParseFound
  BY <1>3 DEF ParseFound
<1>4. CASE ParseSolution
  <2>1. solution' \in Text
    BY <1>4 DEF ParseSolution, Text, Round
  <2> QED
    BY <1>4, <2>1 DEF ParseSolution
<1>5. CASE Submit
  BY <1>5 DEF Submit
<1>6. CASE RemoveFile
  BY <1>6 DEF RemoveFile, NoFile
<1>7. CASE KillAndRestart
  BY <1>7 DEF KillAndRestart, Text
<1>8. ASSUME NEW r \in Round, MinerStep(r) PROVE TypeOK'
  <2>1. CASE WriteHead(r)
    <3>1. file' \in [exists : BOOLEAN, head : Writer, rest : Writer]
      BY <2>1 DEF WriteHead, Round
    <3>2. miner' \in [Round -> {"none", "mining", "half", "ended"}]
             /\ \A q \in Round : q > round => miner'[q] = "none"
      BY <2>1 DEF WriteHead
    <3> QED
      BY <2>1, <3>1, <3>2 DEF WriteHead
  <2>2. CASE WriteRest(r)
    <3>1. file' \in [exists : BOOLEAN, head : Writer, rest : Writer]
      BY <2>2 DEF WriteRest, Round
    <3>2. miner' \in [Round -> {"none", "mining", "half", "ended"}]
             /\ \A q \in Round : q > round => miner'[q] = "none"
      BY <2>2 DEF WriteRest
    <3> QED
      BY <2>2, <3>1, <3>2 DEF WriteRest
  <2>3. CASE Timeout(r)
    BY <2>3 DEF Timeout, TimeIsUp, Alive
  <2> QED
    BY <1>8, <2>1, <2>2, <2>3 DEF MinerStep
<1>9. CASE UNCHANGED vars
  BY <1>9 DEF vars
<1> QED
  BY <1>1, <1>2, <1>3, <1>4, <1>5, <1>6, <1>7, <1>8, <1>9
     DEF Next, ScriptStep, Terminating

\* Every variable of MineScript keeps its type, and no miner runs before its
\* round has begun.
THEOREM TypeCorrectness == ScriptAssumption => (Spec => []TypeOK)
<1> SUFFICES ASSUME ScriptAssumption PROVE Spec => []TypeOK
  OBVIOUS
<1>1. Init => TypeOK
  BY TypeInit
<1>2. TypeOK /\ [Next]_vars => TypeOK'
  BY TypeStep
<1> QED
  BY <1>1, <1>2, PTL DEF Spec

-----------------------------------------------------------------------------
(***************************************************************************)
(* What a submission adds to the requests.                                 *)
(***************************************************************************)
LEMMA OneMoreRequest ==
  ASSUME TypeOK, Submit
  PROVE  /\ Len(requests') = Len(requests) + 1
         /\ Len(requests) \in Nat
         /\ \A i \in 1 .. Len(requests) : requests'[i] = requests[i]
         /\ requests'[Len(requests) + 1] = [round |-> round, text |-> solution]
<1>1. requests \in Seq([round : Round, text : Text]) /\ round \in Round /\ solution \in Text
  BY DEF TypeOK, Submit
<1>2. [round |-> round, text |-> solution] \in [round : Round, text : Text]
  BY <1>1
<1>3. requests' = Append(requests, [round |-> round, text |-> solution])
  BY DEF Submit
<1> QED
  BY <1>1, <1>2, <1>3

\* So has each request.
LEMMA RequestsTyped ==
  ASSUME TypeOK, NEW i \in 1 .. Len(requests)
  PROVE  requests[i].round \in Round /\ requests[i].text \in Text
<1> DEFINE Request == [round : Round, text : Text]
<1>1. requests \in Seq(Request)
  BY DEF TypeOK
<1>2. ASSUME NEW q \in Request PROVE q.round \in Round /\ q.text \in Text
  OBVIOUS
<1>3. requests[i] \in Request
  <2> HIDE DEF Request
  <2> QED
    BY <1>1
<1> QED
  BY <1>2, <1>3

-----------------------------------------------------------------------------
(***************************************************************************)
(* Who writes into the file.                                               *)
(***************************************************************************)
LEMMA ExplainedStep ==
  ASSUME ScriptAssumption, TypeOK, TypeOK', FileExplained, [Next]_vars
  PROVE  FileExplained'
<1> USE DEF FileExplained, WritersExplained, HalvesExplained
<1>1. CASE FetchNothing \/ WakeUp \/ ParseFound
  BY <1>1 DEF FetchNothing, WakeUp, ParseFound, Alive, Writers, history
<1>2. CASE StartMiner
  <2>1. /\ round + 1 \in Round /\ round' = round + 1 /\ pc' = "wait"
        /\ requests' = requests /\ file' = Truncated
        /\ miner' = [miner EXCEPT ![round + 1] = "mining"]
    BY <1>2 DEF StartMiner, ScriptAssumption, TypeOK, Round
  <2>2. PICK others \in SUBSET attached :
          /\ attached' = others \cup {round + 1}
          /\ orphans' = [orphans EXCEPT ![round + 1] = {o \in others : Alive(o)}]
    BY <1>2 DEF StartMiner
  <2>3. orphans'[round + 1] = {o \in others : Alive(o)}
    BY <2>1, <2>2 DEF TypeOK
  <2>4. \A r \in attached' : Alive(r)' => r \in Writers(round)'
    BY <2>1, <2>2, <2>3 DEF Writers, Alive, TypeOK
  <2>5. \A i \in 1 .. Len(requests) : orphans'[requests[i].round] = orphans[requests[i].round]
    <3> TAKE i \in 1 .. Len(requests)
    <3>1. requests[i].round \in Round /\ requests[i].round <= round
      BY RequestsTyped
    <3> QED
      BY <3>1, <2>1, <2>2 DEF TypeOK, Round
  <2>6. \A i \in 1 .. Len(requests) :
          /\ requests[i].round <= round + 1
          /\ requests[i].text # Empty =>
               {requests[i].text[1], requests[i].text[2]} \subseteq Writers(requests[i].round)'
    <3> TAKE i \in 1 .. Len(requests)
    <3>1. requests[i].round \in Round /\ requests[i].round <= round /\ round \in 0 .. MaxRounds
      BY RequestsTyped DEF TypeOK
    <3>2. Writers(requests[i].round)' = Writers(requests[i].round)
      BY <2>1, <2>5 DEF Writers
    <3> QED
      BY <3>1, <3>2 DEF Round
  <2>7. \A w \in {file'.head, file'.rest} : w = Nobody
    BY <2>1 DEF Truncated
  <2> QED
    BY <2>1, <2>4, <2>6, <2>7
<1>4. CASE ParseSolution
  BY <1>4 DEF ParseSolution, Alive, Writers, history
<1>5. CASE Submit
  <2>1. /\ round' = round /\ orphans' = orphans /\ miner' = miner /\ attached' = attached
        /\ file' = file /\ pc = "submit" /\ pc' = "remove"
    BY <1>5 DEF Submit
  <2>2. \A i \in 1 .. Len(requests') :
          /\ requests'[i].round <= round
          /\ requests'[i].text # Empty =>
               {requests'[i].text[1], requests'[i].text[2]} \subseteq Writers(requests'[i].round)
    <3> TAKE i \in 1 .. Len(requests')
    <3>1. CASE i \in 1 .. Len(requests)
      BY <1>5, <3>1, OneMoreRequest
    <3>2. CASE i = Len(requests) + 1
      BY <1>5, <2>1, <3>2, OneMoreRequest DEF TypeOK
    <3> QED
      BY <1>5, <3>1, <3>2, OneMoreRequest
  <2> QED
    BY <2>1, <2>2 DEF Alive, Writers
<1>6. CASE RemoveFile
  BY <1>6 DEF RemoveFile, NoFile, Alive, Writers, history
<1>7. CASE KillAndRestart
  BY <1>7 DEF KillAndRestart, Alive, Writers, history
<1>8. ASSUME NEW r \in Round, MinerStep(r) PROVE FileExplained'
  <2>1. /\ round' = round /\ orphans' = orphans /\ attached' = attached
        /\ pc' = pc /\ solution' = solution /\ requests' = requests
        /\ Alive(r)
        /\ \A q \in Round : Alive(q)' => Alive(q)
    BY <1>8 DEF MinerStep, WriteHead, WriteRest, Timeout, TimeIsUp, Alive, TypeOK,
                history
  <2>2. WritersExplained'
    BY <2>1 DEF Writers, TypeOK
  <2>3. file' = file \/ (r \in attached /\ \A w \in {file'.head, file'.rest} :
                           w \in {r, file.head, file.rest})
    BY <1>8 DEF MinerStep, WriteHead, WriteRest, Timeout, TypeOK
  <2>4. HalvesExplained'
    BY <2>1, <2>3 DEF Writers
  <2> QED
    BY <2>1, <2>2, <2>4 DEF Writers
<1>9. CASE UNCHANGED vars
  BY <1>9 DEF vars, Alive, Writers, history
<1> QED
  BY <1>1, <1>2, <1>4, <1>5, <1>6, <1>7, <1>8, <1>9 DEF Next, ScriptStep,
                                                        Terminating

-----------------------------------------------------------------------------
(***************************************************************************)
(* Whose second half is new.                                               *)
(***************************************************************************)
LEMMA FreshStep ==
  ASSUME ScriptAssumption, TypeOK, TypeOK', ResultsFresh, [Next]_vars
  PROVE  ResultsFresh'
<1> USE DEF ResultsFresh, Fresh, SubmittedOnce
<1>1. CASE FetchNothing \/ WakeUp \/ ParseFound
  BY <1>1 DEF FetchNothing, WakeUp, ParseFound, history
<1>2. CASE StartMiner
  <2>1. /\ round + 1 \in Round /\ round \in 0 .. MaxRounds
        /\ pc' = "wait" /\ requests' = requests /\ file'.rest = Nobody
        /\ miner' = [miner EXCEPT ![round + 1] = "mining"]
    BY <1>2 DEF StartMiner, Truncated, ScriptAssumption, TypeOK, Round
  <2>2. miner[round + 1] = "none"
    BY <2>1 DEF TypeOK, Round
  <2>3. \A r \in Round : miner[r] = "ended" => miner'[r] = "ended"
    BY <2>1, <2>2 DEF TypeOK
  <2>4. \A i \in 1 .. Len(requests) :
          requests[i].text # Empty => requests[i].text[2] \in Round
    BY RequestsTyped DEF Text
  <2> QED
    BY <2>1, <2>3, <2>4
<1>3. CASE ParseSolution
  <2>1. /\ pc = "parse" /\ pc' \in {"submit", "remove"}
        /\ file' = file /\ miner' = miner /\ requests' = requests
    BY <1>3 DEF ParseSolution, history
  <2>2. solution' = Empty \/ (file.rest # Nobody /\ solution'[2] = file.rest)
    BY <1>3 DEF ParseSolution
  <2> QED
    BY <2>1, <2>2
<1>4. CASE Submit
  <2>1. /\ file' = file /\ miner' = miner /\ pc = "submit" /\ pc' = "remove"
    BY <1>4 DEF Submit
  <2>2. \A i \in 1 .. Len(requests') :
          requests'[i].text # Empty => miner[requests'[i].text[2]] = "ended"
    BY <1>4, <2>1, OneMoreRequest
  <2>3. SubmittedOnce'
    BY <1>4, <2>1, OneMoreRequest
  <2> QED
    BY <2>1, <2>2, <2>3
<1>5. CASE RemoveFile
  BY <1>5 DEF RemoveFile, NoFile, history
<1>6. CASE KillAndRestart
  BY <1>6 DEF KillAndRestart, history
<1>7. ASSUME NEW r \in Round, MinerStep(r) PROVE ResultsFresh'
  <2>1. pc' = pc /\ solution' = solution /\ requests' = requests
    BY <1>7 DEF MinerStep, WriteHead, WriteRest, Timeout, history
  <2>2. \A q \in Round : miner[q] = "ended" => miner'[q] = "ended"
    BY <1>7 DEF MinerStep, WriteHead, WriteRest, Timeout, TypeOK
  <2>3. \/ file'.rest = file.rest
        \/ file'.rest = r /\ miner[r] = "half" /\ miner'[r] = "ended"
    BY <1>7 DEF MinerStep, WriteHead, WriteRest, Timeout, TypeOK
  <2>4. /\ \A i \in 1 .. Len(requests) :
             requests[i].text # Empty => requests[i].text[2] \in Round
        /\ solution # Empty => solution[2] \in Round
        /\ file.rest # Nobody => file.rest \in Round
    <3>1. \A i \in 1 .. Len(requests) :
            requests[i].text # Empty => requests[i].text[2] \in Round
      BY RequestsTyped DEF Text
    <3>2. solution # Empty => solution[2] \in Round
      BY DEF Text, TypeOK
    <3>3. file.rest \in Writer
      BY DEF TypeOK
    <3> QED
      BY <3>1, <3>2, <3>3 DEF Writer, Round, Nobody, ScriptAssumption
  <2>5. miner[r] = "half" => Fresh(r)
    OBVIOUS
  <2>6. file'.rest # Nobody => miner'[file'.rest] = "ended"
    BY <2>2, <2>3, <2>4
  <2>7. pc \in {"wait", "parse"} /\ file'.rest # Nobody => Fresh(file'.rest)
    BY <2>3, <2>5
  <2>8. pc = "submit" /\ solution # Empty => miner'[solution[2]] = "ended" /\ Fresh(solution[2])
    BY <2>2, <2>4
  <2>9. \A i \in 1 .. Len(requests) :
          requests[i].text # Empty => miner'[requests[i].text[2]] = "ended"
    BY <2>2, <2>4
  <2> QED
    BY <2>1, <2>6, <2>7, <2>8, <2>9
<1>8. CASE UNCHANGED vars
  BY <1>8 DEF vars, history
<1> QED
  BY <1>1, <1>2, <1>3, <1>4, <1>5, <1>6, <1>7, <1>8 DEF Next, ScriptStep,
                                                        Terminating

-----------------------------------------------------------------------------
(***************************************************************************)
(* That a whole result is on its way.                                      *)
(***************************************************************************)
\* Who has written everything has begun.
LEMMA CompleteBegun ==
  ASSUME TypeOK, ResultsKept, NEW r \in complete
  PROVE  r \in Round /\ (r < round \/ r = round)
<1>1. r \in Round /\ miner[r] = "ended"
  BY DEF TypeOK, ResultsKept
<1>2. ~(r > round) /\ round \in 0 .. MaxRounds
  BY <1>1 DEF TypeOK
<1> QED
  BY <1>1, <1>2 DEF Round

\* No step loses a whole result that is on its way.
LEMMA KeptStep ==
  ASSUME ScriptAssumption, TypeOK, TypeOK', FileExplained, ResultsKept, [Next]_vars
  PROVE  ResultsKept'
<1> USE DEF ResultsKept, Undisturbed, Submitted, Alive
<1>1. CASE FetchNothing \/ WakeUp
  BY <1>1 DEF FetchNothing, WakeUp, history
<1>2. CASE StartMiner
  <2>1. /\ round + 1 \in Round /\ round \in 0 .. MaxRounds /\ round' = round + 1
        /\ pc = "top" /\ pc' = "wait" /\ requests' = requests /\ complete' = complete
        /\ killedIn' = killedIn /\ localTest' = localTest /\ round' \in attached'
        /\ miner' = [miner EXCEPT ![round + 1] = "mining"]
    BY <1>2 DEF StartMiner, ScriptAssumption, TypeOK, Round
  <2>2. \A r \in Round \ {round + 1} : miner'[r] = miner[r] /\ orphans'[r] = orphans[r]
    BY <1>2 DEF StartMiner, TypeOK
  <2>3. miner'[round + 1] = "mining" /\ miner[round + 1] = "none"
    BY <2>1 DEF TypeOK, Round
  <2>4. complete \subseteq Round /\ \A r \in complete : r # round + 1 /\ r \in 1 .. round
    <3> SUFFICES ASSUME NEW r \in complete PROVE r # round + 1 /\ r \in 1 .. round
      BY DEF TypeOK
    <3>1. r \in Round /\ miner[r] # "none"
      BY DEF TypeOK
    <3> QED
      BY <2>1, <2>3, <3>1 DEF TypeOK, Round
  <2> QED
    BY <2>1, <2>2, <2>3, <2>4
<1>3. CASE ParseFound
  <2>1. /\ pc = "wait" /\ pc' = "parse" /\ ~Alive(round)
        /\ UNCHANGED <<localTest, round, miner, file, attached, requests, complete, orphans,
                       killedIn>>
    BY <1>3 DEF ParseFound, MinerEnded, history
  <2>2. round \in Round /\ round # Nobody
    BY <2>1 DEF TypeOK, Round, Nobody
  <2>3. Undisturbed(round) /\ round \in complete => found'
    <3>1. Undisturbed(round) /\ round \in complete => file.head = round
      BY <2>1
    <3> QED
      BY <1>3, <2>2, <3>1 DEF ParseFound
  <2> QED
    BY <2>1, <2>2, <2>3
<1>4. CASE ParseSolution
  <2>1. /\ pc = "parse" /\ pc' \in {"submit", "remove"}
        /\ UNCHANGED <<localTest, round, miner, file, attached, found, requests, complete, orphans,
                       killedIn>>
    BY <1>4 DEF ParseSolution, history
  <2>2. Undisturbed(round) /\ round \in complete =>
          /\ solution' = <<round, round>>
          /\ localTest = "false" => pc' = "submit"
    <3>1. Undisturbed(round) /\ round \in complete =>
            found /\ file.head = round /\ file.rest = round
      BY <2>1
    <3>2. round # Nobody
      BY <2>1 DEF TypeOK, Round, Nobody
    <3> QED
      BY <1>4, <3>1, <3>2 DEF ParseSolution
  <2>3. /\ \A r : Submitted(r)' = Submitted(r) /\ Undisturbed(r)' = Undisturbed(r)
        /\ \A r : Alive(r)' = Alive(r)
    BY <2>1 DEF Submitted, Undisturbed, Alive
  <2>4. ASSUME NEW r \in complete, Undisturbed(r), localTest = "false",
               r < round \/ pc' = "remove"
        PROVE  Submitted(r)
    <3>1. r = round \/ r < round
      BY <2>1, <2>4 DEF TypeOK, Round
    <3> QED
      BY <2>1, <2>2, <2>4, <3>1
  <2> QED
    BY <2>1, <2>2, <2>3, <2>4
<1>5. CASE Submit
  <2>1. /\ pc = "submit" /\ pc' = "remove"
        /\ UNCHANGED <<localTest, round, miner, file, attached, complete, orphans, killedIn>>
    BY <1>5 DEF Submit
  <2>2. \A r \in Round : Submitted(r) => Submitted(r)'
    BY <1>5, OneMoreRequest
  <2>3. solution = <<round, round>> => Submitted(round)'
    BY <1>5, <2>1, OneMoreRequest
  <2> QED
    BY <2>1, <2>2, <2>3, CompleteBegun
<1>6. CASE RemoveFile
  BY <1>6 DEF RemoveFile, history
<1>7. CASE KillAndRestart
  <2>1. /\ pc' = "top" /\ killedIn' = IF pc = "asleep" THEN killedIn ELSE killedIn \cup {round}
        /\ UNCHANGED <<localTest, round, miner, file, attached, requests, complete, orphans>>
    BY <1>7 DEF KillAndRestart
  <2>2. \A r \in Round : Alive(r) => r \in killedIn'
    BY <2>1
  <2> QED
    BY <2>1, <2>2, CompleteBegun
<1>8. ASSUME NEW r \in Round, MinerStep(r) PROVE ResultsKept'
  <2>1. /\ UNCHANGED <<localTest, pc, round, attached, found, solution, requests, orphans,
                       killedIn>>
        /\ Alive(r)
        /\ (r = round /\ pc = "wait") \/ r \in killedIn
    BY <1>8 DEF MinerStep, WriteHead, WriteRest, Timeout, TimeIsUp, history
  <2>2. \A q \in Round : Alive(q)' => Alive(q)
    BY <1>8 DEF MinerStep, WriteHead, WriteRest, Timeout, TypeOK
  <2>3. pc = "wait" /\ Undisturbed(round) /\ r \in attached => r = round
    BY <2>1 DEF FileExplained, WritersExplained, Writers
  <2>4. pc = "parse" /\ Undisturbed(round) => r \notin attached
    BY <2>1 DEF FileExplained, WritersExplained, Writers
  <2>5. CASE WriteHead(r)
    <3>1. /\ complete' = complete /\ miner[r] = "mining"
          /\ miner' = [miner EXCEPT ![r] = "half"]
          /\ file' = IF r \in attached THEN [file EXCEPT !.head = r] ELSE file
      BY <2>5 DEF WriteHead, history
    <3>2. \A q \in complete : q # r /\ q \in Round /\ miner'[q] = "ended"
      BY <3>1 DEF TypeOK
    <3>3. /\ r \in attached => file'.head = r /\ file'.rest = file.rest
          /\ r \notin attached => file' = file
      BY <3>1 DEF TypeOK
    <3>4. \A q \in Round \ {r} : miner'[q] = miner[q]
      BY <3>1 DEF TypeOK
    <3>5. pc \in {"wait", "parse"} /\ Undisturbed(round) =>
            /\ miner'[round] = "half" => file'.head = round
            /\ round \in complete => file'.head = round /\ file'.rest = round
      BY <2>1, <2>3, <2>4, <3>1, <3>2, <3>3, <3>4 DEF TypeOK
    <3> QED
      BY <2>1, <2>2, <3>1, <3>2, <3>5
  <2>6. CASE WriteRest(r)
    <3>1. /\ complete' = complete \cup {r} /\ miner[r] = "half"
          /\ miner' = [miner EXCEPT ![r] = "ended"]
          /\ file' = IF r \in attached THEN [file EXCEPT !.rest = r] ELSE file
      BY <2>6 DEF WriteRest
    <3>2. \A q \in complete' : q \in Round /\ miner'[q] = "ended"
      BY <3>1 DEF TypeOK
    <3>3. /\ r \in attached => file'.rest = r /\ file'.head = file.head
          /\ r \notin attached => file' = file
      BY <3>1 DEF TypeOK
    <3>4. \A q \in Round \ {r} : miner'[q] = miner[q]
      BY <3>1 DEF TypeOK
    <3>5. pc \in {"wait", "parse"} /\ Undisturbed(round) =>
            /\ miner'[round] = "half" => file'.head = round
            /\ round \in complete' => file'.head = round /\ file'.rest = round
      BY <2>1, <2>3, <2>4, <3>1, <3>2, <3>3, <3>4 DEF TypeOK
    <3>6. r \notin killedIn => r = round /\ pc = "wait"
      BY <2>1
    <3>7. \A q \in complete' :
            /\ Undisturbed(q)
            /\ localTest = "false"
            /\ q < round \/ pc \in {"remove", "top", "asleep"}
            => Submitted(q)
      <4> SUFFICES ASSUME NEW q \in complete', Undisturbed(q), localTest = "false",
                          q < round \/ pc \in {"remove", "top", "asleep"}
                   PROVE  Submitted(q)
        OBVIOUS
      <4>1. q # r
        BY <3>6 DEF TypeOK
      <4>2. q \in complete
        BY <3>1, <4>1
      <4> QED
        BY <4>2
    <3>8. pc \in {"parse", "submit"} /\ Undisturbed(round) /\ round \in complete' =>
            round \in complete
      BY <3>1, <3>6
    <3> QED
      BY <2>1, <2>2, <3>1, <3>2, <3>5, <3>7, <3>8
  <2>7. CASE Timeout(r)
    BY <2>1, <2>7 DEF Timeout, TypeOK, history
  <2> QED
    BY <1>8, <2>5, <2>6, <2>7 DEF MinerStep
<1>9. CASE UNCHANGED vars
  BY <1>9 DEF vars, history
<1> QED
  BY <1>1, <1>2, <1>3, <1>4, <1>5, <1>6, <1>7, <1>8, <1>9
     DEF Next, ScriptStep, Terminating

-----------------------------------------------------------------------------
\* The invariant of mine.sh holds throughout,
LEMMA Invariance == ScriptAssumption => (Spec => []IInv)
<1> SUFFICES ASSUME ScriptAssumption PROVE Spec => []IInv
  OBVIOUS
<1>1. Init => IInv
  <2> SUFFICES ASSUME Init PROVE IInv
    OBVIOUS
  <2>1. TypeOK
    BY TypeInit
  <2>2. FileExplained /\ ResultsFresh /\ ResultsKept
    BY DEF Init, NoFile, FileExplained, WritersExplained, HalvesExplained,
           ResultsFresh, SubmittedOnce, Fresh, ResultsKept, Alive, Nobody
  <2> QED
    BY <2>1, <2>2 DEF IInv
<1>2. IInv /\ [Next]_vars => IInv'
  BY TypeStep, ExplainedStep, FreshStep, KeptStep DEF IInv
<1> QED
  BY <1>1, <1>2, PTL DEF Spec

\* What mine.sh submits was written by the miner of the very round or by those
\* of killed scripts that were still writing when the round began: nothing is
\* left over from an earlier round's file.
THEOREM SubmissionIsExplained == ScriptAssumption => (Spec => []SubmissionExplained)
<1> SUFFICES ASSUME ScriptAssumption PROVE Spec => []SubmissionExplained
  OBVIOUS
<1>1. IInv => SubmissionExplained
  BY DEF IInv, FileExplained, Writers, SubmissionExplained
<1> QED
  BY <1>1, Invariance, PTL

\* No solution is submitted twice, however often mine.sh is killed and started.
THEOREM SubmissionIsNew == ScriptAssumption => (Spec => []SubmittedOnce)
<1> SUFFICES ASSUME ScriptAssumption PROVE Spec => []SubmittedOnce
  OBVIOUS
<1>1. IInv => SubmittedOnce
  BY DEF IInv, ResultsFresh
<1> QED
  BY <1>1, Invariance, PTL

\* A result that the round's miner wrote whole is submitted before the next
\* round, unless an orphan or a kill disturbed the round.
THEOREM ResultIsSubmitted == ScriptAssumption => (Spec => []WholeResultSubmitted)
<1> SUFFICES ASSUME ScriptAssumption PROVE Spec => []WholeResultSubmitted
  OBVIOUS
<1>1. IInv => WholeResultSubmitted
  BY DEF IInv, ResultsKept, Undisturbed, Submitted, WholeResultSubmitted
<1> QED
  BY <1>1, Invariance, PTL

-----------------------------------------------------------------------------
(***************************************************************************)
(* miner_openblas.py                                                       *)
(***************************************************************************)
InputOK ==
  /\ bits \in [Py!Nonces -> 0 .. MaxBits]
  /\ difficulty \in 0 .. MaxBits

\* The nonces tried are all below the difficulty, and the best of them is.
SearchOK ==
  pc = "hash" =>
    /\ nonce \in 0 .. MaxIterations
    /\ bestBits \in 0 .. MaxBits
    /\ difficulty > 0 => /\ bestBits < difficulty
                         /\ \A n \in Py!Nonces : n < nonce => bits[n] < difficulty

SearchInv == InputOK /\ SearchOK /\ Py!FirstSolutionReturned

\* A search that has not found anything yet goes on, or finds the first.
LEMMA HashStep ==
  ASSUME Py!PyMinerAssumption, SearchInv, Py!HashNonce
  PROVE  SearchOK' /\ Py!FirstSolutionReturned'
<1> DEFINE b == bits[nonce]
<1>1. /\ pc = "hash" /\ nonce < MaxIterations /\ UNCHANGED <<bits, difficulty>>
      /\ bestBits' = IF b > bestBits THEN b ELSE bestBits
      /\ \/ /\ b > bestBits /\ b >= difficulty /\ pc' = "after"
            /\ result' = [success |-> TRUE, nonce |-> nonce, bits |-> b] /\ nonce' = nonce
         \/ /\ ~(b > bestBits /\ b >= difficulty)
            /\ nonce' = nonce + 1 /\ pc' = pc
  BY DEF Py!HashNonce, Py!input
<1>2. /\ nonce \in Py!Nonces /\ nonce \in Nat /\ bestBits \in Nat /\ MaxBits \in Nat
      /\ MaxIterations \in Nat /\ b \in 0 .. MaxBits /\ difficulty \in Nat
      /\ bestBits \in 0 .. MaxBits
      /\ difficulty > 0 => /\ bestBits < difficulty
                           /\ \A n \in Py!Nonces : n < nonce => bits[n] < difficulty
  BY <1>1 DEF SearchInv, InputOK, SearchOK, Py!Nonces, Py!PyMinerAssumption
<1>3. CASE b > bestBits /\ b >= difficulty
  <2>1. pc' = "after" /\ result'.success = TRUE /\ result'.nonce = nonce
    BY <1>1, <1>3
  <2>2. ASSUME difficulty > 0 PROVE Py!Min(Py!Solutions) = nonce /\ Py!Solutions # {}
    <3>1. nonce \in Py!Solutions
      BY <1>2, <1>3 DEF Py!Solutions
    <3>2. \A n \in Py!Solutions : n \in Nat /\ nonce <= n
      BY <1>2, <2>2 DEF Py!Solutions, Py!Nonces, InputOK, SearchInv
    <3>3. \A x \in Py!Solutions : (\A y \in Py!Solutions : x <= y) => x = nonce
      BY <1>2, <3>1, <3>2
    <3>4. (CHOOSE x \in Py!Solutions : \A y \in Py!Solutions : x <= y) = nonce
      BY <3>1, <3>2, <3>3
    <3> QED
      BY <3>1, <3>4 DEF Py!Min
  <2> QED
    BY <1>1, <2>1, <2>2 DEF SearchOK, Py!FirstSolutionReturned, Py!Solutions
<1>4. CASE ~(b > bestBits /\ b >= difficulty)
  <2>1. nonce' = nonce + 1 /\ pc' = "hash"
    BY <1>1, <1>4
  <2>2. nonce' \in 0 .. MaxIterations /\ bestBits' \in 0 .. MaxBits
    BY <1>1, <1>2, <2>1
  <2>3. ASSUME difficulty > 0 PROVE b < difficulty /\ bestBits' < difficulty
    BY <1>1, <1>2, <1>4, <2>3
  <2>4. ASSUME difficulty > 0, NEW n \in Py!Nonces, n < nonce' PROVE bits[n] < difficulty
    <3>1. n < nonce \/ n = nonce
      BY <1>2, <2>1, <2>4 DEF Py!Nonces
    <3> QED
      BY <1>2, <2>3, <2>4, <3>1
  <2> QED
    BY <1>1, <2>1, <2>2, <2>3, <2>4 DEF SearchOK, Py!FirstSolutionReturned
<1> QED
  BY <1>3, <1>4

\* A search that has tried everything has missed nothing.
LEMMA ExhaustedStep ==
  ASSUME Py!PyMinerAssumption, SearchInv, Py!Exhausted
  PROVE  SearchOK' /\ Py!FirstSolutionReturned'
<1>1. /\ pc = "hash" /\ nonce >= MaxIterations /\ UNCHANGED <<bits, difficulty>>
      /\ pc' = "after" /\ result'.success = FALSE
  BY DEF Py!Exhausted, Py!input
<1>2. difficulty > 0 => Py!Solutions = {}
  <2> SUFFICES ASSUME difficulty > 0, NEW n \in Py!Solutions PROVE FALSE
    OBVIOUS
  <2>1. n \in Py!Nonces /\ n < nonce /\ bits[n] >= difficulty
    BY <1>1 DEF Py!Solutions, Py!Nonces, SearchInv, SearchOK, Py!PyMinerAssumption
  <2>2. bits[n] < difficulty /\ bits[n] \in Nat /\ difficulty \in Nat
    BY <1>1, <2>1 DEF SearchInv, SearchOK, InputOK, Py!PyMinerAssumption
  <2> QED
    BY <2>1, <2>2
<1> QED
  BY <1>1, <1>2 DEF SearchOK, Py!FirstSolutionReturned, Py!Solutions

\* The invariant of the search of miner_openblas.py holds throughout.
LEMMA SearchInvariance == Py!PyMinerAssumption => (Py!Spec => []SearchInv)
<1> SUFFICES ASSUME Py!PyMinerAssumption PROVE Py!Spec => []SearchInv
  OBVIOUS
<1>1. Py!Init => SearchInv
  BY DEF Py!Init, SearchInv, InputOK, SearchOK, Py!FirstSolutionReturned,
         Py!PyMinerAssumption
<1>2. SearchInv /\ [Py!Next]_(Py!vars) => SearchInv'
  <2> SUFFICES ASSUME SearchInv, [Py!Next]_(Py!vars) PROVE SearchInv'
    OBVIOUS
  <2>1. CASE Py!FetchSeed
    BY <2>1 DEF Py!FetchSeed, SearchInv, InputOK, SearchOK, Py!FirstSolutionReturned
  <2>2. CASE Py!FetchDifficulty
    BY <2>2 DEF Py!FetchDifficulty, SearchInv, InputOK, SearchOK,
                Py!FirstSolutionReturned
  <2>3. CASE Py!ComputeProduct
    BY <2>3 DEF Py!ComputeProduct, Py!SearchStart, SearchInv, InputOK, SearchOK,
                Py!FirstSolutionReturned, Py!input, Py!PyMinerAssumption, Py!Nonces
  <2>4. CASE Py!HashNonce
    <3>1. InputOK'
      BY <2>4 DEF Py!HashNonce, Py!input, SearchInv, InputOK
    <3> QED
      BY <2>4, <3>1, HashStep DEF SearchInv
  <2>5. CASE Py!Exhausted
    <3>1. InputOK'
      BY <2>5 DEF Py!Exhausted, Py!input, SearchInv, InputOK
    <3> QED
      BY <2>5, <3>1, ExhaustedStep DEF SearchInv
  <2>6. ASSUME UNCHANGED Py!input, pc' \notin {"hash", "after"} PROVE SearchInv'
    BY <2>6 DEF SearchInv, InputOK, SearchOK, Py!FirstSolutionReturned, Py!input
  <2>7. CASE UNCHANGED Py!vars
    BY <2>7 DEF Py!vars, Py!input, Py!search, Py!history, SearchInv, InputOK,
                SearchOK, Py!FirstSolutionReturned, Py!Solutions
  <2>8. CASE Py!RequestFails \/ Py!ExactSearch \/ Py!DeviceFails \/ Py!PackFails \/ Py!SubmitFails
    BY <2>6, <2>8 DEF Py!RequestFails, Py!ExactSearch, Py!DeviceFails, Py!PackFails,
                      Py!SubmitFails, Py!Raise
  <2>9. CASE Py!Validate \/ Py!OpenDevice \/ Py!FinishRound \/ Py!Report \/ Py!Sleep \/ Py!PrintResult
    BY <2>6, <2>9 DEF Py!Validate, Py!OpenDevice, Py!FinishRound, Py!NextRound,
                      Py!Report, Py!Sleep, Py!PrintResult
  <2>10. CASE Py!Interrupt
    BY <2>6, <2>10 DEF Py!Interrupt
  <2> QED
    BY <2>1, <2>2, <2>3, <2>4, <2>5, <2>7, <2>8, <2>9, <2>10
       DEF Py!Next, Py!Step, Py!Terminating
<1> QED
  BY <1>1, <1>2, PTL DEF Py!Spec

\* The fast search returns the first nonce that meets the difficulty, and
\* fails only when there is none (miner_openblas.py:302-343).
THEOREM FirstIsFound == Py!PyMinerAssumption => (Py!Spec => []Py!FirstSolutionReturned)
<1>1. SearchInv => Py!FirstSolutionReturned
  BY DEF SearchInv
<1> QED
  BY <1>1, SearchInvariance, PTL

\* The accelerator is open between rounds only after an exception or Ctrl-C
\* with the device open (miner_openblas.py:277-338, 511-513).
THEOREM DeviceIsReturned == Py!Spec => []Py!DeviceReturned
<1>1. Py!Init => Py!DeviceReturned
  BY DEF Py!Init, Py!DeviceReturned
<1>2. Py!DeviceReturned /\ [Py!Next]_(Py!vars) => Py!DeviceReturned'
  <2> SUFFICES ASSUME Py!DeviceReturned, [Py!Next]_(Py!vars) PROVE Py!DeviceReturned'
    OBVIOUS
  <2>1. CASE UNCHANGED Py!vars
    BY <2>1 DEF Py!vars, Py!history, Py!DeviceReturned
  <2>2. CASE Py!RequestFails \/ Py!ExactSearch \/ Py!DeviceFails \/ Py!PackFails \/ Py!SubmitFails
    BY <2>2 DEF Py!RequestFails, Py!ExactSearch, Py!DeviceFails, Py!PackFails,
                Py!SubmitFails, Py!Raise, Py!DeviceReturned
  <2>3. CASE Py!FetchSeed \/ Py!FetchDifficulty \/ Py!Validate \/ Py!FinishRound \/ Py!Sleep \/ Py!PrintResult
    BY <2>3 DEF Py!FetchSeed, Py!FetchDifficulty, Py!Validate, Py!FinishRound,
                Py!NextRound, Py!Sleep, Py!PrintResult, Py!history,
                Py!DeviceReturned
  <2>4. CASE Py!OpenDevice \/ Py!ComputeProduct \/ Py!HashNonce \/ Py!Exhausted \/ Py!Report
    BY <2>4 DEF Py!OpenDevice, Py!ComputeProduct, Py!HashNonce, Py!CloseDevice,
                Py!Exhausted, Py!Report, Py!history, Py!DeviceReturned
  <2>5. CASE Py!Interrupt
    BY <2>5 DEF Py!Interrupt, Py!DeviceReturned
  <2> QED
    BY <2>1, <2>2, <2>3, <2>4, <2>5 DEF Py!Next, Py!Step, Py!Terminating
<1> QED
  BY <1>1, <1>2, PTL DEF Py!Spec

-----------------------------------------------------------------------------
(***************************************************************************)
(* merkle_prove.sh                                                         *)
(***************************************************************************)
Work == [seed : BOOLEAN, index : Nat \cup {None}, size : Nat \cup {None}]
Answer == [status : {"success"}, seed : Nat, size : Nat, leaf : Nat]

ServiceTypeOK ==
  /\ localTest \in {"true", "false", "other"}
  /\ pc \in {"top", "prove", "report", "sleep", "exited"}
  /\ round \in Nat
  /\ treeSize \in Nat
  /\ proofIndex \in Nat
  /\ initialSize \in Nat
  /\ heard \in Seq(Work)
  /\ Len(heard) = round
  /\ submitted \in Seq(Answer)

Named(r) == {k \in 1 .. r : heard[k].size # None}
HasLast(r) == \E k \in Named(r) : \A j \in Named(r) : j <= k

SizesOK ==
  /\ \A r \in 0 .. round : Named(r) = {} \/ HasLast(r)
  /\ treeSize = Merkle!SizeInForce(round)

\* The proof of a round's leaf, and whether the round deserves an answer.
LeafOf(r) == Merkle!LeafAskedFor(r) % Merkle!SizeInForce(r)
ProofOf(r) ==
  IF Merkle!SizeInForce(r) = 0 THEN Merkle!NoResult
  ELSE [status |-> IF Merkle!Verifies(Merkle!SizeInForce(r), LeafOf(r)) THEN "success" ELSE "failure",
        seed   |-> r,
        size   |-> Merkle!SizeInForce(r),
        leaf   |-> LeafOf(r)]
Provable(r) ==
  localTest = "false" /\ heard[r].seed /\ Merkle!Verifies(Merkle!SizeInForce(r), LeafOf(r))

RoundOK ==
  /\ pc \in {"prove", "report"} => round >= 1 /\ heard[round].seed
  /\ pc = "prove" /\ localTest # "true" => proofIndex = Merkle!LeafAskedFor(round)
  /\ pc = "report" /\ localTest # "true" => result = ProofOf(round)

Settled(r) == r < round \/ pc \notin {"prove", "report"}

Answered(r) == \E k \in 1 .. Len(submitted) : submitted[k].seed = r

AnswersOK ==
  /\ \A k \in 1 .. Len(submitted) :
       LET r == submitted[k].seed
       IN  r \in 1 .. round /\ Settled(r) /\ Provable(r) /\ submitted[k] = ProofOf(r)
  /\ \A j, k \in 1 .. Len(submitted) : submitted[j].seed = submitted[k].seed => j = k
  /\ \A r \in 1 .. round : Settled(r) /\ Provable(r) => Answered(r)

ServiceInv == ServiceTypeOK /\ SizesOK /\ RoundOK /\ AnswersOK

-----------------------------------------------------------------------------
(***************************************************************************)
(* The size in force.                                                      *)
(***************************************************************************)
\* What has been heard stands.
LEMMA HeardStays ==
  ASSUME UNCHANGED <<heard, initialSize>>
  PROVE  /\ \A r : Merkle!SizeInForce(r)' = Merkle!SizeInForce(r) /\ Merkle!LeafAskedFor(r)' = Merkle!LeafAskedFor(r)
         /\ \A r : LeafOf(r)' = LeafOf(r) /\ ProofOf(r)' = ProofOf(r)
         /\ \A r : Named(r)' = Named(r) /\ HasLast(r)' = HasLast(r)
<1>1. \A r : Merkle!SizeInForce(r)' = Merkle!SizeInForce(r) /\ Merkle!LeafAskedFor(r)' = Merkle!LeafAskedFor(r)
  BY DEF Merkle!SizeInForce, Merkle!LeafAskedFor
<1>2. \A r : LeafOf(r)' = LeafOf(r)
  BY <1>1 DEF LeafOf
<1>3. \A r : ProofOf(r)' = ProofOf(r)
  BY <1>1, <1>2 DEF ProofOf
<1>4. \A r : Named(r)' = Named(r) /\ HasLast(r)' = HasLast(r)
  BY DEF Named, HasLast
<1> QED
  BY <1>1, <1>2, <1>3, <1>4

\* The size in force is one that was named, or the first.
LEMMA SizeIsNat ==
  ASSUME ServiceTypeOK, SizesOK, NEW r \in 0 .. round
  PROVE  Merkle!SizeInForce(r) \in Nat
<1>1. CASE Named(r) = {}
  BY <1>1 DEF Merkle!SizeInForce, Named, ServiceTypeOK
<1>2. CASE Named(r) # {}
  <2>1. HasLast(r)
    BY <1>2 DEF SizesOK
  <2> DEFINE last == CHOOSE k \in Named(r) : \A j \in Named(r) : j <= k
  <2>2. last \in Named(r)
    BY <2>1 DEF HasLast
  <2>3. Merkle!SizeInForce(r) = heard[last].size
    BY <1>2 DEF Merkle!SizeInForce, Named
  <2> HIDE DEF last
  <2>4. last \in 1 .. Len(heard) /\ heard[last].size # None
    BY <2>2 DEF Named, ServiceTypeOK
  <2>5. heard[last] \in Work
    BY <2>4, ElementOfSeq DEF ServiceTypeOK
  <2> QED
    BY <2>3, <2>4, <2>5 DEF Work
<1> QED
  BY <1>1, <1>2

\* The leaf that a round asks for is a number.
LEMMA LeafIsNat ==
  ASSUME ServiceTypeOK, NEW r \in 1 .. round
  PROVE  Merkle!LeafAskedFor(r) \in Nat
<1>1. heard[r] \in Work
  BY ElementOfSeq DEF ServiceTypeOK
<1> QED
  BY <1>1 DEF Merkle!LeafAskedFor, Work

\* A workload more changes nothing for the rounds before it.
LEMMA HeardGrows ==
  ASSUME ServiceTypeOK, SizesOK, NEW w \in Work, heard' = Append(heard, w),
         UNCHANGED initialSize
  PROVE  /\ heard' \in Seq(Work) /\ Len(heard') = round + 1 /\ heard'[round + 1] = w
         /\ \A r \in 1 .. round : heard'[r] = heard[r]
         /\ \A r \in 0 .. round : /\ Merkle!SizeInForce(r)' = Merkle!SizeInForce(r)
                                  /\ Named(r)' = Named(r) /\ HasLast(r)' = HasLast(r)
         /\ \A r \in 1 .. round : Merkle!LeafAskedFor(r)' = Merkle!LeafAskedFor(r)
         /\ \A r \in 1 .. round : LeafOf(r)' = LeafOf(r) /\ ProofOf(r)' = ProofOf(r)
<1>1. /\ heard' \in Seq(Work) /\ Len(heard') = round + 1 /\ heard'[round + 1] = w
      /\ \A r \in 1 .. round : heard'[r] = heard[r]
  BY AppendProperties DEF ServiceTypeOK
<1>2. ASSUME NEW r \in 0 .. round
      PROVE  /\ Named(r)' = Named(r) /\ HasLast(r)' = HasLast(r)
             /\ Merkle!SizeInForce(r)' = Merkle!SizeInForce(r)
  <2>1. Named(r)' = Named(r)
    BY <1>1 DEF Named, ServiceTypeOK
  <2>2. HasLast(r)' = HasLast(r)
    BY <2>1 DEF HasLast
  <2>3. Merkle!SizeInForce(r)' = Merkle!SizeInForce(r)
    <3>1. CASE Named(r) = {}
      BY <2>1, <3>1 DEF Merkle!SizeInForce, Named
    <3>2. CASE Named(r) # {}
      <4> DEFINE last == CHOOSE k \in Named(r) : \A j \in Named(r) : j <= k
      <4>1. last \in Named(r)
        BY <3>2 DEF HasLast, SizesOK
      <4>2. Merkle!SizeInForce(r) = heard[last].size
        BY <3>2 DEF Merkle!SizeInForce, Named
      <4>3. last' = last
        BY <2>1
      <4>4. Merkle!SizeInForce(r)' = heard'[last].size
        <5>1. Merkle!SizeInForce(r)' = heard'[last'].size
          BY <2>1, <3>2 DEF Merkle!SizeInForce, Named
        <5> QED
          BY <4>3, <5>1
      <4>5. last \in 1 .. round
        <5> HIDE DEF last
        <5> QED
          BY <4>1 DEF Named, ServiceTypeOK
      <4> HIDE DEF last
      <4> QED
        BY <1>1, <4>2, <4>4, <4>5
    <3> QED
      BY <3>1, <3>2
  <2> QED
    BY <2>1, <2>2, <2>3
<1>3. ASSUME NEW r \in 1 .. round PROVE Merkle!LeafAskedFor(r)' = Merkle!LeafAskedFor(r)
  BY <1>1 DEF Merkle!LeafAskedFor
<1>4. ASSUME NEW r \in 1 .. round PROVE LeafOf(r)' = LeafOf(r) /\ ProofOf(r)' = ProofOf(r)
  <2>1. r \in 0 .. round
    BY DEF ServiceTypeOK
  <2>2. LeafOf(r)' = LeafOf(r)
    BY <1>2, <1>3, <2>1 DEF LeafOf
  <2> QED
    BY <1>2, <2>1, <2>2 DEF ProofOf
<1> QED
  BY <1>1, <1>2, <1>3, <1>4

\* A workload more names the size in force, or leaves it.
LEMMA SizeGrows ==
  ASSUME ServiceTypeOK, SizesOK, NEW w \in Work, heard' = Append(heard, w),
         UNCHANGED initialSize, NEW n, n = round + 1
  PROVE  /\ Merkle!SizeInForce(n)' = IF w.size = None THEN Merkle!SizeInForce(round) ELSE w.size
         /\ (Named(n) = {} \/ HasLast(n))'
<1>0. PICK m : m = round
  OBVIOUS
<1>1. /\ heard'[n] = w /\ m \in Nat /\ n = m + 1 /\ Named(m)' = Named(m)
      /\ (Named(m) = {} \/ HasLast(m)) /\ Merkle!SizeInForce(m)' = Merkle!SizeInForce(m)
      /\ HasLast(m)' = HasLast(m)
  BY <1>0, HeardGrows DEF ServiceTypeOK, SizesOK
<1>2. CASE w.size = None
  <2>1. Named(n)' = Named(m)'
    <3>1. n \in Nat /\ m \in Nat /\ n = m + 1 /\ heard'[n].size = None
      BY <1>1, <1>2
    <3>2. \A k : k \in 1 .. n <=> k \in 1 .. m \/ k = n
      BY <3>1
    <3> QED
      BY <3>1, <3>2 DEF Named
  <2>2. Merkle!SizeInForce(n)' = Merkle!SizeInForce(m)'
    <3> DEFINE SizeAmong(S) ==
          IF S = {} THEN initialSize'
          ELSE heard'[CHOOSE k \in S : \A j \in S : j <= k].size
    <3>1. Merkle!SizeInForce(n)' = SizeAmong(Named(n)') /\ Merkle!SizeInForce(m)' = SizeAmong(Named(m)')
      BY DEF Merkle!SizeInForce, Named
    <3> HIDE DEF SizeAmong
    <3> QED
      BY <2>1, <3>1
  <2>3. HasLast(n)' = HasLast(m)'
    BY <2>1 DEF HasLast
  <2> QED
    BY <1>0, <1>1, <1>2, <2>1, <2>2, <2>3
<1>3. CASE w.size # None
  <2>1. n \in Named(n)' /\ \A j \in Named(n)' : j \in Nat /\ j <= n
    <3>1. n \in 1 .. n /\ heard'[n].size # None
      BY <1>1, <1>3
    <3>2. \A k \in 1 .. n : k \in Nat /\ k <= n
      BY <1>1
    <3> QED
      BY <3>1, <3>2 DEF Named
  <2>2. (CHOOSE k \in Named(n)' : \A j \in Named(n)' : j <= k) = n
    <3> SUFFICES ASSUME NEW k \in Named(n)', \A j \in Named(n)' : j <= k
                 PROVE  k = n
      BY <2>1
    <3> QED
      BY <1>1, <2>1
  <2>3. Merkle!SizeInForce(n)' = heard'[n].size
    <3>1. Merkle!SizeInForce(n)' = heard'[CHOOSE k \in Named(n)' : \A j \in Named(n)' : j <= k].size
      BY <2>1 DEF Merkle!SizeInForce, Named
    <3> QED
      BY <2>2, <3>1
  <2>4. HasLast(n)'
    BY <2>1 DEF HasLast
  <2> QED
    BY <1>1, <1>3, <2>3, <2>4
<1> QED
  BY <1>2, <1>3

-----------------------------------------------------------------------------
(***************************************************************************)
(* The invariant is inductive.                                             *)
(***************************************************************************)
\* A step that hears nothing, sends nothing and settles only a round that
\* deserves no answer
LEMMA NothingSent ==
  ASSUME ServiceInv, UNCHANGED <<localTest, round, treeSize, heard, submitted, initialSize>>,
         \A r \in 1 .. round : Settled(r) => Settled(r)',
         \A r \in 1 .. round : Settled(r)' => Settled(r) \/ ~Provable(r)
  PROVE  SizesOK' /\ AnswersOK'
<1>1. /\ \A r : Merkle!SizeInForce(r)' = Merkle!SizeInForce(r) /\ ProofOf(r)' = ProofOf(r)
      /\ \A r : Named(r)' = Named(r) /\ HasLast(r)' = HasLast(r)
      /\ \A r : Provable(r)' = Provable(r)
      /\ \A r : Answered(r)' = Answered(r)
  BY HeardStays DEF Provable, Answered
<1>2. SizesOK'
  <2>1. PICK m : m = round /\ m = round'
    OBVIOUS
  <2> QED
    BY <1>1, <2>1 DEF ServiceInv, SizesOK
<1>3. AnswersOK'
  BY <1>1 DEF ServiceInv, AnswersOK
<1> QED
  BY <1>2, <1>3

\* A round begins with a workload.
LEMMA RoundBegins ==
  ASSUME ServiceInv, pc = "top", NEW w \in Work, heard' = Append(heard, w),
         round' = round + 1, treeSize' = Merkle!SizeOf(w),
         UNCHANGED <<localTest, submitted, initialSize>>,
         pc' = IF w.seed THEN "prove" ELSE "sleep"
  PROVE  SizesOK' /\ AnswersOK'
<1>0. PICK m, n : m = round /\ n = round'
  OBVIOUS
<1>1. /\ m \in Nat /\ n = m + 1 /\ heard'[n] = w
      /\ \A r \in 1 .. m : heard'[r] = heard[r]
      /\ \A r \in 0 .. m : /\ Merkle!SizeInForce(r)' = Merkle!SizeInForce(r)
                          /\ Named(r)' = Named(r) /\ HasLast(r)' = HasLast(r)
      /\ \A r \in 1 .. m : LeafOf(r)' = LeafOf(r) /\ ProofOf(r)' = ProofOf(r)
  BY <1>0, HeardGrows DEF ServiceInv, ServiceTypeOK
<1>2. /\ Merkle!SizeInForce(n)' = IF w.size = None THEN Merkle!SizeInForce(round) ELSE w.size
      /\ (Named(n) = {} \/ HasLast(n))'
  BY <1>0, SizeGrows DEF ServiceInv
<1>3. SizesOK'
  <2>1. treeSize' = Merkle!SizeInForce(n)'
    BY <1>2 DEF ServiceInv, SizesOK, Merkle!SizeOf
  <2>2. ASSUME NEW r \in 0 .. n PROVE (Named(r) = {} \/ HasLast(r))'
    <3>1. CASE r \in 0 .. m
      BY <1>0, <1>1, <3>1 DEF ServiceInv, SizesOK
    <3>2. CASE r = n
      BY <1>2, <3>2
    <3> QED
      BY <1>1, <3>1, <3>2
  <2> QED
    BY <1>0, <2>1, <2>2 DEF SizesOK
<1>4. AnswersOK'
  <2>1. ASSUME NEW r \in 1 .. m
        PROVE  /\ Settled(r) /\ Settled(r)' /\ Provable(r)' = Provable(r)
               /\ Answered(r)' = Answered(r) /\ ProofOf(r)' = ProofOf(r)
    <3>1. r \in 0 .. m /\ r < n
      BY <1>1
    <3> QED
      BY <1>0, <1>1, <3>1 DEF Settled, Provable, Answered
  <2>2. ~(Settled(n) /\ Provable(n))'
    BY <1>0, <1>1 DEF Settled, Provable
  <2>3. ASSUME NEW r \in 1 .. n, (Settled(r) /\ Provable(r))' PROVE Answered(r)'
    <3>1. r \in 1 .. m
      BY <1>1, <2>2, <2>3
    <3> QED
      BY <1>0, <2>1, <2>3, <3>1 DEF ServiceInv, AnswersOK
  <2>4. ASSUME NEW k \in 1 .. Len(submitted), NEW r, r = submitted[k].seed
        PROVE  r \in 1 .. n /\ Settled(r)' /\ Provable(r)' /\ submitted[k] = ProofOf(r)'
    <3>1. r \in 1 .. m /\ Provable(r) /\ submitted[k] = ProofOf(r)
      BY <1>0, <2>4 DEF ServiceInv, AnswersOK
    <3> QED
      BY <1>1, <2>1, <3>1
  <2> QED
    BY <1>0, <2>3, <2>4 DEF ServiceInv, AnswersOK
<1> QED
  BY <1>3, <1>4

\* A proof that verifies is sent, and its round is settled.
LEMMA AnswerSent ==
  ASSUME ServiceInv, pc = "report", localTest = "false", result.status = "success",
         submitted' = Append(submitted, result), pc' = "sleep",
         UNCHANGED <<localTest, round, treeSize, heard, initialSize>>
  PROVE  SizesOK' /\ AnswersOK' /\ submitted' \in Seq(Answer)
<1>0. PICK m : m = round /\ m = round'
  OBVIOUS
<1>1. /\ \A r : Merkle!SizeInForce(r)' = Merkle!SizeInForce(r) /\ ProofOf(r)' = ProofOf(r)
      /\ \A r : Named(r)' = Named(r) /\ HasLast(r)' = HasLast(r)
      /\ \A r : Provable(r)' = Provable(r)
  BY HeardStays DEF Provable
<1>2. /\ m \in Nat /\ m >= 1 /\ heard[m].seed /\ result = ProofOf(m)
      /\ submitted \in Seq(Answer)
  BY <1>0 DEF ServiceInv, RoundOK, ServiceTypeOK
<1>3. /\ Merkle!SizeInForce(m) # 0 /\ Merkle!Verifies(Merkle!SizeInForce(m), LeafOf(m))
      /\ result = [status |-> "success", seed |-> m, size |-> Merkle!SizeInForce(m),
                  leaf |-> LeafOf(m)]
  BY <1>2 DEF ProofOf, Merkle!NoResult
<1>4. Provable(m)
  BY <1>2, <1>3 DEF Provable
<1>5. Merkle!SizeInForce(m) \in Nat /\ LeafOf(m) \in Nat
  <2>1. Merkle!SizeInForce(m) \in Nat
    BY <1>0, <1>2, SizeIsNat DEF ServiceInv, ServiceTypeOK
  <2>2. Merkle!LeafAskedFor(m) \in Nat
    BY <1>0, <1>2, LeafIsNat DEF ServiceInv
  <2> QED
    BY <1>3, <2>1, <2>2, SMT DEF LeafOf
<1>6. result \in Answer
  BY <1>2, <1>3, <1>5 DEF Answer
<1>7. /\ submitted' \in Seq(Answer) /\ Len(submitted') = Len(submitted) + 1
      /\ Len(submitted) \in Nat /\ submitted'[Len(submitted) + 1] = result
      /\ \A k \in 1 .. Len(submitted) : submitted'[k] = submitted[k]
  BY <1>2, <1>6, AppendProperties, LenProperties
<1>8. ASSUME NEW k \in 1 .. Len(submitted), NEW r, r = submitted[k].seed
      PROVE  r \in 1 .. m /\ r < m /\ Provable(r) /\ submitted[k] = ProofOf(r)
  BY <1>0, <1>2, <1>8 DEF ServiceInv, AnswersOK, Settled
<1>9. SizesOK'
  BY <1>0, <1>1 DEF ServiceInv, SizesOK
<1>10. AnswersOK'
  <2>1. \A r \in 1 .. m : Settled(r)'
    BY DEF Settled
  <2>2. ASSUME NEW k \in 1 .. Len(submitted) + 1, NEW r, r = submitted'[k].seed
        PROVE  r \in 1 .. m /\ Settled(r)' /\ Provable(r)' /\ submitted'[k] = ProofOf(r)'
    <3>1. CASE k \in 1 .. Len(submitted)
      <4>1. submitted'[k] = submitted[k]
        BY <1>7, <3>1
      <4>2. r \in 1 .. m /\ Provable(r) /\ submitted[k] = ProofOf(r)
        BY <1>8, <2>2, <3>1, <4>1
      <4> QED
        BY <1>1, <2>1, <4>1, <4>2
    <3>2. CASE k = Len(submitted) + 1
      <4>1. r = m /\ submitted'[k] = ProofOf(m)
        BY <1>2, <1>3, <1>7, <2>2, <3>2
      <4> QED
        BY <1>1, <1>2, <1>4, <2>1, <4>1
    <3> QED
      BY <1>7, <3>1, <3>2
  <2>3. ASSUME NEW j \in 1 .. Len(submitted) + 1, NEW k \in 1 .. Len(submitted) + 1,
               submitted'[j].seed = submitted'[k].seed
        PROVE  j = k
    <3>1. submitted'[Len(submitted) + 1].seed = m
      BY <1>3, <1>7
    <3>2. \A i \in 1 .. Len(submitted) : submitted'[i].seed = submitted[i].seed
      BY <1>7
    <3>3. \A i \in 1 .. Len(submitted) : submitted[i].seed # m
      BY <1>2, <1>8
    <3>4. CASE j \in 1 .. Len(submitted) /\ k \in 1 .. Len(submitted)
      BY <2>3, <3>2, <3>4 DEF ServiceInv, AnswersOK
    <3>5. CASE j = Len(submitted) + 1 \/ k = Len(submitted) + 1
      BY <1>7, <2>3, <3>1, <3>2, <3>3, <3>5
    <3> QED
      BY <1>7, <3>4, <3>5
  <2>4. ASSUME NEW r \in 1 .. m, Provable(r)' PROVE Answered(r)'
    <3>1. CASE r = m
      BY <1>3, <1>7, <3>1 DEF Answered
    <3>2. CASE r < m
      <4>1. Answered(r)
        BY <1>0, <1>1, <2>4, <3>2 DEF ServiceInv, AnswersOK, Settled
      <4> QED
        BY <1>7, <4>1 DEF Answered
    <3> QED
      BY <1>2, <3>1, <3>2
  <2> QED
    BY <1>0, <1>7, <2>2, <2>3, <2>4 DEF AnswersOK
<1> QED
  BY <1>7, <1>9, <1>10

\* The invariant holds at first.
LEMMA ServiceBegins == Merkle!ServiceAssumption /\ Merkle!Init => ServiceInv
<1> SUFFICES ASSUME Merkle!ServiceAssumption, Merkle!Init PROVE ServiceInv
  OBVIOUS
<1>1. ServiceTypeOK
  BY EmptySeq DEF Merkle!Init, ServiceTypeOK, Merkle!ServiceAssumption
<1>2. SizesOK
  <2>1. Named(0) = {} /\ round = 0
    BY DEF Merkle!Init, Named
  <2>2. Merkle!SizeInForce(0) = initialSize
    BY DEF Merkle!SizeInForce
  <2> QED
    BY <2>1, <2>2 DEF Merkle!Init, SizesOK
<1>3. RoundOK /\ AnswersOK
  BY DEF Merkle!Init, RoundOK, AnswersOK
<1> QED
  BY <1>1, <1>2, <1>3 DEF ServiceInv

\* A task of the script's own: a workload with an index and no size.
LEMMA LocalTaskStep ==
  ASSUME ServiceInv, NEW i \in 0 .. treeSize - 1, Merkle!LocalTask(i)
  PROVE  ServiceInv'
<1> DEFINE w == [seed |-> TRUE, index |-> i, size |-> None]
<1>1. /\ pc = "top" /\ localTest = "true" /\ round' = round + 1 /\ proofIndex' = i
      /\ heard' = Append(heard, w) /\ pc' = "prove"
      /\ UNCHANGED <<localTest, treeSize, result, submitted, initialSize>>
  BY DEF Merkle!LocalTask
<1>2. i \in Nat /\ w \in Work /\ w.seed = TRUE /\ w.size = None /\ ServiceTypeOK /\ SizesOK
  BY DEF ServiceInv, ServiceTypeOK, Work
<1> HIDE DEF w
<1>3. SizesOK' /\ AnswersOK'
  BY <1>1, <1>2, RoundBegins DEF Merkle!SizeOf
<1>4. heard' \in Seq(Work) /\ Len(heard') = round + 1 /\ heard'[round + 1] = w
  BY <1>1, <1>2, HeardGrows
<1>5. ServiceTypeOK'
  BY <1>1, <1>2, <1>4 DEF ServiceTypeOK
<1>6. RoundOK'
  BY <1>1, <1>2, <1>4 DEF RoundOK, ServiceTypeOK
<1> QED
  BY <1>3, <1>5, <1>6 DEF ServiceInv

\* A workload is waited over or proved for.
LEMMA FetchStep ==
  ASSUME Merkle!ServiceAssumption, ServiceInv, NEW w \in Merkle!Workload, Merkle!Fetch(w)
  PROVE  ServiceInv'
<1>1. /\ pc = "top" /\ localTest # "true" /\ round' = round + 1 /\ proofIndex' = Merkle!IndexOf(w)
      /\ treeSize' = Merkle!SizeOf(w) /\ heard' = Append(heard, w)
      /\ pc' = IF w.seed THEN "prove" ELSE "sleep"
      /\ UNCHANGED <<localTest, result, submitted, initialSize>>
  BY DEF Merkle!Fetch
<1>2. w \in Work /\ ServiceTypeOK /\ SizesOK
  BY DEF ServiceInv, Merkle!Workload, Work, Merkle!ServiceAssumption
<1>3. SizesOK' /\ AnswersOK'
  BY <1>1, <1>2, RoundBegins
<1>4. heard' \in Seq(Work) /\ Len(heard') = round + 1 /\ heard'[round + 1] = w
  BY <1>1, <1>2, HeardGrows
<1>5. Merkle!IndexOf(w) \in Nat /\ Merkle!SizeOf(w) \in Nat
  BY <1>2 DEF Merkle!IndexOf, Merkle!SizeOf, Work, ServiceTypeOK
<1>6. ServiceTypeOK'
  BY <1>1, <1>2, <1>4, <1>5 DEF ServiceTypeOK
<1>7. RoundOK'
  <2>1. round' >= 1 /\ heard'[round'].seed = w.seed
    BY <1>1, <1>2, <1>4 DEF ServiceTypeOK
  <2>2. proofIndex' = Merkle!LeafAskedFor(round)'
    BY <1>1, <1>4 DEF Merkle!LeafAskedFor, Merkle!IndexOf
  <2> QED
    BY <1>1, <2>1, <2>2 DEF RoundOK
<1> QED
  BY <1>3, <1>6, <1>7 DEF ServiceInv

\* The prover proves what it is asked.
LEMMA ProveStep ==
  ASSUME ServiceInv, Merkle!Prove
  PROVE  ServiceInv'
<1>1. /\ pc = "prove" /\ pc' = "report"
      /\ result' = IF treeSize = 0 THEN Merkle!NoResult
                   ELSE [status |-> IF Merkle!Verifies(treeSize, Merkle!Leaf(proofIndex, treeSize))
                                    THEN "success" ELSE "failure",
                         seed |-> round, size |-> treeSize,
                         leaf |-> Merkle!Leaf(proofIndex, treeSize)]
      /\ UNCHANGED <<localTest, round, treeSize, proofIndex, heard, submitted, initialSize>>
  BY DEF Merkle!Prove
<1>2. SizesOK' /\ AnswersOK'
  BY <1>1, NothingSent DEF Settled
<1>3. ServiceTypeOK'
  BY <1>1 DEF ServiceInv, ServiceTypeOK
<1>4. RoundOK'
  <2>1. PICK m : m = round /\ m = round'
    BY <1>1
  <2>2. ProofOf(m)' = ProofOf(m)
    BY <1>1, HeardStays
  <2>3. localTest # "true" => result' = ProofOf(m)
    BY <1>1, <2>1 DEF ServiceInv, RoundOK, SizesOK, ProofOf, LeafOf, Merkle!Leaf
  <2> QED
    BY <1>1, <2>1, <2>2, <2>3 DEF ServiceInv, RoundOK
<1> QED
  BY <1>2, <1>3, <1>4 DEF ServiceInv

\* What the prover printed is sent, or does not deserve to be.
LEMMA ReportStep ==
  ASSUME ServiceInv, Merkle!SkipPause \/ Merkle!Report
  PROVE  ServiceInv'
<1>1. /\ pc = "report" /\ pc' \in {"top", "sleep"}
      /\ UNCHANGED <<localTest, round, treeSize, proofIndex, result, heard, initialSize>>
  BY DEF Merkle!SkipPause, Merkle!Report, Merkle!history
<1>2. RoundOK'
  BY <1>1 DEF RoundOK
<1>3. CASE Merkle!Report /\ Merkle!ToSubmit
  <2>1. /\ submitted' = Append(submitted, result) /\ pc' = "sleep"
        /\ localTest = "false" /\ result.status = "success"
    BY <1>3 DEF Merkle!Report, Merkle!ToSubmit
  <2>2. SizesOK' /\ AnswersOK' /\ submitted' \in Seq(Answer)
    BY <1>1, <2>1, AnswerSent
  <2>3. ServiceTypeOK'
    BY <1>1, <2>1, <2>2 DEF ServiceInv, ServiceTypeOK
  <2> QED
    BY <1>2, <2>2, <2>3 DEF ServiceInv
<1>4. CASE Merkle!SkipPause \/ ~Merkle!ToSubmit
  <2>1. submitted' = submitted
    BY <1>4 DEF Merkle!SkipPause, Merkle!Report, Merkle!history
  <2>2. PICK m : m = round /\ m = round'
    BY <1>1
  <2>3. ~Provable(m)
    <3> SUFFICES ASSUME Provable(m) PROVE FALSE
      OBVIOUS
    <3>1. localTest = "false" /\ result = ProofOf(m) /\ Merkle!Verifies(Merkle!SizeInForce(m), LeafOf(m))
      BY <1>1, <2>2 DEF ServiceInv, RoundOK, Provable
    <3>2. Merkle!SizeInForce(m) # 0
      BY <3>1 DEF Merkle!Verifies
    <3>3. result.status = "success"
      BY <3>1, <3>2 DEF ProofOf
    <3> QED
      BY <1>4, <3>1, <3>3 DEF Merkle!SkipPause, Merkle!ToSubmit, Merkle!NoResult
  <2>4. \A r \in 1 .. round : Settled(r)' => Settled(r) \/ ~Provable(r)
    <3>1. round \in Nat
      BY DEF ServiceInv, ServiceTypeOK
    <3> QED
      BY <2>2, <2>3, <3>1 DEF Settled
  <2>5. \A r \in 1 .. round : Settled(r) => Settled(r)'
    BY <1>1 DEF Settled
  <2>6. SizesOK' /\ AnswersOK'
    BY <1>1, <2>1, <2>4, <2>5, NothingSent
  <2>7. ServiceTypeOK'
    BY <1>1, <2>1 DEF ServiceInv, ServiceTypeOK
  <2> QED
    BY <1>2, <2>6, <2>7 DEF ServiceInv
<1> QED
  BY <1>3, <1>4

\* The pause, the end, and a step that changes nothing
LEMMA PauseStep ==
  ASSUME ServiceInv, Merkle!DivideByZero \/ Merkle!Sleep \/ UNCHANGED Merkle!vars
  PROVE  ServiceInv'
<1>1. /\ UNCHANGED <<localTest, round, treeSize, proofIndex, result, heard, submitted,
                     initialSize>>
      /\ \/ pc' = pc
         \/ pc \in {"top", "sleep"} /\ pc' \in {"top", "exited"}
  BY DEF Merkle!DivideByZero, Merkle!Sleep, Merkle!AfterPause, Merkle!vars, Merkle!history
<1>2. SizesOK' /\ AnswersOK'
  BY <1>1, NothingSent DEF Settled
<1>3. ServiceTypeOK'
  BY <1>1 DEF ServiceInv, ServiceTypeOK
<1>4. RoundOK'
  <2>1. PICK m : m = round /\ m = round'
    BY <1>1
  <2>2. ProofOf(m)' = ProofOf(m) /\ Merkle!LeafAskedFor(m)' = Merkle!LeafAskedFor(m)
    BY <1>1, HeardStays
  <2> QED
    BY <1>1, <2>1, <2>2 DEF ServiceInv, RoundOK
<1> QED
  BY <1>2, <1>3, <1>4 DEF ServiceInv

\* Every step keeps the invariant, and so it always holds.
LEMMA ServiceInvariant == Merkle!ServiceAssumption => (Merkle!Spec => []ServiceInv)
<1> SUFFICES ASSUME Merkle!ServiceAssumption PROVE Merkle!Spec => []ServiceInv
  OBVIOUS
<1>1. Merkle!Init => ServiceInv
  BY ServiceBegins
<1>2. ServiceInv /\ [Merkle!Next]_(Merkle!vars) => ServiceInv'
  <2> SUFFICES ASSUME ServiceInv, [Merkle!Next]_(Merkle!vars) PROVE ServiceInv'
    OBVIOUS
  <2> QED
    BY LocalTaskStep, FetchStep, ProveStep, ReportStep, PauseStep
    DEF Merkle!Next, Merkle!Step, Merkle!Terminating
<1> QED
  BY <1>1, <1>2, PTL DEF Merkle!Spec

-----------------------------------------------------------------------------
(* What follows.                                                           *)

\* What is submitted is the proof of the workload's seed, size and leaf, for
\* any workloads (merkle_prove.sh:35-41, merkle_prover_main.cpp:112).
THEOREM AnswersAreAskedFor == Merkle!ServiceAssumption => (Merkle!Spec => []Merkle!AnswersItsWorkload)
<1>1. ServiceInv => Merkle!AnswersItsWorkload
  <2> SUFFICES ASSUME ServiceInv, NEW k \in 1 .. Len(submitted), NEW r, r = submitted[k].seed
               PROVE  /\ submitted[k].size = Merkle!SizeInForce(r)
                      /\ submitted[k].leaf < submitted[k].size
                      /\ Merkle!LeafAskedFor(r) < submitted[k].size =>
                           submitted[k].leaf = Merkle!LeafAskedFor(r)
    BY DEF Merkle!AnswersItsWorkload
  <2>1. r \in 1 .. round /\ submitted[k] = ProofOf(r) /\ Merkle!Verifies(Merkle!SizeInForce(r), LeafOf(r))
    BY DEF ServiceInv, AnswersOK, Provable
  <2>2. Merkle!SizeInForce(r) \in Nat /\ Merkle!LeafAskedFor(r) \in Nat
    <3>1. r \in 0 .. round
      BY <2>1 DEF ServiceInv, ServiceTypeOK
    <3> QED
      BY <2>1, <3>1, SizeIsNat, LeafIsNat DEF ServiceInv
  <2>3. Merkle!SizeInForce(r) # 0
    BY <2>1 DEF Merkle!Verifies
  <2>4. submitted[k].size = Merkle!SizeInForce(r) /\ submitted[k].leaf = LeafOf(r)
    BY <2>1, <2>3 DEF ProofOf
  <2>5. LeafOf(r) < Merkle!SizeInForce(r)
    BY <2>2, <2>3, SMT DEF LeafOf
  <2>6. Merkle!LeafAskedFor(r) < Merkle!SizeInForce(r) => LeafOf(r) = Merkle!LeafAskedFor(r)
    BY <2>2, <2>3, SMT DEF LeafOf
  <2> QED
    BY <2>4, <2>5, <2>6
<1> QED
  BY <1>1, ServiceInvariant, PTL

\* Between rounds a workload has been answered, once, exactly when its proof
\* verifies, in production (merkle_prove.sh:43-74).
THEOREM AnsweredExactlyIfProvable == Merkle!ServiceAssumption => (Merkle!Spec => []Merkle!AnsweredIffProvable)
<1>1. ServiceInv => Merkle!AnsweredIffProvable
  <2> SUFFICES ASSUME ServiceInv, pc = "top", NEW r \in 1 .. round
               PROVE  LET answers == {k \in 1 .. Len(submitted) : submitted[k].seed = r}
                      IN  IF Provable(r) THEN \E k \in answers : answers = {k}
                          ELSE answers = {}
    BY DEF Merkle!AnsweredIffProvable, Provable, LeafOf, Merkle!Verifies
  <2>1. Settled(r)
    BY DEF Settled
  <2>2. CASE Provable(r)
    <3>1. PICK k \in 1 .. Len(submitted) : submitted[k].seed = r
      BY <2>1, <2>2 DEF ServiceInv, AnswersOK, Answered
    <3>2. \A j \in 1 .. Len(submitted) : submitted[j].seed = r => j = k
      BY <3>1 DEF ServiceInv, AnswersOK
    <3> QED
      BY <2>2, <3>1, <3>2
  <2>3. CASE ~Provable(r)
    BY <2>3 DEF ServiceInv, AnswersOK
  <2> QED
    BY <2>2, <2>3
<1> QED
  BY <1>1, ServiceInvariant, PTL

-----------------------------------------------------------------------------
(***************************************************************************)
(* The three programs in one specification.                                *)
(***************************************************************************)
LEMMA MineRuns == program = "mine.sh" /\ ProgramSpec => Spec
<1>1. program = "mine.sh" /\ ProgramInit => Init
  BY DEF ProgramInit
<1>2. program = "mine.sh" /\ [ProgramNext]_programVars => (program = "mine.sh")' /\ [Next]_vars
  BY DEF ProgramNext, InMine, InPy, InMerkle, programVars, mineVars, vars, history
<1> QED
  BY <1>1, <1>2, PTL DEF ProgramSpec, Spec

\* A run of the whole that starts as a program is a run of the program:
LEMMA PyRuns == program = "miner_openblas.py" /\ ProgramSpec => Py!Spec
<1>1. program = "miner_openblas.py" /\ ProgramInit => Py!Init
  BY DEF ProgramInit
<1>2. program = "miner_openblas.py" /\ [ProgramNext]_programVars =>
        (program = "miner_openblas.py")' /\ [Py!Next]_(Py!vars)
  BY DEF ProgramNext, InMine, InPy, InMerkle, programVars, pyVars, Py!vars,
         Py!input, Py!search, Py!history
<1> QED
  BY <1>1, <1>2, PTL DEF ProgramSpec, Py!Spec

\* of merkle_prove.sh likewise.
LEMMA MerkleRuns == program = "merkle_prove.sh" /\ ProgramSpec => Merkle!Spec
<1>1. program = "merkle_prove.sh" /\ ProgramInit => Merkle!Init
  BY DEF ProgramInit
<1>2. program = "merkle_prove.sh" /\ [ProgramNext]_programVars =>
        (program = "merkle_prove.sh")' /\ [Merkle!Next]_(Merkle!vars)
  BY DEF ProgramNext, InMine, InPy, InMerkle, programVars, merkleVars, Merkle!vars,
         Merkle!history
<1> QED
  BY <1>1, <1>2, PTL DEF ProgramSpec, Merkle!Spec

-----------------------------------------------------------------------------
(***************************************************************************)
(* What the program that runs keeps.                                       *)
(***************************************************************************)
\* Another program than mine.sh submits none of its requests and leaves none
\* of its files.
LEMMA MineRests == program # "mine.sh" /\ ProgramSpec => [](program # "mine.sh" /\ MineAtRest)
<1>1. program # "mine.sh" /\ ProgramInit => MineAtRest
  BY DEF ProgramInit
<1>2. (program # "mine.sh" /\ MineAtRest) /\ [ProgramNext]_programVars =>
        (program # "mine.sh" /\ MineAtRest)'
  BY DEF ProgramNext, InMine, InPy, InMerkle, programVars, mineVars, MineAtRest
<1> QED
  BY <1>1, <1>2, PTL DEF ProgramSpec

\* A run that starts as another program never is miner_openblas.py,
LEMMA PyRests == program # "miner_openblas.py" /\ ProgramSpec => [](program # "miner_openblas.py")
<1>1. program # "miner_openblas.py" /\ [ProgramNext]_programVars =>
        (program # "miner_openblas.py")'
  BY DEF ProgramNext, InMine, InPy, InMerkle, programVars
<1> QED
  BY <1>1, PTL DEF ProgramSpec

\* or merkle_prove.sh.
LEMMA MerkleRests == program # "merkle_prove.sh" /\ ProgramSpec => [](program # "merkle_prove.sh")
<1>1. program # "merkle_prove.sh" /\ [ProgramNext]_programVars => (program # "merkle_prove.sh")'
  BY DEF ProgramNext, InMine, InPy, InMerkle, programVars
<1> QED
  BY <1>1, PTL DEF ProgramSpec

\* What mine.sh submits was written in the very round, or by the orphans that
\* shared its file; nothing is submitted twice; a whole result is submitted
\* (mine.sh:57-102), whichever of the programs runs.
THEOREM MineShIsSafe ==
  ScriptsAssumption =>
    (ProgramSpec => [](SubmissionExplained /\ SubmittedOnce /\ WholeResultSubmitted))
<1> SUFFICES ASSUME ScriptsAssumption
             PROVE  ProgramSpec => [](SubmissionExplained /\ SubmittedOnce /\ WholeResultSubmitted)
  OBVIOUS
<1>1. Spec => []SubmissionExplained /\ []SubmittedOnce /\ []WholeResultSubmitted
  BY SubmissionIsExplained, SubmissionIsNew, ResultIsSubmitted DEF ScriptsAssumption
<1>2. MineAtRest => SubmissionExplained /\ SubmittedOnce /\ WholeResultSubmitted
  BY DEF MineAtRest, SubmissionExplained, SubmittedOnce, WholeResultSubmitted
<1>3. program = "mine.sh" \/ program # "mine.sh"
  OBVIOUS
<1> QED
  BY <1>1, <1>2, <1>3, MineRuns, MineRests, PTL

\* Whichever program runs, a fast search of the Python miner has returned the
\* first nonce that meets the difficulty (miner_openblas.py:302-343).
THEOREM FirstIsReturned == ScriptsAssumption => (ProgramSpec => []FirstSolutionReturned)
<1> SUFFICES ASSUME ScriptsAssumption PROVE ProgramSpec => []FirstSolutionReturned
  OBVIOUS
<1>1. Py!Spec => []Py!FirstSolutionReturned
  BY FirstIsFound DEF ScriptsAssumption
<1>2. Py!FirstSolutionReturned => FirstSolutionReturned
  BY DEF FirstSolutionReturned
<1>3. program # "miner_openblas.py" => FirstSolutionReturned
  BY DEF FirstSolutionReturned
<1>4. program = "miner_openblas.py" \/ program # "miner_openblas.py"
  OBVIOUS
<1> QED
  BY <1>1, <1>2, <1>3, <1>4, PyRuns, PyRests, PTL

\* And its accelerator is open between rounds only after an exception or
\* Ctrl-C with the device open (miner_openblas.py:277-338, 511-513).
THEOREM DeviceIsGivenBack == ScriptsAssumption => (ProgramSpec => []DeviceReturned)
<1> SUFFICES ASSUME ScriptsAssumption PROVE ProgramSpec => []DeviceReturned
  OBVIOUS
<1>1. Py!Spec => []Py!DeviceReturned
  BY DeviceIsReturned
<1>2. Py!DeviceReturned => DeviceReturned
  BY DEF DeviceReturned
<1>3. program # "miner_openblas.py" => DeviceReturned
  BY DEF DeviceReturned
<1>4. program = "miner_openblas.py" \/ program # "miner_openblas.py"
  OBVIOUS
<1> QED
  BY <1>1, <1>2, <1>3, <1>4, PyRuns, PyRests, PTL

\* What merkle_prove.sh submits is the proof of the leaf, in the tree, that
\* its workload asked for (merkle_prove.sh:35-41).
THEOREM AnswersTheirWorkloads == ScriptsAssumption => (ProgramSpec => []AnswersItsWorkload)
<1> SUFFICES ASSUME ScriptsAssumption PROVE ProgramSpec => []AnswersItsWorkload
  OBVIOUS
<1>1. Merkle!Spec => []Merkle!AnswersItsWorkload
  BY AnswersAreAskedFor DEF ScriptsAssumption
<1>2. Merkle!AnswersItsWorkload => AnswersItsWorkload
  BY DEF AnswersItsWorkload
<1>3. program # "merkle_prove.sh" => AnswersItsWorkload
  BY DEF AnswersItsWorkload
<1>4. program = "merkle_prove.sh" \/ program # "merkle_prove.sh"
  OBVIOUS
<1> QED
  BY <1>1, <1>2, <1>3, <1>4, MerkleRuns, MerkleRests, PTL

\* And a workload is answered, once, exactly when that proof verifies
\* (merkle_prove.sh:43-74).
THEOREM AnsweredOnceIfProvable == ScriptsAssumption => (ProgramSpec => []AnsweredIffProvable)
<1> SUFFICES ASSUME ScriptsAssumption PROVE ProgramSpec => []AnsweredIffProvable
  OBVIOUS
<1>1. Merkle!Spec => []Merkle!AnsweredIffProvable
  BY AnsweredExactlyIfProvable DEF ScriptsAssumption
<1>2. Merkle!AnsweredIffProvable => AnsweredIffProvable
  BY DEF AnsweredIffProvable
<1>3. program # "merkle_prove.sh" => AnsweredIffProvable
  BY DEF AnsweredIffProvable
<1>4. program = "merkle_prove.sh" \/ program # "merkle_prove.sh"
  OBVIOUS
<1> QED
  BY <1>1, <1>2, <1>3, <1>4, MerkleRuns, MerkleRests, PTL
=============================================================================
