--------------------------- MODULE TTMatmulProofs ---------------------------
(***************************************************************************)
(* Proofs about TTMatmul, for any number of calls and tiles and buffers of *)
(* any number of pages: tiles are paired in order, and each call gets its  *)
(* own sum.                                                                *)
(*                                                                         *)
(* The heart is what a buffer holds: page k mod Pages has tile k of the    *)
(* running program for every k that is pushed and not popped, and the page *)
(* the reader fills next is none of these (SlotsDiffer).  Around it stand  *)
(* the counters, which follow from where the kernels are, and the queue,   *)
(* in which a launch comes after the writes it depends on and a read after *)
(* its launch.                                                             *)
(***************************************************************************)
EXTENDS TTMatmul, SequenceTheorems, TLAPS

-----------------------------------------------------------------------------
(***************************************************************************)
(* The invariant.                                                          *)
(***************************************************************************)
IsBuffer(cb) ==
  /\ DOMAIN cb = {"pushed", "popped", "page"}
  /\ cb.pushed \in Nat /\ cb.popped \in Nat
  /\ DOMAIN cb.page = 0 .. Pages - 1

Bounded(cb) == cb.pushed - cb.popped \in 0 .. Pages

\* Of matrix m, the tiles that are pushed and not popped.
Holds(cb, m, c) ==
  \A k \in Nat : cb.popped <= k /\ k < cb.pushed => cb.page[k % Pages] = <<m, c, k>>

Buffers ==
  /\ IsBuffer(in0) /\ IsBuffer(in1) /\ IsBuffer(out)
  /\ Bounded(in0) /\ Bounded(in1) /\ Bounded(out)

\* A program at rest
AtRest ==
  /\ reader.at = "end" /\ math.at = "end" /\ pack = "end" /\ writer = "end"
  /\ fetching = {} /\ storing = {} /\ regs = "free"

\* Where the reader is tells what it has pushed and what it is fetching.
ReaderOK ==
  /\ DOMAIN reader = {"tile", "at"}
  /\ reader.tile \in 0 .. NumTiles
  /\ in1.pushed = reader.tile
  /\ \/ /\ reader.at = "read0" /\ reader.tile < NumTiles
        /\ in0.pushed = reader.tile /\ fetching = {}
     \/ /\ reader.at = "push0" /\ reader.tile < NumTiles
        /\ in0.pushed = reader.tile /\ HasRoom(in0)
        /\ \/ fetching = {[cb |-> 0, page |-> WritePage(in0), tile |-> reader.tile]}
           \/ /\ fetching = {}
              /\ in0.page[WritePage(in0)] = <<"A", running, reader.tile>>
     \/ /\ reader.at = "read1" /\ reader.tile < NumTiles
        /\ in0.pushed = reader.tile + 1 /\ fetching = {}
     \/ /\ reader.at = "push1" /\ reader.tile < NumTiles
        /\ in0.pushed = reader.tile + 1 /\ HasRoom(in1)
        /\ \/ fetching = {[cb |-> 1, page |-> WritePage(in1), tile |-> reader.tile]}
           \/ /\ fetching = {}
              /\ in1.page[WritePage(in1)] = <<"B", running, reader.tile>>
     \/ /\ reader.at = "end" /\ reader.tile = NumTiles
        /\ in0.pushed = reader.tile /\ fetching = {}

\* The first n pairs of the running program
Summed(n) == sum = [i \in 1 .. n |-> Product(running)[i]]

\* Where the math thread is tells what it has popped and summed.
MathOK ==
  /\ DOMAIN math = {"tile", "at"}
  /\ math.tile \in 0 .. NumTiles
  /\ in1.popped = math.tile
  /\ \/ /\ math.at = "acquire" /\ math.tile = 0
        /\ in0.popped = 0 /\ regs = "free" /\ pack = "wait"
     \/ /\ math.at = "multiply" /\ math.tile < NumTiles
        /\ in0.popped = math.tile /\ regs = "math" /\ Summed(math.tile) /\ pack = "wait"
     \/ /\ math.at = "pop0" /\ math.tile < NumTiles
        /\ in0.popped = math.tile /\ regs = "math" /\ Summed(math.tile + 1) /\ pack = "wait"
        /\ HasFront(in0) /\ HasFront(in1)
     \/ /\ math.at = "pop1" /\ math.tile < NumTiles
        /\ in0.popped = math.tile + 1 /\ regs = "math" /\ Summed(math.tile + 1) /\ pack = "wait"
        /\ HasFront(in1)
     \/ /\ math.at = "end" /\ math.tile = NumTiles
        /\ in0.popped = math.tile /\ Summed(NumTiles)
        /\ (regs = "pack" /\ pack = "wait") \/ (regs = "free" /\ pack = "end")

Stored(c) == dram[c].dst["rows0to7"] = Product(c)

\* From the packed tile to DRAM
OutOK ==
  \/ /\ pack = "wait" /\ out.pushed = 0 /\ out.popped = 0 /\ writer = "wait" /\ storing = {}
  \/ /\ pack = "end" /\ out.pushed = 1 /\ out.page[0] = Product(running)
     /\ \/ writer = "wait" /\ out.popped = 0 /\ storing = {}
        \/ /\ writer = "pop" /\ out.popped = 0
           /\ storing = {[page |-> 0, call |-> running]} \/ (storing = {} /\ Stored(running))
        \/ writer = "end" /\ out.popped = 1 /\ storing = {} /\ Stored(running)

Running ==
  /\ running \in Call
  /\ dram[running].a /\ dram[running].b
  /\ Holds(in0, "A", running) /\ Holds(in1, "B", running)
  /\ ReaderOK
  /\ MathOK
  /\ OutOK

CoreOK == (running = NoCall /\ AtRest) \/ Running

Command(what, c) == [what |-> what, call |-> c]

Commands == [what : {"writeA", "writeB", "launch", "read"}, call : Call]

\* A command is in the queue, and it is ahead of the i-th.
Queued(what, c) == \E k \in 1 .. Len(queue) : queue[k] = Command(what, c)
Ahead(i, what, c) == \E k \in 1 .. i - 1 : queue[k] = Command(what, c)

\* What a command depends on is done, or will be when its turn comes.
Ready(i, c) ==
  /\ queue[i].what = "launch" => dram[c].a \/ Ahead(i, "writeA", c)
  /\ queue[i].what = "launch" => dram[c].b \/ Ahead(i, "writeB", c)
  /\ queue[i].what = "read" => Stored(c)

QueueOK ==
  /\ queue \in Seq(Commands)
  /\ \A i \in 1 .. Len(queue) : Ready(i, queue[i].call)

DramOK ==
  /\ DOMAIN dram = Call
  /\ \A c \in Call :
       /\ DOMAIN dram[c] = {"a", "b", "dst"}
       /\ dram[c].a \in BOOLEAN /\ dram[c].b \in BOOLEAN
       /\ DOMAIN dram[c].dst = Parts

\* What a call has done is done, or queued.
CallOK(c) ==
  /\ host[c] \in {"writeB", "launch"} => dram[c].a \/ Queued("writeA", c)
  /\ host[c] = "launch" => dram[c].b \/ Queued("writeB", c)
  /\ host[c] = "finish" => Stored(c) \/ Queued("launch", c)
  /\ host[c] \in {"read", "await", "done"} => Stored(c)
  /\ host[c] = "await" => result[c]["rows0to7"] = Product(c) \/ Queued("read", c)
  /\ host[c] = "done" => result[c]["rows0to7"] = Product(c)

HostOK ==
  /\ host \in [Call -> {"writeA", "writeB", "launch", "finish", "read", "await", "done"}]
  /\ DOMAIN result = Call
  /\ \A c \in Call : CallOK(c)

IInv == Buffers /\ DramOK /\ QueueOK /\ HostOK /\ CoreOK

-----------------------------------------------------------------------------
(***************************************************************************)
(* A buffer's operations.                                                  *)
(***************************************************************************)
\* Two pages in a buffer at once are in different slots.
LEMMA SlotsDiffer ==
  ASSUME NEW x \in Nat, NEW y \in Nat, x < y, y < x + Pages
  PROVE  x % Pages # y % Pages
<1> DEFINE p == x \div Pages
           q == y \div Pages
<1>1. Pages \in Nat \ {0}
  BY CircularBufferAssumption
<1>2. /\ x = Pages * p + (x % Pages) /\ y = Pages * q + (y % Pages)
      /\ p \in Nat /\ q \in Nat /\ x % Pages \in 0 .. Pages - 1 /\ y % Pages \in 0 .. Pages - 1
  BY <1>1, SMT
<1> HIDE DEF p, q
<1>3. SUFFICES ASSUME x % Pages = y % Pages PROVE FALSE
  OBVIOUS
<1>4. Pages * p < Pages * q /\ Pages * q < Pages * p + Pages
  BY <1>1, <1>2, <1>3
<1>5. CASE q <= p
  <2>1. Pages * q <= Pages * p
    BY <1>1, <1>2, <1>5, SMT
  <2> QED
    BY <1>1, <1>2, <1>4, <2>1
<1>6. CASE p + 1 <= q
  <2>1. Pages * (p + 1) <= Pages * q /\ Pages * (p + 1) = Pages * p + Pages
    BY <1>1, <1>2, <1>6, SMT
  <2> QED
    BY <1>1, <1>2, <1>4, <2>1
<1> QED
  BY <1>2, <1>5, <1>6

\* A page's slot is one of the buffer's.
LEMMA Slot ==
  ASSUME NEW x \in Nat
  PROVE  x % Pages \in 0 .. Pages - 1
BY CircularBufferAssumption, SMT

\* Filling a page changes that page only.
LEMMA FillBuffer ==
  ASSUME NEW cb, IsBuffer(cb), NEW p \in 0 .. Pages - 1, NEW bytes
  PROVE  LET new == Fill(cb, p, bytes) IN
         /\ IsBuffer(new)
         /\ new.pushed = cb.pushed /\ new.popped = cb.popped
         /\ new.page[p] = bytes
         /\ \A x \in 0 .. Pages - 1 : x # p => new.page[x] = cb.page[x]
BY DEF Fill, IsBuffer

\* Push, pop and reset move the counters only.
LEMMA MoveBuffer ==
  ASSUME NEW cb, IsBuffer(cb)
  PROVE  /\ IsBuffer(Push(cb)) /\ Push(cb).page = cb.page
         /\ Push(cb).pushed = cb.pushed + 1 /\ Push(cb).popped = cb.popped
         /\ IsBuffer(Pop(cb)) /\ Pop(cb).page = cb.page
         /\ Pop(cb).pushed = cb.pushed /\ Pop(cb).popped = cb.popped + 1
         /\ IsBuffer(Reset(cb)) /\ Reset(cb).page = cb.page
         /\ Reset(cb).pushed = 0 /\ Reset(cb).popped = 0
BY DEF Push, Pop, Reset, IsBuffer

\* A push where there is room and a pop where there is a page stay in bounds.
LEMMA MoveBounded ==
  ASSUME NEW cb, IsBuffer(cb), Bounded(cb)
  PROVE  /\ HasRoom(cb) => Bounded(Push(cb))
         /\ HasFront(cb) => Bounded(Pop(cb))
<1> DEFINE n == cb.pushed
           m == cb.popped
<1>1. n \in Nat /\ m \in Nat /\ n - m \in 0 .. Pages /\ Pages \in Nat
  BY CircularBufferAssumption DEF IsBuffer, Bounded
<1>2. /\ Push(cb).pushed = n + 1 /\ Push(cb).popped = m
      /\ Pop(cb).pushed = n /\ Pop(cb).popped = m + 1
  BY MoveBuffer
<1>3. (HasRoom(cb) <=> n - m < Pages) /\ (HasFront(cb) <=> n > m)
  BY DEF HasRoom, HasFront
<1> HIDE DEF n, m
<1> QED
  BY <1>1, <1>2, <1>3 DEF Bounded

\* Filling the next page leaves what the buffer holds alone.
LEMMA FillHolds ==
  ASSUME NEW cb, IsBuffer(cb), HasRoom(cb), NEW m, NEW c, Holds(cb, m, c), NEW bytes
  PROVE  Holds(Fill(cb, WritePage(cb), bytes), m, c)
<1> DEFINE new == Fill(cb, WritePage(cb), bytes)
<1>1. WritePage(cb) \in 0 .. Pages - 1 /\ WritePage(cb) = cb.pushed % Pages
  BY Slot DEF WritePage, IsBuffer
<1>2. /\ new.pushed = cb.pushed /\ new.popped = cb.popped
      /\ \A x \in 0 .. Pages - 1 : x # WritePage(cb) => new.page[x] = cb.page[x]
  BY <1>1, FillBuffer
<1> HIDE DEF new
<1> SUFFICES ASSUME NEW k \in Nat, cb.popped <= k, k < cb.pushed
             PROVE  new.page[k % Pages] = <<m, c, k>>
  BY <1>2 DEF Holds, new
<1>3. cb.pushed \in Nat /\ cb.popped \in Nat /\ Pages \in Nat
  BY CircularBufferAssumption DEF IsBuffer
<1>4. cb.pushed < k + Pages
  BY <1>3 DEF HasRoom
<1>5. k % Pages # WritePage(cb) /\ k % Pages \in 0 .. Pages - 1
  BY <1>1, <1>3, <1>4, SlotsDiffer, Slot
<1> QED
  BY <1>2, <1>5 DEF Holds

\* Pushing a page that is filled with the next tile, and popping the oldest
LEMMA MoveHolds ==
  ASSUME NEW cb, IsBuffer(cb), NEW m, NEW c, Holds(cb, m, c)
  PROVE  /\ cb.page[WritePage(cb)] = <<m, c, cb.pushed>> => Holds(Push(cb), m, c)
         /\ Holds(Pop(cb), m, c)
<1>1. ASSUME cb.page[WritePage(cb)] = <<m, c, cb.pushed>> PROVE Holds(Push(cb), m, c)
  <2> SUFFICES ASSUME NEW k \in Nat, cb.popped <= k, k < cb.pushed + 1
               PROVE  cb.page[k % Pages] = <<m, c, k>>
    BY MoveBuffer DEF Holds
  <2>1. CASE k = cb.pushed
    BY <1>1, <2>1 DEF WritePage
  <2>2. CASE k < cb.pushed
    BY <2>2 DEF Holds
  <2> QED
    BY <2>1, <2>2 DEF IsBuffer
<1>2. Holds(Pop(cb), m, c)
  <2> SUFFICES ASSUME NEW k \in Nat, cb.popped + 1 <= k, k < cb.pushed
               PROVE  cb.page[k % Pages] = <<m, c, k>>
    BY MoveBuffer DEF Holds
  <2> QED
    BY DEF Holds, IsBuffer
<1> QED
  BY <1>1, <1>2

\* The oldest page has the tile that its number says.
LEMMA FrontTile ==
  ASSUME NEW cb, IsBuffer(cb), HasFront(cb), NEW m, NEW c, Holds(cb, m, c)
  PROVE  Front(cb) = <<m, c, cb.popped>>
BY DEF Holds, HasFront, Front, ReadPage, IsBuffer

-----------------------------------------------------------------------------
(* The sum.                                                                *)

\* A sum with its next pair appended is the sum up to that pair.
LEMMA AppendNext ==
  ASSUME NEW F, NEW n \in Nat
  PROVE  Append([i \in 1 .. n |-> F[i]], F[n + 1]) = [i \in 1 .. n + 1 |-> F[i]]
<1> DEFINE S == {F[i] : i \in 1 .. n + 1}
           s == [i \in 1 .. n |-> F[i]]
           t == [i \in 1 .. n + 1 |-> F[i]]
<1>1. s \in Seq(S) /\ Len(s) = n
  <2>1. s \in [1 .. n -> S]
    OBVIOUS
  <2>2. s \in Seq(S)
    BY <2>1, SeqDef
  <2>3. Len(s) \in Nat /\ DOMAIN s = 1 .. Len(s)
    BY <2>2, LenProperties
  <2> QED
    BY <2>2, <2>3
<1>2. t \in Seq(S) /\ Len(t) = n + 1
  <2>1. t \in [1 .. n + 1 -> S]
    OBVIOUS
  <2>2. t \in Seq(S)
    BY <2>1, SeqDef
  <2>3. Len(t) \in Nat /\ DOMAIN t = 1 .. Len(t)
    BY <2>2, LenProperties
  <2> QED
    BY <2>2, <2>3
<1>3. F[n + 1] \in S
  OBVIOUS
<1> DEFINE u == Append(s, F[n + 1])
<1>4. u \in Seq(S) /\ Len(u) = n + 1 /\ (\A i \in 1 .. n : u[i] = s[i]) /\ u[n + 1] = F[n + 1]
  BY <1>1, <1>3, AppendProperties
<1>5. \A i \in 1 .. n + 1 : u[i] = t[i]
  BY <1>4
<1> QED
  BY <1>2, <1>4, <1>5, SeqEqual

\* The n-th pair of a sum.
LEMMA Factor ==
  ASSUME NEW n \in Nat, n < NumTiles, NEW c
  PROVE  Product(c)[n + 1] = <<<<"A", c, n>>, <<"B", c, n>>>>
BY TTAssumption DEF Product

\* What is summed so far tells how many pairs there are.
LEMMA SummedLength ==
  ASSUME NEW n \in Nat, Summed(n)
  PROVE  Len(sum) = n
<1> DEFINE S == {Product(running)[i] : i \in 1 .. n}
<1>1. sum \in [1 .. n -> S]
  BY DEF Summed
<1>2. sum \in Seq(S)
  BY <1>1, SeqDef
<1>3. Len(sum) \in Nat /\ DOMAIN sum = 1 .. Len(sum)
  BY <1>2, LenProperties
<1> QED
  BY <1>1, <1>3

-----------------------------------------------------------------------------
(***************************************************************************)
(* What a step of one kernel leaves of the others' parts.                  *)
(***************************************************************************)
\* The reader's part survives what the compute kernel pops.
LEMMA ReaderKept ==
  ASSUME ReaderOK, UNCHANGED <<reader, fetching, running>>,
         in0'.pushed = in0.pushed, in0'.page = in0.page, HasRoom(in0) => HasRoom(in0)',
         in1'.pushed = in1.pushed, in1'.page = in1.page, HasRoom(in1) => HasRoom(in1)'
  PROVE  ReaderOK'
BY DEF ReaderOK, WritePage

\* The math thread's part survives what the reader pushes.
LEMMA MathKept ==
  ASSUME MathOK, UNCHANGED <<math, pack, regs, sum, running>>,
         in0'.popped = in0.popped, HasFront(in0) => HasFront(in0)',
         in1'.popped = in1.popped, HasFront(in1) => HasFront(in1)'
  PROVE  MathOK'
<1>1. \A n \in Nat : Summed(n) => Summed(n)'
  BY DEF Summed, Product
<1> QED
  BY <1>1, TTAssumption DEF MathOK

\* The way out survives whatever leaves a stored sum alone.
LEMMA OutKept ==
  ASSUME OutOK, UNCHANGED <<pack, out, writer, storing, running>>,
         Stored(running) => Stored(running)'
  PROVE  OutOK'
BY DEF OutOK, Product

-----------------------------------------------------------------------------
(***************************************************************************)
(* The kernels' steps.                                                     *)
(***************************************************************************)
CoreInv == Buffers /\ CoreOK

\* A read goes to the next page, with room for it.
LEMMA IssueReadStep ==
  ASSUME CoreInv, IssueRead
  PROVE  CoreInv'
<1>1. Running
  BY DEF CoreInv, CoreOK, AtRest, IssueRead
<1>2. UNCHANGED <<dram, running, in0, in1, out, math, pack, regs, sum, writer, storing>>
  BY DEF IssueRead
<1>3. Buffers'
  BY <1>2 DEF CoreInv, Buffers, Bounded
<1>4. ReaderOK'
  <2>1. ReaderOK
    BY <1>1 DEF Running
  <2>2. CASE reader.at = "read0"
    BY <1>2, <2>1, <2>2 DEF ReaderOK, IssueRead
  <2>3. CASE reader.at = "read1"
    BY <1>2, <2>1, <2>3 DEF ReaderOK, IssueRead
  <2> QED
    BY <2>2, <2>3 DEF IssueRead
<1>5. MathOK'
  BY <1>1, <1>2, MathKept DEF Running
<1>6. OutOK'
  BY <1>1, <1>2, OutKept DEF Running, Stored, Product
<1> QED
  BY <1>1, <1>2, <1>3, <1>4, <1>5, <1>6 DEF CoreInv, CoreOK, Running, Holds

\* The noc fills the page the reader asked for with the tile it asked for.
LEMMA DeliverStep ==
  ASSUME CoreInv, NEW f \in fetching, Deliver(f)
  PROVE  CoreInv'
<1>1. Running
  BY DEF CoreInv, CoreOK, AtRest
<1>2. UNCHANGED <<dram, running, out, reader, math, pack, regs, sum, writer, storing>>
  BY DEF Deliver
<1>3. ReaderOK /\ IsBuffer(in0) /\ IsBuffer(in1) /\ dram[running].a /\ dram[running].b
  BY <1>1 DEF CoreInv, Buffers, Running
<1>4. \/ /\ reader.at = "push0" /\ HasRoom(in0)
         /\ f = [cb |-> 0, page |-> WritePage(in0), tile |-> reader.tile]
      \/ /\ reader.at = "push1" /\ HasRoom(in1)
         /\ f = [cb |-> 1, page |-> WritePage(in1), tile |-> reader.tile]
  BY <1>3 DEF ReaderOK
<1>5. fetching = {f} /\ fetching' = {}
  BY <1>3, <1>4 DEF ReaderOK, Deliver
<1>6. MathOK /\ OutOK
  BY <1>1 DEF Running
<1>7. CASE reader.at = "push0"
  <2>1. /\ in0' = Fill(in0, WritePage(in0), <<"A", running, reader.tile>>) /\ in1' = in1
    BY <1>3, <1>4, <1>7 DEF Deliver, ATile
  <2>2. WritePage(in0) \in 0 .. Pages - 1
    BY <1>3, Slot DEF IsBuffer, WritePage
  <2>3. /\ IsBuffer(in0') /\ in0'.pushed = in0.pushed /\ in0'.popped = in0.popped
        /\ in0'.page[WritePage(in0)] = <<"A", running, reader.tile>>
    BY <1>3, <2>1, <2>2, FillBuffer
  <2>4. Holds(in0', "A", running) /\ Holds(in1', "B", running)
    BY <1>1, <1>3, <1>4, <1>7, <2>1, FillHolds DEF Running
  <2>5. Buffers'
    BY <1>2, <2>1, <2>3 DEF CoreInv, Buffers, Bounded, IsBuffer
  <2>6. ReaderOK'
    BY <1>2, <1>3, <1>5, <1>7, <2>1, <2>3 DEF ReaderOK, WritePage, HasRoom
  <2>7. MathOK'
    BY <1>2, <1>6, <2>1, <2>3, MathKept DEF HasFront
  <2>8. OutOK'
    BY <1>2, <1>6, OutKept DEF Stored, Product
  <2> QED
    BY <1>1, <1>2, <2>4, <2>5, <2>6, <2>7, <2>8 DEF CoreInv, CoreOK, Running, Holds
<1>8. CASE reader.at = "push1"
  <2>1. /\ in1' = Fill(in1, WritePage(in1), <<"B", running, reader.tile>>) /\ in0' = in0
    BY <1>3, <1>4, <1>8 DEF Deliver, BTile
  <2>2. WritePage(in1) \in 0 .. Pages - 1
    BY <1>3, Slot DEF IsBuffer, WritePage
  <2>3. /\ IsBuffer(in1') /\ in1'.pushed = in1.pushed /\ in1'.popped = in1.popped
        /\ in1'.page[WritePage(in1)] = <<"B", running, reader.tile>>
    BY <1>3, <2>1, <2>2, FillBuffer
  <2>4. Holds(in0', "A", running) /\ Holds(in1', "B", running)
    BY <1>1, <1>3, <1>4, <1>8, <2>1, FillHolds DEF Running
  <2>5. Buffers'
    BY <1>2, <2>1, <2>3 DEF CoreInv, Buffers, Bounded, IsBuffer
  <2>6. ReaderOK'
    BY <1>2, <1>3, <1>5, <1>8, <2>1, <2>3 DEF ReaderOK, WritePage, HasRoom
  <2>7. MathOK'
    BY <1>2, <1>6, <2>1, <2>3, MathKept DEF HasFront
  <2>8. OutOK'
    BY <1>2, <1>6, OutKept DEF Stored, Product
  <2> QED
    BY <1>1, <1>2, <2>4, <2>5, <2>6, <2>7, <2>8 DEF CoreInv, CoreOK, Running, Holds
<1> QED
  BY <1>4, <1>7, <1>8

\* What is pushed is filled, as nothing is under way any more.
LEMMA PushTileStep ==
  ASSUME CoreInv, PushTile
  PROVE  CoreInv'
<1>1. Running
  BY DEF CoreInv, CoreOK, AtRest, PushTile
<1>2. /\ UNCHANGED <<dram, running, out, fetching, math, pack, regs, sum, writer, storing>>
      /\ fetching = {}
  BY DEF PushTile, ReadBarrier
<1>3. ReaderOK /\ MathOK /\ OutOK /\ IsBuffer(in0) /\ IsBuffer(in1)
  BY <1>1 DEF CoreInv, Buffers, Running
<1>4. OutOK'
  BY <1>2, <1>3, OutKept DEF Stored, Product
<1>5. CASE reader.at = "push0"
  <2>1. /\ in0' = Push(in0) /\ in1' = in1 /\ reader' = [reader EXCEPT !.at = "read1"]
    BY <1>5 DEF PushTile
  <2>2. /\ in0.pushed = reader.tile /\ HasRoom(in0)
        /\ in0.page[WritePage(in0)] = <<"A", running, in0.pushed>>
    BY <1>2, <1>3, <1>5 DEF ReaderOK
  <2>3. Holds(in0', "A", running) /\ Holds(in1', "B", running)
    BY <1>1, <1>3, <2>1, <2>2, MoveHolds DEF Running
  <2>4. /\ IsBuffer(in0') /\ in0'.pushed = in0.pushed + 1 /\ in0'.popped = in0.popped
        /\ in0'.page = in0.page
    BY <1>3, <2>1, MoveBuffer
  <2>5. Buffers'
    <3>1. Bounded(in0')
      BY <1>3, <2>1, <2>2, MoveBounded DEF CoreInv, Buffers
    <3> QED
      BY <1>2, <2>1, <2>4, <3>1 DEF CoreInv, Buffers, Bounded, IsBuffer
  <2>6. ReaderOK'
    BY <1>2, <1>3, <1>5, <2>1, <2>2, <2>4 DEF ReaderOK
  <2>7. MathOK'
    BY <1>2, <1>3, <2>1, <2>4, MathKept DEF HasFront, IsBuffer
  <2> QED
    BY <1>1, <1>2, <1>4, <2>3, <2>5, <2>6, <2>7 DEF CoreInv, CoreOK, Running, Holds
<1>6. CASE reader.at = "push1"
  <2>1. /\ in1' = Push(in1) /\ in0' = in0
        /\ reader' = [tile |-> reader.tile + 1,
                      at |-> IF reader.tile + 1 < NumTiles THEN "read0" ELSE "end"]
    BY <1>6 DEF PushTile
  <2>2. /\ in0.pushed = reader.tile + 1 /\ in1.pushed = reader.tile /\ HasRoom(in1)
        /\ reader.tile \in Nat /\ reader.tile < NumTiles
        /\ in1.page[WritePage(in1)] = <<"B", running, in1.pushed>>
    <3>1. reader.tile \in Nat /\ in1.pushed = reader.tile
      BY <1>3, TTAssumption DEF ReaderOK
    <3>2. /\ in0.pushed = reader.tile + 1 /\ HasRoom(in1) /\ reader.tile < NumTiles
          /\ in1.page[WritePage(in1)] = <<"B", running, reader.tile>>
      BY <1>2, <1>3, <1>6 DEF ReaderOK
    <3> QED
      BY <3>1, <3>2
  <2>3. Holds(in0', "A", running) /\ Holds(in1', "B", running)
    BY <1>1, <1>3, <2>1, <2>2, MoveHolds DEF Running
  <2>4. /\ IsBuffer(in1') /\ in1'.pushed = in1.pushed + 1 /\ in1'.popped = in1.popped
        /\ in1'.page = in1.page
    BY <1>3, <2>1, MoveBuffer
  <2>5. Buffers'
    <3>1. Bounded(in1')
      BY <1>3, <2>1, <2>2, MoveBounded DEF CoreInv, Buffers
    <3> QED
      BY <1>2, <2>1, <2>4, <3>1 DEF CoreInv, Buffers, Bounded, IsBuffer
  <2>6. ReaderOK'
    BY <1>2, <1>3, <1>6, <2>1, <2>2, <2>4, TTAssumption DEF ReaderOK
  <2>7. MathOK'
    BY <1>2, <1>3, <2>1, <2>4, MathKept DEF HasFront, IsBuffer
  <2> QED
    BY <1>1, <1>2, <1>4, <2>3, <2>5, <2>6, <2>7 DEF CoreInv, CoreOK, Running, Holds
<1> QED
  BY <1>5, <1>6 DEF PushTile

\* The registers are free when they are acquired, and empty after.
LEMMA AcquireStep ==
  ASSUME CoreInv, Acquire
  PROVE  CoreInv'
<1>1. Running
  BY DEF CoreInv, CoreOK, AtRest, Acquire
<1>2. /\ UNCHANGED <<dram, running, in0, in1, out, reader, fetching, pack, writer, storing>>
      /\ math.at = "acquire" /\ regs' = "math" /\ sum' = <<>>
      /\ math' = [math EXCEPT !.at = "multiply"]
  BY DEF Acquire
<1>3. ReaderOK /\ MathOK /\ OutOK
  BY <1>1 DEF Running
<1>4. Summed(0)'
  BY <1>2 DEF Summed
<1>5. MathOK'
  BY <1>2, <1>3, <1>4, TTAssumption DEF MathOK
<1>6. ReaderOK' /\ OutOK'
  BY <1>2, <1>3, ReaderKept, OutKept DEF Stored, Product, HasRoom
<1>7. Buffers'
  BY <1>2 DEF CoreInv, Buffers, Bounded, IsBuffer
<1> QED
  BY <1>1, <1>2, <1>5, <1>6, <1>7 DEF CoreInv, CoreOK, Running, Holds

\* The pair multiplied is the next one.
LEMMA MultiplyStep ==
  ASSUME CoreInv, Multiply
  PROVE  CoreInv'
<1>1. Running
  BY DEF CoreInv, CoreOK, AtRest, Multiply
<1>2. /\ UNCHANGED <<dram, running, in0, in1, out, reader, fetching, pack, regs, writer,
                     storing>>
      /\ math.at = "multiply" /\ HasFront(in0) /\ HasFront(in1)
      /\ sum' = Append(sum, <<Front(in0), Front(in1)>>)
      /\ math' = [math EXCEPT !.at = "pop0"]
  BY DEF Multiply, BothFronts
<1>3. ReaderOK /\ MathOK /\ OutOK /\ IsBuffer(in0) /\ IsBuffer(in1)
  BY <1>1 DEF CoreInv, Buffers, Running
<1>0. PICK n : n = math.tile
  OBVIOUS
<1>4. /\ n \in Nat /\ n < NumTiles /\ in0.popped = n /\ in1.popped = n
      /\ regs = "math" /\ pack = "wait" /\ Summed(n)
      /\ DOMAIN math = {"tile", "at"} /\ n \in 0 .. NumTiles
  BY <1>2, <1>3, <1>0, TTAssumption DEF MathOK
<1>5. Front(in0) = <<"A", running, n>> /\ Front(in1) = <<"B", running, n>>
  BY <1>1, <1>2, <1>3, <1>4, FrontTile DEF Running
<1>6. Summed(n + 1)'
  <2>1. <<Front(in0), Front(in1)>> = Product(running)[n + 1]
    BY <1>4, <1>5, Factor
  <2>2. sum' = [i \in 1 .. n + 1 |-> Product(running)[i]]
    BY <1>2, <1>4, <2>1, AppendNext DEF Summed
  <2> QED
    BY <1>2, <2>2 DEF Summed, Product
<1>7. math'.tile = n /\ math'.at = "pop0" /\ DOMAIN math' = {"tile", "at"}
  BY <1>2, <1>4, <1>0
<1>8. MathOK'
  BY <1>2, <1>4, <1>6, <1>7 DEF MathOK, HasFront
<1>9. ReaderOK' /\ OutOK'
  BY <1>2, <1>3, ReaderKept, OutKept DEF Stored, Product, HasRoom
<1>10. Buffers'
  BY <1>2 DEF CoreInv, Buffers, Bounded, IsBuffer
<1> QED
  BY <1>1, <1>2, <1>8, <1>9, <1>10 DEF CoreInv, CoreOK, Running, Holds

\* What is popped is multiplied; after the last tile the sum is whole.
LEMMA PopTileStep ==
  ASSUME CoreInv, PopTile
  PROVE  CoreInv'
<1>1. Running
  BY DEF CoreInv, CoreOK, AtRest, PopTile
<1>2. UNCHANGED <<dram, running, out, reader, fetching, pack, sum, writer, storing>>
  BY DEF PopTile
<1>3. ReaderOK /\ MathOK /\ OutOK /\ IsBuffer(in0) /\ IsBuffer(in1)
  BY <1>1 DEF CoreInv, Buffers, Running
<1>4. OutOK'
  BY <1>2, <1>3, OutKept DEF Stored, Product
<1>0. PICK n : n = math.tile
  OBVIOUS
<1>5. /\ n \in Nat /\ n < NumTiles /\ n \in 0 .. NumTiles /\ in1.popped = n
      /\ regs = "math" /\ pack = "wait" /\ Summed(n + 1) /\ HasFront(in1)
      /\ DOMAIN math = {"tile", "at"} /\ NumTiles \in Nat
  BY <1>3, <1>0, TTAssumption DEF MathOK, PopTile
<1>6. Summed(n + 1)'
  BY <1>2, <1>5 DEF Summed, Product
<1>7. CASE math.at = "pop0"
  <2>1. /\ in0' = Pop(in0) /\ in1' = in1 /\ regs' = regs
        /\ math' = [math EXCEPT !.at = "pop1"]
    BY <1>7 DEF PopTile
  <2>2. HasFront(in0) /\ in0.popped = n
    BY <1>3, <1>7, <1>0 DEF MathOK
  <2>3. /\ IsBuffer(in0') /\ in0'.pushed = in0.pushed /\ in0'.popped = n + 1
        /\ in0'.page = in0.page
    BY <1>3, <2>1, <2>2, MoveBuffer
  <2>4. Buffers'
    <3>1. Bounded(in0')
      BY <1>3, <2>1, <2>2, MoveBounded DEF CoreInv, Buffers
    <3> QED
      BY <1>2, <2>1, <2>3, <3>1 DEF CoreInv, Buffers, Bounded, IsBuffer
  <2>5. Holds(in0', "A", running) /\ Holds(in1', "B", running)
    BY <1>1, <1>3, <2>1, MoveHolds DEF Running
  <2>6. ReaderOK'
    <3>1. HasRoom(in0) => HasRoom(in0)'
      BY <1>3, <1>5, <2>2, <2>3, CircularBufferAssumption DEF HasRoom, IsBuffer
    <3> QED
      BY <1>2, <1>3, <2>1, <2>3, <3>1, ReaderKept DEF HasRoom
  <2>7. math'.tile = n /\ math'.at = "pop1" /\ DOMAIN math' = {"tile", "at"}
    BY <1>5, <1>0, <2>1
  <2>8. MathOK'
    BY <1>2, <1>5, <1>6, <2>1, <2>3, <2>7 DEF MathOK, HasFront
  <2> QED
    BY <1>1, <1>2, <1>4, <2>4, <2>5, <2>6, <2>8 DEF CoreInv, CoreOK, Running, Holds
<1>8. CASE math.at = "pop1"
  <2>1. in1' = Pop(in1) /\ in0' = in0
    BY <1>8 DEF PopTile, PopB
  <2>2. in0.popped = n + 1
    BY <1>3, <1>8, <1>0 DEF MathOK
  <2>3. /\ IsBuffer(in1') /\ in1'.pushed = in1.pushed /\ in1'.popped = n + 1
        /\ in1'.page = in1.page
    BY <1>3, <1>5, <2>1, MoveBuffer
  <2>4. Buffers'
    <3>1. Bounded(in1')
      BY <1>3, <1>5, <2>1, MoveBounded DEF CoreInv, Buffers
    <3> QED
      BY <1>2, <2>1, <2>3, <3>1 DEF CoreInv, Buffers, Bounded, IsBuffer
  <2>5. Holds(in0', "A", running) /\ Holds(in1', "B", running)
    BY <1>1, <1>3, <2>1, MoveHolds DEF Running
  <2>6. ReaderOK'
    <3>1. HasRoom(in1) => HasRoom(in1)'
      BY <1>3, <1>5, <2>3, CircularBufferAssumption DEF HasRoom, IsBuffer
    <3> QED
      BY <1>2, <1>3, <2>1, <2>3, <3>1, ReaderKept DEF HasRoom
  <2>7. CASE n + 1 < NumTiles
    <3>1. math' = [tile |-> n + 1, at |-> "multiply"] /\ regs' = "math"
      BY <1>5, <1>8, <1>0, <2>7 DEF PopTile
    <3>2. MathOK'
      BY <1>2, <1>5, <1>6, <2>1, <2>2, <2>3, <2>7, <3>1 DEF MathOK
    <3> QED
      BY <1>1, <1>2, <1>4, <2>4, <2>5, <2>6, <3>2 DEF CoreInv, CoreOK, Running, Holds
  <2>8. CASE ~(n + 1 < NumTiles)
    <3>1. math' = [tile |-> n + 1, at |-> "end"] /\ regs' = "pack" /\ n + 1 = NumTiles
      BY <1>5, <1>8, <1>0, <2>8 DEF PopTile
    <3>2. MathOK'
      BY <1>2, <1>5, <1>6, <2>1, <2>2, <2>3, <3>1 DEF MathOK
    <3> QED
      BY <1>1, <1>2, <1>4, <2>4, <2>5, <2>6, <3>2 DEF CoreInv, CoreOK, Running, Holds
  <2> QED
    BY <2>7, <2>8
<1> QED
  BY <1>7, <1>8 DEF PopTile

\* The whole sum is packed, into page 0.
LEMMA PackStep ==
  ASSUME CoreInv, Pack
  PROVE  CoreInv'
<1>1. Running
  BY DEF CoreInv, CoreOK, AtRest, Pack
<1>2. /\ UNCHANGED <<dram, running, in0, in1, reader, fetching, math, sum, writer, storing>>
      /\ pack = "wait" /\ regs = "pack" /\ regs' = "free" /\ pack' = "end"
      /\ HasRoom(out) /\ out' = Push(Fill(out, WritePage(out), sum))
  BY DEF Pack
<1>3. ReaderOK /\ MathOK /\ OutOK /\ IsBuffer(out) /\ Bounded(out)
  BY <1>1 DEF CoreInv, Buffers, Running
<1>4. out.pushed = 0 /\ out.popped = 0 /\ writer = "wait" /\ storing = {}
  BY <1>2, <1>3 DEF OutOK
<1>5. math.at = "end" /\ math.tile = NumTiles /\ in0.popped = NumTiles /\ Summed(NumTiles)
  BY <1>2, <1>3 DEF MathOK
<1>6. sum = Product(running)
  BY <1>5 DEF Summed, Product
<1> DEFINE full == Fill(out, WritePage(out), sum)
<1>7. WritePage(out) = 0 /\ 0 \in 0 .. Pages - 1
  BY <1>4, CircularBufferAssumption, SMT DEF WritePage
<1>8. IsBuffer(full) /\ full.pushed = 0 /\ full.popped = 0 /\ full.page[0] = sum
  BY <1>3, <1>4, <1>7, FillBuffer
<1>9. IsBuffer(out') /\ out'.pushed = 1 /\ out'.popped = 0 /\ out'.page[0] = Product(running)
  <2> HIDE DEF full
  <2>1. IsBuffer(Push(full)) /\ Push(full).pushed = full.pushed + 1
        /\ Push(full).popped = full.popped /\ Push(full).page = full.page
    BY <1>8, MoveBuffer
  <2> QED
    BY <1>2, <1>6, <1>8, <2>1 DEF full
<1>10. Buffers'
  <2>1. Bounded(out')
    BY <1>9, CircularBufferAssumption DEF Bounded
  <2> QED
    BY <1>2, <1>9, <2>1 DEF CoreInv, Buffers, Bounded, IsBuffer
<1>11. MathOK'
  BY <1>2, <1>3, <1>5 DEF MathOK, Summed, Product
<1>12. OutOK'
  BY <1>2, <1>4, <1>9 DEF OutOK, Product
<1>13. ReaderOK'
  BY <1>2, <1>3, ReaderKept DEF HasRoom
<1> QED
  BY <1>1, <1>2, <1>10, <1>11, <1>12, <1>13 DEF CoreInv, CoreOK, Running, Holds

\* The page written is the packed one.
LEMMA IssueWriteStep ==
  ASSUME CoreInv, IssueWrite
  PROVE  CoreInv'
<1>1. Running
  BY DEF CoreInv, CoreOK, AtRest, IssueWrite
<1>2. /\ UNCHANGED <<dram, running, in0, in1, out, reader, fetching, math, pack, regs, sum>>
      /\ writer = "wait" /\ HasFront(out) /\ writer' = "pop"
      /\ storing' = storing \cup {[page |-> ReadPage(out), call |-> running]}
  BY DEF IssueWrite
<1>3. ReaderOK /\ MathOK /\ OutOK /\ IsBuffer(out)
  BY <1>1 DEF CoreInv, Buffers, Running
<1>4. /\ pack = "end" /\ out.pushed = 1 /\ out.popped = 0 /\ storing = {}
      /\ out.page[0] = Product(running)
  BY <1>2, <1>3 DEF OutOK, HasFront
<1>5. ReadPage(out) = 0
  BY <1>4, CircularBufferAssumption, SMT DEF ReadPage
<1>6. OutOK'
  BY <1>2, <1>4, <1>5 DEF OutOK, Product
<1>7. ReaderOK' /\ MathOK'
  BY <1>2, <1>3, ReaderKept, MathKept DEF HasRoom, HasFront
<1>8. Buffers'
  BY <1>2 DEF CoreInv, Buffers, Bounded, IsBuffer
<1> QED
  BY <1>1, <1>2, <1>6, <1>7, <1>8 DEF CoreInv, CoreOK, Running, Holds

\* The packed page is given back when it is in DRAM.
LEMMA PopResultStep ==
  ASSUME CoreInv, PopResult
  PROVE  CoreInv'
<1>1. Running
  BY DEF CoreInv, CoreOK, AtRest, PopResult
<1>2. /\ UNCHANGED <<dram, running, in0, in1, reader, fetching, math, pack, regs, sum, storing>>
      /\ writer = "pop" /\ storing = {} /\ out' = Pop(out) /\ writer' = "end"
  BY DEF PopResult, WriteBarrier
<1>3. ReaderOK /\ MathOK /\ OutOK /\ IsBuffer(out) /\ Bounded(out)
  BY <1>1 DEF CoreInv, Buffers, Running
<1>4. /\ pack = "end" /\ out.pushed = 1 /\ out.popped = 0 /\ Stored(running)
      /\ out.page[0] = Product(running)
  BY <1>2, <1>3 DEF OutOK
<1>5. /\ IsBuffer(out') /\ out'.pushed = 1 /\ out'.popped = 1
      /\ out'.page[0] = Product(running)
  BY <1>2, <1>3, <1>4, MoveBuffer
<1>6. Buffers'
  <2>1. Bounded(out')
    BY <1>5, CircularBufferAssumption DEF Bounded
  <2> QED
    BY <1>2, <1>5, <2>1 DEF CoreInv, Buffers, Bounded, IsBuffer
<1>7. OutOK'
  BY <1>2, <1>4, <1>5 DEF OutOK, Stored, Product
<1>8. ReaderOK' /\ MathOK'
  BY <1>2, <1>3, ReaderKept, MathKept DEF HasRoom, HasFront
<1> QED
  BY <1>1, <1>2, <1>6, <1>7, <1>8 DEF CoreInv, CoreOK, Running, Holds

-----------------------------------------------------------------------------
(***************************************************************************)
(* The host and the queue.  Sources are only written, and a result in DRAM *)
(* that is the sum stays it: that is all the rest relies on.               *)
(***************************************************************************)
HostInv == DramOK /\ QueueOK /\ HostOK

Grows ==
  \A c \in Call :
    /\ dram[c].a => dram'[c].a
    /\ dram[c].b => dram'[c].b
    /\ Stored(c) => Stored(c)'

\* The host's part survives every step that only adds to DRAM.
LEMMA HostKept ==
  ASSUME QueueOK, HostOK, DramOK', Grows, UNCHANGED <<hostVars, queue>>
  PROVE  HostInv'
<1>1. UNCHANGED <<host, result, queue>>
  BY DEF hostVars
<1>2. QueueOK'
  <2> SUFFICES ASSUME NEW i \in 1 .. Len(queue) PROVE Ready(i, queue[i].call)'
    BY <1>1 DEF QueueOK
  <2>1. queue[i].call \in Call /\ Ready(i, queue[i].call)
    <3>1. queue[i] \in Commands
      BY ElementOfSeq DEF QueueOK
    <3> QED
      BY <3>1 DEF QueueOK, Commands
  <2> QED
    BY <1>1, <2>1 DEF Ready, Ahead, Grows, Command
<1>3. HostOK'
  <2> SUFFICES ASSUME NEW c \in Call PROVE CallOK(c)'
    BY <1>1 DEF HostOK
  <2>1. CallOK(c)
    BY DEF HostOK
  <2>2. \A what : Queued(what, c) => Queued(what, c)'
    BY <1>1 DEF Queued, Command
  <2>3. UNCHANGED <<host, result>> /\ (Product(c))' = Product(c)
    BY <1>1 DEF Product
  <2> QED
    BY <2>1, <2>2, <2>3 DEF CallOK, Grows
<1> QED
  BY <1>2, <1>3 DEF HostInv

\* The kernels' part survives every step that only adds to DRAM.
LEMMA CoreKept ==
  ASSUME CoreInv, Grows, UNCHANGED <<running, kernelVars>>
  PROVE  CoreInv'
<1>1. UNCHANGED <<running, in0, in1, out, reader, fetching, math, pack, regs, sum, writer,
                  storing>>
  BY DEF kernelVars
<1>2. Buffers'
  BY <1>1 DEF CoreInv, Buffers, Bounded, IsBuffer
<1>3. CASE running = NoCall /\ AtRest
  BY <1>1, <1>2, <1>3 DEF CoreInv, CoreOK, AtRest
<1>4. CASE Running
  <2>1. running \in Call /\ ReaderOK /\ MathOK /\ OutOK
    BY <1>4 DEF Running
  <2>2. ReaderOK' /\ MathOK'
    BY <1>1, <2>1, ReaderKept, MathKept DEF HasRoom, HasFront
  <2>3. OutOK'
    BY <1>1, <2>1, OutKept DEF Grows
  <2> QED
    BY <1>1, <1>2, <1>4, <2>1, <2>2, <2>3 DEF CoreInv, CoreOK, Running, Holds, Grows
<1> QED
  BY <1>3, <1>4 DEF CoreInv, CoreOK

\* What is written to DRAM is the sum of the call that runs.
LEMMA StoreStep ==
  ASSUME CoreInv, HostInv, NEW w \in storing, Store(w)
  PROVE  CoreInv' /\ HostInv'
<1>1. Running
  BY DEF CoreInv, CoreOK, AtRest
<1>2. /\ UNCHANGED <<running, in0, in1, out, reader, fetching, math, pack, regs, sum, writer>>
      /\ UNCHANGED <<hostVars, queue>> /\ storing' = storing \ {w}
      /\ dram' = [dram EXCEPT ![w.call].dst["rows0to7"] = out.page[w.page]]
  BY DEF Store
<1>3. running \in Call /\ ReaderOK /\ MathOK /\ OutOK /\ DramOK
  BY <1>1 DEF HostInv, Running
<1>4. /\ w = [page |-> 0, call |-> running] /\ storing = {w} /\ writer = "pop"
      /\ pack = "end" /\ out.pushed = 1 /\ out.popped = 0
      /\ out.page[0] = Product(running)
  BY <1>3 DEF OutOK
<1>5. dram' = [dram EXCEPT ![running].dst["rows0to7"] = Product(running)] /\ storing' = {}
  BY <1>2, <1>4
<1>6. DramOK'
  BY <1>3, <1>5 DEF DramOK, Parts
<1>7. Grows /\ Stored(running)'
  <2>1. \A c \in Call : dram'[c].a = dram[c].a /\ dram'[c].b = dram[c].b
    BY <1>3, <1>5 DEF DramOK
  <2>2. dram'[running].dst["rows0to7"] = Product(running)
    BY <1>3, <1>5 DEF DramOK, Parts
  <2>3. \A c \in Call : c # running => dram'[c] = dram[c]
    BY <1>3, <1>5 DEF DramOK
  <2> QED
    BY <1>2, <2>1, <2>2, <2>3 DEF Grows, Stored, Product
<1>8. HostInv'
  BY <1>2, <1>6, <1>7, HostKept DEF HostInv
<1>9. OutOK'
  BY <1>2, <1>4, <1>5, <1>7 DEF OutOK, Product
<1>10. ReaderOK' /\ MathOK'
  BY <1>2, <1>3, ReaderKept, MathKept DEF HasRoom, HasFront
<1>11. Buffers'
  BY <1>2 DEF CoreInv, Buffers, Bounded, IsBuffer
<1> QED
  BY <1>1, <1>2, <1>3, <1>7, <1>8, <1>9, <1>10, <1>11
  DEF CoreInv, CoreOK, Running, Holds, Grows

\* The queue without its first command.
LEMMA QueueTail ==
  ASSUME QueueOK, queue # <<>>
  PROVE  /\ Tail(queue) \in Seq(Commands) /\ Len(queue) \in Nat
         /\ Len(Tail(queue)) = Len(queue) - 1 /\ 1 \in 1 .. Len(queue)
         /\ Head(queue) = queue[1] /\ queue[1] \in Commands
         /\ \A i \in 1 .. Len(queue) - 1 : Tail(queue)[i] = queue[i + 1]
<1>1. queue \in Seq(Commands)
  BY DEF QueueOK
<1>2. /\ Head(queue) \in Commands /\ Tail(queue) \in Seq(Commands)
      /\ Len(Tail(queue)) = Len(queue) - 1
      /\ \A i \in 1 .. Len(Tail(queue)) : Tail(queue)[i] = queue[i + 1]
  BY <1>1, HeadTailProperties
<1>3. Len(queue) \in Nat /\ Len(queue) # 0
  BY <1>1, EmptySeq, LenProperties
<1>4. Head(queue) = queue[1]
  BY <1>1, SMT
<1> QED
  BY <1>2, <1>3, <1>4

\* The queue with one command more.
LEMMA QueueAppend ==
  ASSUME QueueOK, NEW e \in Commands
  PROVE  LET new == Append(queue, e) IN
         /\ new \in Seq(Commands) /\ Len(queue) \in Nat /\ Len(new) = Len(queue) + 1
         /\ new[Len(queue) + 1] = e
         /\ \A i \in 1 .. Len(queue) : new[i] = queue[i]
<1>1. queue \in Seq(Commands)
  BY DEF QueueOK
<1>2. Len(queue) \in Nat
  BY <1>1, LenProperties
<1> QED
  BY <1>1, <1>2, AppendProperties

\* The order of a call's steps.
LEMMA AfterStep ==
  /\ After("writeA") = "writeB" /\ After("writeB") = "launch" /\ After("launch") = "finish"
  /\ After("finish") = "read" /\ After("read") = "await" /\ After("await") = "done"
<1>1. Len(HostSteps) - 1 = 6
  BY DEF HostSteps
<1>2. 1 .. 6 = {1, 2, 3, 4, 5, 6}
  OBVIOUS
<1>3. /\ HostSteps[1] = "writeA" /\ HostSteps[2] = "writeB" /\ HostSteps[3] = "launch"
      /\ HostSteps[4] = "finish" /\ HostSteps[5] = "read" /\ HostSteps[6] = "await"
      /\ HostSteps[7] = "done"
  BY DEF HostSteps
<1>4. ASSUME NEW n \in 1 .. 6 PROVE After(HostSteps[n]) = HostSteps[n + 1]
  <2>1. \A i \in 1 .. 6 : HostSteps[i] = HostSteps[n] => i = n
    BY <1>2, <1>3, <1>4
  <2>2. (CHOOSE i \in 1 .. 6 : HostSteps[i] = HostSteps[n]) = n
    BY <1>4, <2>1
  <2> QED
    BY <1>1, <2>2 DEF After
<1> QED
  BY <1>2, <1>3, <1>4

-----------------------------------------------------------------------------
\* A command is queued after those it depends on.
LEMMA EnqueueStep ==
  ASSUME CoreInv, HostInv, NEW c \in Call, Enqueue(c)
  PROVE  CoreInv' /\ HostInv'
<1>0. PICK w : w = host[c]
  OBVIOUS
<1>1. /\ UNCHANGED <<result, dram, running, kernelVars>>
      /\ w \in {"writeA", "writeB", "launch", "read"}
      /\ queue' = Append(queue, Command(w, c))
      /\ host' = [host EXCEPT ![c] = After(w)]
  BY <1>0 DEF Enqueue, Advance, Command
<1>2. QueueOK /\ HostOK /\ DramOK
  BY DEF HostInv
<1>3. Grows
  BY <1>1 DEF Grows, Stored, Product
<1>4. CoreInv'
  BY <1>1, <1>3, CoreKept
<1>5. DramOK'
  BY <1>1, <1>2 DEF DramOK
<1> DEFINE e == Command(w, c)
<1>6. e \in Commands
  BY <1>1 DEF Command, Commands
<1>7. /\ queue' \in Seq(Commands) /\ Len(queue) \in Nat /\ Len(queue') = Len(queue) + 1
      /\ queue'[Len(queue) + 1] = e
      /\ \A i \in 1 .. Len(queue) : queue'[i] = queue[i]
  <2> HIDE DEF e
  <2> QED
    BY <1>1, <1>2, <1>6, QueueAppend DEF e
<1>8. \A what, d : Queued(what, d) => Queued(what, d)'
  BY <1>7 DEF Queued, Command
<1>9. Queued(w, c)'
  BY <1>7 DEF Queued, Command
<1>10. QueueOK'
  <2> SUFFICES ASSUME NEW i \in 1 .. Len(queue) + 1 PROVE Ready(i, queue[i].call)'
    BY <1>7 DEF QueueOK
  <2>1. CASE i \in 1 .. Len(queue)
    <3>1. queue[i] \in Commands
      BY <1>2, <2>1, ElementOfSeq DEF QueueOK
    <3>2. Ready(i, queue[i].call) /\ queue'[i] = queue[i] /\ queue[i].call \in Call
      BY <1>2, <1>7, <2>1, <3>1 DEF QueueOK, Commands
    <3>3. \A k \in 1 .. i - 1 : queue'[k] = queue[k]
      BY <1>7, <2>1
    <3> QED
      BY <1>1, <1>7, <3>2, <3>3 DEF Ready, Ahead, Stored, Product, Command
  <2>2. CASE i = Len(queue) + 1
    <3>1. queue'[i].what = w /\ queue'[i].call = c /\ i - 1 = Len(queue)
      BY <1>7, <2>2 DEF Command
    <3>2. CallOK(c)
      BY <1>2 DEF HostOK
    <3>3. \A what : Queued(what, c) => Ahead(i, what, c)'
      BY <1>7, <3>1 DEF Queued, Ahead, Command
    <3> QED
      BY <1>0, <1>1, <3>1, <3>2, <3>3 DEF Ready, CallOK, Stored, Product
  <2> QED
    BY <1>7, <2>1, <2>2
<1>11. HostOK'
  <2>1. /\ host' \in [Call -> {"writeA", "writeB", "launch", "finish", "read", "await",
                              "done"}]
        /\ DOMAIN result' = Call
    BY <1>1, <1>2, AfterStep DEF HostOK
  <2>2. ASSUME NEW d \in Call PROVE CallOK(d)'
    <3>1. CallOK(d)
      BY <1>2 DEF HostOK
    <3>2. CASE d # c
      <4>1. host'[d] = host[d]
        BY <1>1, <1>2, <3>2 DEF HostOK
      <4> QED
        BY <1>1, <1>8, <3>1, <4>1 DEF CallOK, Stored, Product
    <3>3. CASE d = c
      <4>1. host'[c] = After(w) /\ host[c] = w
        BY <1>0, <1>1, <1>2 DEF HostOK
      <4>2. Stored(c) => Stored(c)'
        BY <1>3 DEF Grows
      <4>3. CASE w = "writeA"
        BY <1>9, <3>3, <4>1, <4>3, AfterStep DEF CallOK
      <4>4. CASE w = "writeB"
        BY <1>1, <1>8, <1>9, <3>1, <3>3, <4>1, <4>4, AfterStep DEF CallOK
      <4>5. CASE w = "launch"
        BY <1>9, <3>3, <4>1, <4>5, AfterStep DEF CallOK
      <4>6. CASE w = "read"
        BY <1>9, <3>1, <3>3, <4>1, <4>2, <4>6, AfterStep DEF CallOK
      <4> QED
        BY <1>1, <4>3, <4>4, <4>5, <4>6
    <3> QED
      BY <3>2, <3>3
  <2> QED
    BY <2>1, <2>2 DEF HostOK
<1> QED
  BY <1>4, <1>5, <1>10, <1>11 DEF HostInv

\* Finish and Collect return what the commands they waited for have done.
LEMMA ReturnStep ==
  ASSUME CoreInv, HostInv, NEW c \in Call, Finish(c) \/ Collect(c)
  PROVE  CoreInv' /\ HostInv'
<1>1. /\ UNCHANGED <<result, queue, dram, running, kernelVars>>
      /\ host' = [host EXCEPT ![c] = After(host[c])]
      /\ \/ host[c] = "finish" /\ queue = <<>>
         \/ host[c] = "await" /\ \A i \in 1 .. Len(queue) : queue[i].call # c
  BY DEF Finish, Collect, Advance
<1>2. QueueOK /\ HostOK /\ DramOK /\ CallOK(c)
  BY DEF HostInv, HostOK
<1>3. Grows
  BY <1>1 DEF Grows, Stored, Product
<1>4. CoreInv'
  BY <1>1, <1>3, CoreKept
<1>5. DramOK'
  BY <1>1, <1>2 DEF DramOK
<1>6. QueueOK'
  <2> SUFFICES ASSUME NEW i \in 1 .. Len(queue) PROVE Ready(i, queue[i].call)'
    BY <1>1, <1>2 DEF QueueOK
  <2>1. Ready(i, queue[i].call)
    BY <1>2 DEF QueueOK
  <2> QED
    BY <1>1, <2>1 DEF Ready, Ahead, Stored, Product, Command
<1>7. CASE host[c] = "finish"
  <2>1. Stored(c)
    BY <1>1, <1>2, <1>7 DEF CallOK, Queued
  <2> QED
    BY <1>1, <1>2, <1>4, <1>5, <1>6, <1>7, <2>1, AfterStep
    DEF HostInv, HostOK, CallOK, Queued, Stored, Product, Command
<1>8. CASE host[c] = "await"
  <2>1. ~Queued("read", c)
    BY <1>1, <1>8 DEF Queued, Command
  <2>2. Stored(c) /\ result[c]["rows0to7"] = Product(c)
    BY <1>2, <1>8, <2>1 DEF CallOK
  <2> QED
    BY <1>1, <1>2, <1>4, <1>5, <1>6, <1>8, <2>2, AfterStep
    DEF HostInv, HostOK, CallOK, Queued, Stored, Product, Command
<1> QED
  BY <1>1, <1>7, <1>8

\* A program starts on an idle core, with its sources in DRAM.
LEMMA LaunchStep ==
  ASSUME CoreInv, HostInv, Launch
  PROVE  CoreInv' /\ HostInv'
<1>1. /\ UNCHANGED <<hostVars, queue, dram, fetching, regs, sum, storing>>
      /\ queue # <<>> /\ Head(queue).what = "launch" /\ running = NoCall
      /\ running' = Head(queue).call
      /\ in0' = Reset(in0) /\ in1' = Reset(in1) /\ out' = Reset(out)
      /\ reader' = [tile |-> 0, at |-> "read0"] /\ math' = [tile |-> 0, at |-> "acquire"]
      /\ pack' = "wait" /\ writer' = "wait"
  BY DEF Launch
<1>2. QueueOK /\ HostOK /\ DramOK /\ IsBuffer(in0) /\ IsBuffer(in1) /\ IsBuffer(out)
  BY DEF CoreInv, Buffers, HostInv
<1>3. HostInv'
  <2>1. Grows
    BY <1>1 DEF Grows, Stored, Product
  <2>2. DramOK'
    BY <1>1, <1>2 DEF DramOK
  <2> QED
    BY <1>1, <1>2, <2>1, <2>2, HostKept
<1>4. AtRest
  BY <1>1, TTAssumption DEF CoreInv, CoreOK, Running
<1>5. /\ running' \in Call /\ dram'[running'].a /\ dram'[running'].b
  <2>1. Head(queue) = queue[1] /\ queue[1] \in Commands /\ 1 \in 1 .. Len(queue)
    BY <1>1, <1>2, QueueTail
  <2>2. Ready(1, queue[1].call)
    BY <1>2, <2>1 DEF QueueOK
  <2> QED
    BY <1>1, <2>1, <2>2 DEF Ready, Ahead, Commands
<1>6. /\ IsBuffer(in0') /\ IsBuffer(in1') /\ IsBuffer(out')
      /\ in0'.pushed = 0 /\ in1'.pushed = 0 /\ out'.pushed = 0
      /\ in0'.popped = 0 /\ in1'.popped = 0 /\ out'.popped = 0
  BY <1>1, <1>2, MoveBuffer
<1>7. Buffers'
  BY <1>6, CircularBufferAssumption DEF Buffers, Bounded, IsBuffer
<1>8. Holds(in0, "A", running)' /\ Holds(in1, "B", running)'
  BY <1>6 DEF Holds
<1>9. ReaderOK'
  BY <1>1, <1>4, <1>6, TTAssumption DEF ReaderOK, AtRest
<1>10. MathOK' /\ OutOK'
  BY <1>1, <1>4, <1>6, TTAssumption DEF MathOK, OutOK, AtRest
<1> QED
  BY <1>3, <1>5, <1>7, <1>8, <1>9, <1>10 DEF CoreInv, CoreOK, Running

\* A command does what the calls that queued it rely on.
LEMMA RunCommandStep ==
  ASSUME CoreInv, HostInv, RunCommand
  PROVE  CoreInv' /\ HostInv'
<1>0. PICK d, w : d = Head(queue).call /\ w = Head(queue).what
  OBVIOUS
<1>1. queue # <<>> /\ queue' = Tail(queue) /\ UNCHANGED host
  BY DEF RunCommand
<1>2. QueueOK /\ HostOK /\ DramOK
  BY DEF HostInv
<1>3. /\ queue' \in Seq(Commands) /\ Len(queue) \in Nat /\ Len(queue') = Len(queue) - 1
      /\ \A i \in 1 .. Len(queue) - 1 : queue'[i] = queue[i + 1]
      /\ queue[1] = Command(w, d) /\ d \in Call /\ w \in {"writeA", "writeB", "launch", "read"}
      /\ 1 \in 1 .. Len(queue)
  BY <1>0, <1>1, <1>2, QueueTail DEF Command, Commands
<1>4. Ready(1, d)
  BY <1>2, <1>3 DEF QueueOK, Command
<1>5. /\ DramOK' /\ Grows /\ DOMAIN result' = Call /\ CoreInv'
      /\ w = "writeA" => dram'[d].a
      /\ w = "writeB" => dram'[d].b
      /\ w = "launch" => Stored(d)'
      /\ w = "read" => result'[d]["rows0to7"] = Product(d)
      /\ \A x \in Call : result[x]["rows0to7"] = Product(x) => result'[x]["rows0to7"] = Product(x)
  <2>1. CASE w \in {"writeA", "writeB"}
    <3>1. /\ UNCHANGED <<result, running, kernelVars>>
          /\ \/ w = "writeA" /\ dram' = [dram EXCEPT ![d].a = TRUE]
             \/ w = "writeB" /\ dram' = [dram EXCEPT ![d].b = TRUE]
      BY <1>0, <2>1 DEF RunCommand
    <3>2. DramOK'
      BY <1>2, <1>3, <3>1 DEF DramOK
    <3>3. Grows /\ (w = "writeA" => dram'[d].a) /\ (w = "writeB" => dram'[d].b)
      <4>1. ASSUME NEW x \in Call PROVE dram'[x].dst = dram[x].dst
        <5>1. DOMAIN dram = Call /\ DOMAIN dram[x] = {"a", "b", "dst"}
          BY <1>2 DEF DramOK
        <5>2. dram'[x] = dram[x] \/ dram'[x] = [dram[x] EXCEPT !.a = TRUE]
                \/ dram'[x] = [dram[x] EXCEPT !.b = TRUE]
          BY <1>3, <3>1, <5>1
        <5> QED
          BY <5>1, <5>2
      <4>2. \A x \in Call : (dram[x].a => dram'[x].a) /\ (dram[x].b => dram'[x].b)
        BY <1>2, <1>3, <3>1 DEF DramOK
      <4>3. (w = "writeA" => dram'[d].a) /\ (w = "writeB" => dram'[d].b)
        BY <1>2, <1>3, <3>1 DEF DramOK
      <4> QED
        BY <4>1, <4>2, <4>3 DEF Grows, Stored, Product
    <3>4. CoreInv'
      BY <3>1, <3>3, CoreKept
    <3> QED
      BY <1>2, <2>1, <3>1, <3>2, <3>3, <3>4 DEF HostOK
  <2>2. CASE w = "read"
    <3>1. /\ UNCHANGED <<dram, running, kernelVars>>
          /\ result' = [result EXCEPT ![d] = dram[d].dst]
      BY <1>0, <2>2 DEF RunCommand
    <3>2. DramOK' /\ Grows
      BY <1>2, <3>1 DEF DramOK, Grows, Stored, Product
    <3>3. Stored(d)
      BY <1>3, <1>4, <2>2 DEF Ready, Command
    <3>4. DOMAIN result = Call
      BY <1>2 DEF HostOK
    <3>5. /\ result'[d]["rows0to7"] = Product(d) /\ DOMAIN result' = Call
          /\ \A x \in Call : x # d => result'[x] = result[x]
      BY <1>3, <3>1, <3>3, <3>4 DEF Stored
    <3>6. CoreInv'
      BY <3>1, <3>2, CoreKept
    <3> QED
      BY <2>2, <3>2, <3>5, <3>6
  <2>3. CASE w = "launch"
    <3>1. /\ UNCHANGED <<result, dram, kernelVars>>
          /\ running = d /\ running' = NoCall
          /\ reader.at = "end" /\ math.at = "end" /\ pack = "end" /\ writer = "end"
      BY <1>0, <2>3 DEF RunCommand
    <3>2. DramOK' /\ Grows
      BY <1>2, <3>1 DEF DramOK, Grows, Stored, Product
    <3>3. ReaderOK /\ MathOK /\ OutOK
      BY <1>3, <3>1, TTAssumption DEF CoreInv, CoreOK, Running
    <3>4. Stored(d)
      BY <3>1, <3>3 DEF OutOK
    <3>5. AtRest
      BY <3>1, <3>3 DEF AtRest, ReaderOK, MathOK, OutOK
    <3>6. CoreInv'
      BY <3>1, <3>5 DEF CoreInv, CoreOK, AtRest, Buffers, Bounded, IsBuffer, kernelVars
    <3> QED
      BY <1>2, <1>3, <2>3, <3>1, <3>2, <3>4, <3>6 DEF Grows, HostOK
  <2> QED
    BY <1>3, <2>1, <2>2, <2>3
<1>6. \A what : \A x \in Call :
        Queued(what, x) => Queued(what, x)' \/ (what = w /\ x = d)
  <2> SUFFICES ASSUME NEW what, NEW x \in Call, Queued(what, x), ~(what = w /\ x = d)
               PROVE  Queued(what, x)'
    OBVIOUS
  <2>1. PICK k \in 1 .. Len(queue) : queue[k] = Command(what, x)
    BY DEF Queued
  <2>2. k # 1
    BY <1>3, <2>1 DEF Command
  <2>3. k - 1 \in 1 .. Len(queue') /\ queue'[k - 1] = Command(what, x)
    BY <1>3, <2>1, <2>2
  <2> QED
    BY <2>3 DEF Queued, Command
<1>7. QueueOK'
  <2> SUFFICES ASSUME NEW i \in 1 .. Len(queue) - 1 PROVE Ready(i, queue[i].call)'
    BY <1>3 DEF QueueOK
  <2>1. PICK x : x = queue[i + 1].call
    OBVIOUS
  <2>2. i + 1 \in 1 .. Len(queue) /\ queue'[i] = queue[i + 1]
    BY <1>3
  <2>3. x \in Call /\ Ready(i + 1, x) /\ queue'[i].call = x
    <3>1. queue[i + 1] \in Commands
      BY <1>2, <2>2, ElementOfSeq DEF QueueOK
    <3> QED
      BY <1>2, <2>1, <2>2, <3>1 DEF QueueOK, Commands
  <2>4. \A what : Ahead(i + 1, what, x) => Ahead(i, what, x)' \/ (what = w /\ x = d)
    <3> SUFFICES ASSUME NEW what, Ahead(i + 1, what, x), ~(what = w /\ x = d)
                 PROVE  Ahead(i, what, x)'
      OBVIOUS
    <3>1. PICK k \in 1 .. i : queue[k] = Command(what, x)
      BY DEF Ahead
    <3>2. k # 1
      BY <1>3, <3>1 DEF Command
    <3>3. k - 1 \in 1 .. i - 1 /\ queue'[k - 1] = Command(what, x)
      BY <1>3, <3>1, <3>2
    <3> QED
      BY <3>3 DEF Ahead, Command
  <2>5. Ready(i, x)'
    BY <1>5, <2>2, <2>3, <2>4 DEF Ready, Grows
  <2> QED
    BY <2>3, <2>5
<1>8. HostOK'
  <2> SUFFICES ASSUME NEW x \in Call PROVE CallOK(x)'
    BY <1>1, <1>2, <1>5 DEF HostOK
  <2>1. CallOK(x)
    BY <1>2 DEF HostOK
  <2>2. (Product(x))' = Product(x) /\ host' = host
    BY <1>1 DEF Product
  <2> QED
    BY <1>5, <1>6, <2>1, <2>2 DEF CallOK, Grows
<1> QED
  BY <1>5, <1>7, <1>8 DEF HostInv

-----------------------------------------------------------------------------
(***************************************************************************)
(* The invariant holds, and what follows from it.                          *)
(***************************************************************************)
\* The invariant holds at first,
LEMMA InitInv == Init => IInv
<1> SUFFICES ASSUME Init PROVE IInv
  OBVIOUS
<1>1. \A bytes : IsBuffer(Fresh(bytes)) /\ Fresh(bytes).pushed = 0 /\ Fresh(bytes).popped = 0
  BY DEF Fresh, IsBuffer
<1>2. Buffers
  BY <1>1, CircularBufferAssumption DEF Init, Buffers, Bounded
<1>3. DramOK
  BY DEF Init, DramOK, NoResult, Parts
<1>4. QueueOK
  BY EmptySeq DEF Init, QueueOK
<1>5. HostOK
  BY DEF Init, HostOK, CallOK
<1>6. CoreOK
  BY DEF Init, CoreOK, AtRest
<1> QED
  BY <1>2, <1>3, <1>4, <1>5, <1>6 DEF IInv

\* every step keeps it,
LEMMA NextInv == IInv /\ [Next]_vars => IInv'
<1> SUFFICES ASSUME IInv, [Next]_vars PROVE IInv'
  OBVIOUS
<1>1. CoreInv /\ HostInv
  BY DEF IInv, CoreInv, HostInv
<1>2. ASSUME UNCHANGED <<hostVars, queue, dram>>, CoreInv' PROVE IInv'
  <2>1. Grows
    BY <1>2 DEF Grows, Stored, Product
  <2>2. DramOK'
    BY <1>1, <1>2 DEF HostInv, DramOK
  <2>3. HostInv'
    BY <1>1, <1>2, <2>1, <2>2, HostKept DEF HostInv
  <2> QED
    BY <1>2, <2>3 DEF IInv, CoreInv, HostInv
<1>3. ASSUME NEW c \in Call, HostStep(c) PROVE IInv'
  BY <1>1, <1>3, EnqueueStep, ReturnStep DEF HostStep, IInv, CoreInv, HostInv
<1>4. CASE QueueStep
  BY <1>1, <1>4, RunCommandStep, LaunchStep DEF QueueStep, IInv, CoreInv, HostInv
<1>5. CASE ReaderStep
  <2>1. CoreInv'
    BY <1>1, <1>5, IssueReadStep, PushTileStep DEF ReaderStep
  <2>2. UNCHANGED <<hostVars, queue, dram>>
    BY <1>5 DEF ReaderStep, IssueRead, PushTile
  <2> QED
    BY <1>2, <2>1, <2>2
<1>6. CASE ComputeStep
  <2>1. CoreInv'
    BY <1>1, <1>6, AcquireStep, MultiplyStep, PopTileStep DEF ComputeStep
  <2>2. UNCHANGED <<hostVars, queue, dram>>
    BY <1>6 DEF ComputeStep, Acquire, Multiply, PopTile
  <2> QED
    BY <1>2, <2>1, <2>2
<1>7. CASE Pack
  <2>1. CoreInv' /\ UNCHANGED <<hostVars, queue, dram>>
    BY <1>1, <1>7, PackStep DEF Pack
  <2> QED
    BY <1>2, <2>1
<1>8. CASE WriterStep
  <2>1. CoreInv'
    BY <1>1, <1>8, IssueWriteStep, PopResultStep DEF WriterStep
  <2>2. UNCHANGED <<hostVars, queue, dram>>
    BY <1>8 DEF WriterStep, IssueWrite, PopResult
  <2> QED
    BY <1>2, <2>1, <2>2
<1>9. ASSUME NEW f \in fetching, Deliver(f) PROVE IInv'
  <2>1. CoreInv' /\ UNCHANGED <<hostVars, queue, dram>>
    BY <1>1, <1>9, DeliverStep DEF Deliver
  <2> QED
    BY <1>2, <2>1
<1>10. ASSUME NEW w \in storing, Store(w) PROVE IInv'
  BY <1>1, <1>10, StoreStep DEF IInv, CoreInv, HostInv
<1>11. CASE UNCHANGED vars
  <2>1. UNCHANGED <<hostVars, queue, dram>> /\ UNCHANGED <<running, kernelVars>>
    BY <1>11 DEF vars
  <2>2. CoreInv'
    <3>1. Grows
      BY <2>1 DEF Grows, Stored, Product
    <3> QED
      BY <1>1, <2>1, <3>1, CoreKept
  <2> QED
    BY <1>2, <2>1, <2>2
<1> QED
  BY <1>3, <1>4, <1>5, <1>6, <1>7, <1>8, <1>9, <1>10, <1>11 DEF Next, NocStep, Terminating

\* and so it always holds.
LEMMA Invariant == Spec => []IInv
BY InitInv, NextInv, PTL DEF Spec

\* The compute kernel multiplies its own program's tiles, the k-th of A with
\* the k-th of B, for any number of tiles and pages
\* (reader_matmul.cpp:13-25, compute_matmul.cpp:12-21).
THEOREM TilesPaired == Spec => []PairsInOrder
<1>1. IInv => PairsInOrder
  <2> SUFFICES ASSUME IInv PROVE PairsInOrder
    OBVIOUS
  <2>1. ASSUME regs \in {"math", "pack"}
        PROVE  sum = [i \in 1 .. Len(sum) |-> Product(running)[i]]
    <3>1. MathOK
      BY <2>1 DEF IInv, CoreOK, AtRest, Running
    <3>2. PICK n \in Nat : Summed(n)
      BY <2>1, <3>1, TTAssumption DEF MathOK
    <3> QED
      BY <3>2, SummedLength DEF Summed
  <2> QED
    BY <2>1 DEF IInv, Buffers, Bounded, PairsInOrder
<1> QED
  BY <1>1, Invariant, PTL

\* Each call reads its own full sum back, whatever other threads have put in
\* the command queue, for any number of calls (compute_tt.cpp:165-202).
THEOREM CallsGetTheirSum == Spec => []OwnResult
<1>1. IInv => OwnResult
  BY DEF IInv, HostOK, CallOK, OwnResult
<1> QED
  BY <1>1, Invariant, PTL
=============================================================================
