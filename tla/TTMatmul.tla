------------------------------ MODULE TTMatmul -------------------------------
(***************************************************************************)
(* TTComputeDevice::matmul (src/src/compute_tt.cpp) and the three kernels  *)
(* it runs on one Tensix core (src/src/kernels/).  Several mining threads  *)
(* call matmul on the one device at the same time; their commands meet in  *)
(* the device's command queue.  The core runs one program at a time: the   *)
(* reader fetches pairs of tiles through two circular buffers, the compute *)
(* kernel accumulates their products and packs the sum, and the writer     *)
(* writes it to DRAM.                                                      *)
(*                                                                         *)
(* A tile is known by its matrix, call and number.  A sum of products is   *)
(* the sequence of the pairs of tiles multiplied.  The command queue, the  *)
(* network-on-chip and the registers are TT-Metal's: they are modelled     *)
(* from how this code uses them.                                           *)
(***************************************************************************)
EXTENDS Integers, Sequences, CircularBuffer

CONSTANTS
  Call,       (* the calls of matmul, each by a thread of its own          *)
  NumTiles,   (* num_tiles: K / 32                                         *)
  Stale,      (* bytes nobody has written for this call                    *)
  NoCall

ASSUME TTAssumption ==
  /\ NumTiles \in Nat \ {0}
  /\ NoCall \notin Call

VARIABLES
  host,       (* where each call is                                        *)
  result,     (* result_vec of each call, in the two parts named below     *)
  queue,      (* the command queue                                         *)
  dram,       (* the three DRAM buffers of each call                       *)
  running,    (* the call whose program is on the core, or NoCall          *)
  in0, in1, out,  (* circular buffers 0, 1 and 16                          *)
  reader,     (* the reader's loop counter and place                       *)
  fetching,   (* the reads the noc has under way: into which page, what    *)
  math, pack, (* the compute kernel: its math and its packing thread       *)
  regs,       (* who has the tile registers                                *)
  sum,        (* what is in tile register 0                                *)
  writer,     (* the writer's place                                        *)
  storing     (* the writes it has under way: from which page, for whom    *)

hostVars == <<host, result>>
kernelVars == <<in0, in1, out, reader, fetching, math, pack, regs, sum, writer,
                storing>>
vars == <<hostVars, queue, dram, running, kernelVars>>

\* result_vec in two parts: an Int32 tile is four pages of 1024 bytes, and
\* the loop that fills C reads the first (rows 0 to 7) and the second.
Parts == {"rows0to7", "rows8to15"}
NoResult == [p \in Parts |-> Stale]

\* What the reader finds at tile i of a source buffer, and the whole sum.
ATile(c, i) == IF dram[c].a THEN <<"A", c, i>> ELSE Stale
BTile(c, i) == IF dram[c].b THEN <<"B", c, i>> ELSE Stale
Product(c) == [i \in 1 .. NumTiles |-> <<<<"A", c, i - 1>>, <<"B", c, i - 1>>>>]

Init ==
  /\ host = [c \in Call |-> "writeA"]
  /\ result = [c \in Call |-> NoResult]
  /\ queue = <<>>
  /\ dram = [c \in Call |-> [a |-> FALSE, b |-> FALSE, dst |-> NoResult]]
  /\ running = NoCall
  /\ in0 = Fresh(Stale) /\ in1 = Fresh(Stale) /\ out = Fresh(Stale)
  /\ reader = [tile |-> 0, at |-> "end"]
  /\ fetching = {}
  /\ math = [tile |-> 0, at |-> "end"]
  /\ pack = "end"
  /\ regs = "free"
  /\ sum = <<>>
  /\ writer = "end"
  /\ storing = {}

-----------------------------------------------------------------------------
(* The host: write both sources, launch, finish, and read the result.      *)

HostSteps == <<"writeA", "writeB", "launch", "finish", "read", "await", "done">>
After(step) ==
  HostSteps[(CHOOSE i \in 1 .. Len(HostSteps) - 1 : HostSteps[i] = step) + 1]
Advance(c) == host' = [host EXCEPT ![c] = After(@)]

Enqueue(c) ==
  /\ host[c] \in {"writeA", "writeB", "launch", "read"}
  /\ queue' = Append(queue, [what |-> host[c], call |-> c])
  /\ Advance(c)
  /\ UNCHANGED <<result, dram, running, kernelVars>>

\* Finish waits for every command in the queue, whoever put it there.
Finish(c) ==
  /\ host[c] = "finish"
  /\ queue = <<>>
  /\ Advance(c)
  /\ UNCHANGED <<result, queue, dram, running, kernelVars>>

\* The read is blocking: the call returns when its command has been run.
Collect(c) ==
  /\ host[c] = "await"
  /\ \A i \in 1 .. Len(queue) : queue[i].call # c
  /\ Advance(c)
  /\ UNCHANGED <<result, queue, dram, running, kernelVars>>

-----------------------------------------------------------------------------
(* The command queue of the device runs its commands in order.             *)

RunCommand ==
  /\ queue # <<>>
  /\ queue' = Tail(queue)
  /\ LET c == Head(queue).call IN
       \/ /\ Head(queue).what = "writeA"
          /\ dram' = [dram EXCEPT ![c].a = TRUE]
          /\ UNCHANGED <<result, running, kernelVars>>
       \/ /\ Head(queue).what = "writeB"
          /\ dram' = [dram EXCEPT ![c].b = TRUE]
          /\ UNCHANGED <<result, running, kernelVars>>
       \/ /\ Head(queue).what = "read"
          /\ result' = [result EXCEPT ![c] = dram[c].dst]
          /\ UNCHANGED <<dram, running, kernelVars>>
       \/ /\ Head(queue).what = "launch"
          /\ running = c
          /\ <<reader.at, math.at, pack, writer>> = <<"end", "end", "end", "end">>
          /\ running' = NoCall
          /\ UNCHANGED <<result, dram, kernelVars>>
  /\ UNCHANGED host

Launch ==
  /\ queue # <<>>
  /\ Head(queue).what = "launch"
  /\ running = NoCall
  /\ running' = Head(queue).call
  /\ in0' = Reset(in0) /\ in1' = Reset(in1) /\ out' = Reset(out)
  /\ reader' = [tile |-> 0, at |-> "read0"]
  /\ math' = [tile |-> 0, at |-> "acquire"]
  /\ pack' = "wait"
  /\ writer' = "wait"
  /\ UNCHANGED <<hostVars, queue, dram, fetching, regs, sum, storing>>

-----------------------------------------------------------------------------
(* The reader: for each tile, one of A through buffer 0 and then one of B  *)
(* through buffer 1.                                                       *)

IssueRead ==
  /\ \/ /\ reader.at = "read0"
        /\ HasRoom(in0)
        /\ fetching' = fetching \cup {[cb |-> 0, page |-> WritePage(in0), tile |-> reader.tile]}
        /\ reader' = [reader EXCEPT !.at = "push0"]
     \/ /\ reader.at = "read1"
        /\ HasRoom(in1)
        /\ fetching' = fetching \cup {[cb |-> 1, page |-> WritePage(in1), tile |-> reader.tile]}
        /\ reader' = [reader EXCEPT !.at = "push1"]
  /\ UNCHANGED <<hostVars, queue, dram, running, in0, in1, out, math, pack, regs, sum,
                 writer, storing>>

\* The noc delivers the bytes some time after the read was issued.
Deliver(f) ==
  /\ fetching' = fetching \ {f}
  /\ \/ f.cb = 0 /\ in0' = Fill(in0, f.page, ATile(running, f.tile)) /\ UNCHANGED in1
     \/ f.cb = 1 /\ in1' = Fill(in1, f.page, BTile(running, f.tile)) /\ UNCHANGED in0
  /\ UNCHANGED <<hostVars, queue, dram, running, out, reader, math, pack, regs, sum,
                 writer, storing>>

\* Mutant: the page is pushed without waiting for the noc.
NoBarrier == TRUE

ReadBarrier == fetching = {}

PushTile ==
  /\ ReadBarrier
  /\ \/ /\ reader.at = "push0"
        /\ in0' = Push(in0)
        /\ reader' = [reader EXCEPT !.at = "read1"]
        /\ UNCHANGED in1
     \/ /\ reader.at = "push1"
        /\ in1' = Push(in1)
        /\ reader' = [tile |-> reader.tile + 1,
                      at |-> IF reader.tile + 1 < NumTiles THEN "read0" ELSE "end"]
        /\ UNCHANGED in0
  /\ UNCHANGED <<hostVars, queue, dram, running, out, fetching, math, pack, regs, sum,
                 writer, storing>>

-----------------------------------------------------------------------------
(* The compute kernel.  Acquiring the registers clears them.               *)

Acquire ==
  /\ math.at = "acquire"
  /\ regs = "free"
  /\ regs' = "math"
  /\ sum' = <<>>
  /\ math' = [math EXCEPT !.at = "multiply"]
  /\ UNCHANGED <<hostVars, queue, dram, running, in0, in1, out, reader, fetching, pack,
                 writer, storing>>

\* cb_wait_front on both buffers
BothFronts == HasFront(in0) /\ HasFront(in1)

Multiply ==
  /\ math.at = "multiply"
  /\ BothFronts
  /\ sum' = Append(sum, <<Front(in0), Front(in1)>>)
  /\ math' = [math EXCEPT !.at = "pop0"]
  /\ UNCHANGED <<hostVars, queue, dram, running, in0, in1, out, reader, fetching, pack,
                 regs, writer, storing>>

\* Mutant: the tile of B is never popped.
ForgetB(cb) == cb

PopB(cb) == Pop(cb)

PopTile ==
  /\ \/ /\ math.at = "pop0"
        /\ in0' = Pop(in0)
        /\ math' = [math EXCEPT !.at = "pop1"]
        /\ UNCHANGED <<in1, regs>>
     \/ /\ math.at = "pop1"
        /\ in1' = PopB(in1)
        /\ \/ /\ math.tile + 1 < NumTiles
              /\ math' = [tile |-> math.tile + 1, at |-> "multiply"]
              /\ UNCHANGED regs
           \/ /\ math.tile + 1 >= NumTiles
              /\ math' = [tile |-> math.tile + 1, at |-> "end"]
              /\ regs' = "pack"
        /\ UNCHANGED in0
  /\ UNCHANGED <<hostVars, queue, dram, running, out, reader, fetching, pack, sum,
                 writer, storing>>

\* The packing thread: tile_regs_wait lets it go on when the math thread has
\* committed the registers; it releases them when the tile is packed.
Pack ==
  /\ pack = "wait"
  /\ regs = "pack"
  /\ HasRoom(out)
  /\ out' = Push(Fill(out, WritePage(out), sum))
  /\ regs' = "free"
  /\ pack' = "end"
  /\ UNCHANGED <<hostVars, queue, dram, running, in0, in1, reader, fetching, math, sum,
                 writer, storing>>

-----------------------------------------------------------------------------
(* The writer writes 1024 bytes of the packed tile.                        *)

IssueWrite ==
  /\ writer = "wait"
  /\ HasFront(out)
  /\ storing' = storing \cup {[page |-> ReadPage(out), call |-> running]}
  /\ writer' = "pop"
  /\ UNCHANGED <<hostVars, queue, dram, running, in0, in1, out, reader, fetching, math,
                 pack, regs, sum>>

Store(w) ==
  /\ storing' = storing \ {w}
  /\ dram' = [dram EXCEPT ![w.call].dst["rows0to7"] = out.page[w.page]]
  /\ UNCHANGED <<hostVars, queue, running, in0, in1, out, reader, fetching, math, pack,
                 regs, sum, writer>>

\* Mutant: the page is given back without waiting for the noc.
NoWriteBarrier == TRUE

WriteBarrier == storing = {}

PopResult ==
  /\ writer = "pop"
  /\ WriteBarrier
  /\ out' = Pop(out)
  /\ writer' = "end"
  /\ UNCHANGED <<hostVars, queue, dram, running, in0, in1, reader, fetching, math, pack,
                 regs, sum, storing>>

-----------------------------------------------------------------------------
HostStep(c) == Enqueue(c) \/ Finish(c) \/ Collect(c)
ReaderStep == IssueRead \/ PushTile
ComputeStep == Acquire \/ Multiply \/ PopTile
WriterStep == IssueWrite \/ PopResult
QueueStep == RunCommand \/ Launch
NocStep == (\E f \in fetching : Deliver(f)) \/ (\E w \in storing : Store(w))

\* Every call has returned; only deadlock checking needs this.
AllDone == \A c \in Call : host[c] = "done"
Terminating == AllDone /\ UNCHANGED vars

Next ==
  \/ \E c \in Call : HostStep(c)
  \/ QueueStep
  \/ ReaderStep
  \/ ComputeStep
  \/ Pack
  \/ WriterStep
  \/ NocStep
  \/ Terminating

Spec == Init /\ [][Next]_vars

\* Each host thread, each RISC-V core of the Tensix, the noc and the command
\* queue are processors of their own, and keep running.
FairSpec ==
  /\ Spec
  /\ \A c \in Call : WF_vars(HostStep(c))
  /\ WF_vars(QueueStep)
  /\ WF_vars(ReaderStep)
  /\ WF_vars(ComputeStep)
  /\ WF_vars(Pack)
  /\ WF_vars(WriterStep)
  /\ WF_vars(NocStep)

-----------------------------------------------------------------------------
(* Properties.                                                             *)

\* The compute kernel multiplies the tiles of its own program, the k-th of A
\* with the k-th of B, each once and in order: never a page the noc has not
\* filled yet, one left by another program, or one already overwritten
\* (reader_matmul.cpp:13-25, compute_matmul.cpp:12-21).  No buffer holds
\* more pages than it has, and none is popped empty.
PairsInOrder ==
  /\ regs \in {"math", "pack"} =>
       sum = [i \in 1 .. Len(sum) |-> Product(running)[i]]
  /\ \A cb \in {in0, in1, out} : cb.pushed - cb.popped \in 0 .. Pages

\* The bytes the writer does write are the full sum of the call they are
\* read back for, whatever the other threads have put in the queue.
OwnResult ==
  \A c \in Call : host[c] = "done" => result[c]["rows0to7"] = Product(c)

\* The pipeline does not stop with every kernel waiting for another, and
\* each call returns although Finish waits for the others' commands.
EveryCallReturns == \A c \in Call : <>(host[c] = "done")

\* The host copies the top-left 16x16 of the tile into C (compute_tt.cpp:
\* 204-209), and the writer is to have written "the 16x16 result" back
\* (writer_matmul.cpp:12): the rows the host reads would all be the sum.
WholeResultWritten ==
  \A c \in Call : host[c] = "done" => \A p \in Parts : result[c][p] = Product(c)
=============================================================================
