---------------------------- MODULE CircularBuffer ---------------------------
(***************************************************************************)
(* The circular buffers of the TT-Metal API as the three matmul kernels    *)
(* use them: one page at a time, one kernel at each end.  A page becomes   *)
(* readable when it is pushed and free again when it is popped; its bytes  *)
(* stay whatever was last written there.                                   *)
(***************************************************************************)
EXTENDS Integers

CONSTANT Pages      (* pages of the buffer                                 *)

ASSUME CircularBufferAssumption == Pages \in Nat \ {0}

\* As a program finds it: nothing pushed, the pages hold old bytes.
Fresh(bytes) == [pushed |-> 0, popped |-> 0, page |-> [p \in 0 .. Pages - 1 |-> bytes]]

\* The launch of a program resets the counters only.
Reset(cb) == [cb EXCEPT !.pushed = 0, !.popped = 0]

\* cb_reserve_back and get_write_ptr
HasRoom(cb) == cb.pushed - cb.popped < Pages
WritePage(cb) == cb.pushed % Pages
Fill(cb, p, bytes) == [cb EXCEPT !.page[p] = bytes]

\* cb_wait_front and get_read_ptr, and what a kernel reads there
HasFront(cb) == cb.pushed > cb.popped
ReadPage(cb) == cb.popped % Pages
Front(cb) == cb.page[ReadPage(cb)]

\* cb_push_back, cb_pop_front
Push(cb) == [cb EXCEPT !.pushed = @ + 1]
Pop(cb) == [cb EXCEPT !.popped = @ + 1]
=============================================================================
