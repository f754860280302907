---------------------------- MODULE CircularBuffer ----------------------------
(***************************************************************************)
(* Circular buffers (CBs), the only way the kernels of a core communicate. *)
(* cnt entries are in the FIFO; wr and rd are the producer's and the       *)
(* consumer's position.  A position wraps only when it reaches the end of  *)
(* the buffer exactly.  Entries are counted in whatever unit every call on *)
(* that CB moves a multiple of.                                            *)
(***************************************************************************)
EXTENDS Integers

\* CB0 and CB1 are double-buffered.
NumBuffer == 2

Advance(pos, n, size) == IF pos + n = size THEN 0 ELSE pos + n

EmptyCB == [cnt |-> 0, wr |-> 0, rd |-> 0]

HasRoom(cb, n, size) == cb.cnt + n <= size

PushBack(cb, n, size) ==
  [cb EXCEPT !.cnt = @ + n, !.wr = Advance(@, n, size)]

PopFront(cb, n, size) ==
  [cb EXCEPT !.cnt = @ - n, !.rd = Advance(@, n, size)]

\* The positions of a CB that hold entries pushed and not yet popped.
Live(cb, size) ==
  { i \in 0 .. size - 1 :
      IF cb.rd + cb.cnt <= size
      THEN cb.rd <= i /\ i < cb.rd + cb.cnt
      ELSE cb.rd <= i \/ i < cb.rd + cb.cnt - size }

\* Types: every CB stays within its capacity, every position inside it.
CB(slots) == [cnt : 0 .. slots, wr : 0 .. slots - 1, rd : 0 .. slots - 1]
===============================================================================
