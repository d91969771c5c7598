------------------------------ MODULE CircBuffer -------------------------------
(***************************************************************************)
(* The circular buffer of a dropbox client (SysPro_Project3/src/buffer.c). *)
(* The struct buffer_t is the three variables; its functions are the       *)
(* operators below.  A pop returns a pointer into the array, so it does    *)
(* not copy or clear the slot: see WorkerPool.                             *)
(***************************************************************************)
EXTENDS Integers, Sequences

CONSTANTS Elem,        \* element_t: what the program pushes
          NoElem,      \* the bytes malloc leaves in a slot nobody wrote
          bufferSize   \* buffer_t.size

\* main rejects a size of 0 only (dropbox_client.c:98).
ASSUME BufferAssumption == bufferSize \in Nat \ {0} /\ NoElem \notin Elem

VARIABLES circ_buffer, read, write

bufVars == <<circ_buffer, read, write>>

Slots == 0 .. bufferSize - 1

\* Mutant: the index is not wrapped.
SuccUnwrapped(i) == i + 1

\* Advancing an index and wrapping it at the end of the array.
Succ(i) == IF i + 1 >= bufferSize THEN 0 ELSE i + 1

buffer_init == /\ circ_buffer = [i \in Slots |-> NoElem]
               /\ read = 0
               /\ write = 0

\* Mutant: an empty buffer is not noticed.
EmptyNever == FALSE

buffer_is_empty == read = write

\* Mutant: a full buffer is not noticed.
FullNever == FALSE

buffer_is_full == read = Succ(write)

buffer_push(e) == /\ circ_buffer' = [circ_buffer EXCEPT ![write] = e]
                  /\ write' = Succ(write)
                  /\ UNCHANGED read

\* The caller keeps the old value of read: the address of the popped slot.
buffer_pop == read' = Succ(read) /\ UNCHANGED <<circ_buffer, write>>

--------------------------------------------------------------------------------
(* The queue the slots stand for. *)

Count == IF write >= read THEN write - read ELSE write + bufferSize - read

\* The slot k places after the read index.
Slot(k) == IF read + k >= bufferSize THEN read + k - bufferSize ELSE read + k

Contents == [k \in 1 .. Count |-> circ_buffer[Slot(k - 1)]]

FIFO == INSTANCE BoundedFIFO
            WITH queue <- Contents, Capacity <- bufferSize - 1
================================================================================
