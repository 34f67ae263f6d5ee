----------------------------- MODULE BoundedFifo -----------------------------
(***************************************************************************)
(* What the network buffer promises its reader, whatever the threads do:   *)
(* bytes leave in the order in which they were put, none lost, duplicated  *)
(* or overwritten, never more than Capacity at a time, until the buffer is *)
(* cleared.  The one exception is a block put without room (which the code *)
(* does after a stop): what is left in the buffer is then worthless until  *)
(* it is cleared.                                                          *)
(***************************************************************************)
EXTENDS Naturals, Sequences

CONSTANTS Capacity, Byte, MaxPut

VARIABLES
  queue, \* the bytes put and not yet taken, oldest first
  lost   \* a block was put without room

Blocks == UNION {[1..n -> Byte] : n \in 1..MaxPut}

Init == queue = <<>> /\ lost = FALSE

Put ==
  /\ ~lost
  /\ \E block \in Blocks :
       /\ Len(queue) + Len(block) <= Capacity
       /\ queue' = queue \o block
  /\ UNCHANGED lost

Take ==
  /\ ~lost
  /\ \E n \in 1..Len(queue) : queue' = SubSeq(queue, n + 1, Len(queue))
  /\ UNCHANGED lost

Overrun == ~lost /\ lost' = TRUE /\ queue' = <<>>

Clear == lost' = FALSE /\ queue' = <<>>

Next == Put \/ Take \/ Overrun \/ Clear

Spec == Init /\ [][Next]_<<queue, lost>>
=============================================================================
