------------------------------- MODULE ApduFifo -------------------------------
(***************************************************************************)
(* What one direction of an APDU channel promises its owner: APDUs come    *)
(* out whole, each at most once and in the order they went in.  Some may   *)
(* be lost: a connection ends, a receiver refuses one that is too large.   *)
(*                                                                         *)
(* An APDU is the sequence of its cells <<n, i, size>>, cell i of the n-th *)
(* APDU, so that one that lacks a cell or has cells of another is no APDU. *)
(***************************************************************************)
EXTENDS Naturals, Sequences

CONSTANT Sizes  \* the sizes APDUs may have, natural numbers

VARIABLES
  queue,  \* APDUs put in and neither taken out nor lost
  last,   \* the APDU taken out last
  puts    \* number of APDUs put in

Apdu(n, size) == [i \in 1..size |-> <<n, i, size>>]

Init ==
  /\ queue = <<>>
  /\ last = <<>>
  /\ puts = 0

Put ==
  /\ \E size \in Sizes : queue' = Append(queue, Apdu(puts + 1, size))
  /\ puts' = puts + 1
  /\ UNCHANGED last

Take ==
  /\ queue # <<>>
  /\ last' = Head(queue)
  /\ queue' = Tail(queue)
  /\ UNCHANGED puts

\* The APDUs that are left after a loss, in the order they had.
Lose ==
  /\ \E kept \in SUBSET (1..Len(queue)) :
       LET places == SelectSeq([i \in 1..Len(queue) |-> i], LAMBDA i : i \in kept)
       IN queue' = [j \in 1..Len(places) |-> queue[places[j]]]
  /\ UNCHANGED <<last, puts>>

Next == Put \/ Take \/ Lose

Spec == Init /\ [][Next]_<<queue, last, puts>>

=============================================================================
