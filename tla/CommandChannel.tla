--------------------------- MODULE CommandChannel ---------------------------
(***************************************************************************)
(* What the register file promises the control unit: a channel that hands  *)
(* over every word the host writes, once, in the order of the writes, one  *)
(* word at a time, as a first or as a second word as it was addressed.     *)
(***************************************************************************)
EXTENDS Integers, Sequences

VARIABLES offered,     \* <<>> or <<register and word of this cycle's beat>>
          inTransit,   \* written words not yet handed over, oldest first
          handed       \* <<>> or <<register and word handed over now>>

vars == <<offered, inTransit, handed>>

Init == offered = <<>> /\ inTransit = <<>> /\ handed = <<>>

(* One clock: the word offered in this cycle joins, the oldest may leave.  *)
Clock ==
    /\ inTransit \o offered = handed' \o inTransit'
    /\ Len(handed') <= 1 /\ Len(inTransit') <= 1

Spec == Init /\ [][Clock]_vars
=============================================================================
