------------------------------ MODULE ReadFeed ------------------------------
(***************************************************************************)
(* What the reader promises about good card reads: the panel's side gets   *)
(* reads that were made, in the order they were made, each at most once.   *)
(* Some may be lost on the way (a full queue, a restart); none is invented,*)
(* repeated or overtaken.  A read credential is its number.                *)
(***************************************************************************)
EXTENDS Naturals, Sequences

VARIABLES
    reads,      \* number of good reads made so far
    panel       \* the reads submitted so far, in order

vars == <<reads, panel>>

Init == reads = 0 /\ panel = <<>>

Read ==
    /\ reads' = reads + 1
    /\ UNCHANGED panel

Submit ==
    /\ \E c \in 1..reads :
          /\ \A i \in DOMAIN panel : panel[i] < c
          /\ panel' = Append(panel, c)
    /\ UNCHANGED reads

Next == Read \/ Submit

Spec == Init /\ [][Next]_vars
=============================================================================
