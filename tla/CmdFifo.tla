------------------------------- MODULE CmdFifo -------------------------------
(***************************************************************************)
(* What the command queues of a control panel promise: each PD has a       *)
(* bounded queue, the command a PD is given next is the oldest one         *)
(* accepted for it and not flushed, and a place is free again as soon as   *)
(* its command is taken or flushed.                                        *)
(***************************************************************************)
EXTENDS Naturals, Sequences

CONSTANTS Pds, Size, Cmds

VARIABLES
    pending,   \* [Pds -> Seq(Cmds)]
    current,   \* [Pds -> Cmds \cup {0}]: the command taken last
    free       \* [Pds -> 0..Size]

Init ==
    /\ pending = [p \in Pds |-> <<>>]
    /\ current = [p \in Pds |-> 0]
    /\ free = [p \in Pds |-> Size]

Submit(p, c) ==
    /\ free[p] > 0
    /\ pending' = [pending EXCEPT ![p] = Append(@, c)]
    /\ free' = [free EXCEPT ![p] = @ - 1]
    /\ UNCHANGED current

Take(p) ==
    /\ pending[p] # <<>>
    /\ current' = [current EXCEPT ![p] = Head(pending[p])]
    /\ pending' = [pending EXCEPT ![p] = Tail(@)]
    /\ free' = [free EXCEPT ![p] = @ + 1]

Flush(p) ==
    /\ pending' = [pending EXCEPT ![p] = <<>>]
    /\ free' = [free EXCEPT ![p] = Size]
    /\ UNCHANGED current

Next ==
    \E p \in Pds :
        \/ \E c \in Cmds : Submit(p, c)
        \/ Take(p)
        \/ Flush(p)

Spec == Init /\ [][Next]_<<pending, current, free>>
==============================================================================
