---------------------------- MODULE ReplicatedLog ----------------------------
(***************************************************************************)
(* What the consensus layer promises the stores above it: the operations   *)
(* that clients propose enter one log, which only ever grows at its end    *)
(* and takes no operation twice, and the store of every node is given that *)
(* log from its first operation on, one after the other.                   *)
(***************************************************************************)
EXTENDS Naturals, Sequences

CONSTANTS Server, Cmd

VARIABLES
    proposed,       \* the operations clients have handed in
    chosen,         \* the log
    applied         \* what the store of each node was given

Init ==
    /\ proposed = {}
    /\ chosen = <<>>
    /\ applied = [i \in Server |-> <<>>]

Propose(c) ==
    /\ c \notin proposed
    /\ proposed' = proposed \cup {c}
    /\ UNCHANGED <<chosen, applied>>

\* An operation of the log was proposed and stands at one position only.
Sound(log) ==
    \A k, l \in 1..Len(log) : log[k] \in proposed /\ (log[k] = log[l] => k = l)

\* One or more operations are added at the end.
Choose ==
    /\ Len(chosen') > Len(chosen)
    /\ \A k \in 1..Len(chosen) : chosen'[k] = chosen[k]
    /\ Sound(chosen')
    /\ UNCHANGED <<proposed, applied>>

Apply(i) ==
    /\ Len(applied[i]) < Len(chosen)
    /\ applied' = [applied EXCEPT ![i] = Append(@, chosen[Len(applied[i]) + 1])]
    /\ UNCHANGED <<proposed, chosen>>

Next ==
    \/ \E c \in Cmd : Propose(c)
    \/ Choose
    \/ \E i \in Server : Apply(i)

Spec == Init /\ [][Next]_<<proposed, chosen, applied>>
=============================================================================
