------------------------------ MODULE MCCluster ------------------------------
(***************************************************************************)
(* The instances of Cluster that TLC checks.                               *)
(***************************************************************************)
EXTENDS Cluster

Command(id) == [op |-> "Put", id |-> id]

OneCmd == {Command(1)}
ThreeCmds == {Command(1), Command(2), Command(3)}

\* Served, of one client: nothing a node does depends on what a command is, so
\* the clients are alike, and the others are what this one competes with.
OneServed == Served(Command(1))
=============================================================================
