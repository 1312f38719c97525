----------------------------- MODULE MCRaftNode -----------------------------
(***************************************************************************)
(* The instances of RaftNode that TLC checks.                              *)
(***************************************************************************)
EXTENDS RaftNode

Put1 == [op |-> "Put", id |-> 1]
Del2 == [op |-> "Del", id |-> 2]
NoCmd == {}
OneCmd == {Put1}
TwoCmds == {Put1, Del2}
Everywhere == Windows
=============================================================================
