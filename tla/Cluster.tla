------------------------------- MODULE Cluster -------------------------------
(***************************************************************************)
(* The cluster as its users see it: cluster_demo.cpp puts a TCP server in  *)
(* front of every Raft node of one process, and kv_client.cpp sends one    *)
(* command, following one redirection.                                     *)
(*                                                                         *)
(* A server is one thread: it takes a connection, runs handle_command to   *)
(* the end and answers, so a node has one client inside it at a time (cth  *)
(* of RaftNode).  handle_command reads role_ and leader_id_ without mu_;   *)
(* each read is a step of its own.  GET, SIZE, STATUS and PING change      *)
(* nothing and are not actions.  A command of Cmd is one run of kv_client. *)
(***************************************************************************)
EXTENDS RaftNode

CONSTANT Asked       \* bound: the nodes users start kv_client with

ASSUME AskedAssumption == Asked \subseteq Server

VARIABLES
    sv,      \* each node's server thread: what it does, and for which command
    cl       \* each kv_client: the node asked, whether redirected, the answer

clusterVars == <<node, eth, hth, cth, running, registered, applied, proposed, acked,
                 ballots, stops, sv, cl>>

NoCommand == [op |-> "None"]

Accepting == [pc |-> "accept", cmd |-> NoCommand]

ClusterInit ==
    /\ Init
    /\ sv = [i \in Server |-> Accepting]
    /\ cl = [c \in Cmd |-> [pc |-> "start", at |-> None, redirected |-> FALSE,
                            answer |-> "none"]]

-----------------------------------------------------------------------------
(* kv_client.                                                               *)

\* The user starts kv_client with the port of node i.
Send(c, i) ==
    /\ cl[c].pc = "start" /\ i \in Asked
    /\ Urgent = {}
    /\ cl' = [cl EXCEPT ![c].pc = "wait", ![c].at = i]
    /\ UNCHANGED sv /\ UNCHANGED vars

\* Mutant: a redirection without a port is followed too.
Followed_Unchecked(c, answer, port) == answer = "NOT_LEADER" /\ ~cl[c].redirected

\* Is the answer one that the client follows?  Only the first is looked at.
Followed(c, answer, port) ==
    answer = "NOT_LEADER" /\ port # None /\ ~cl[c].redirected

\* Node i's server answers c and takes the next connection.
Answer(i, c, answer, port) ==
    /\ sv' = [sv EXCEPT ![i] = Accepting]
    /\ cl' = [cl EXCEPT ![c] =
                IF Followed(c, answer, port)
                THEN [@ EXCEPT !.at = port, !.redirected = TRUE]
                ELSE [@ EXCEPT !.pc = "done", !.answer = answer]]

-----------------------------------------------------------------------------
(* handle_command: PUT and DEL.                                             *)

\* Mutant: the node that asks is told nothing.
HintKnown_Never(i) == FALSE

HintKnown(i) == node[i].leader_id_ # None

\* The role is read.
Handle(i, c) ==
    /\ sv[i].pc = "accept" /\ cl[c].pc = "wait" /\ cl[c].at = i
    /\ Urgent = {}
    /\ sv' = [sv EXCEPT ![i] = [pc |-> IF IsLeader(i) THEN "propose" ELSE "ask", cmd |-> c]]
    /\ UNCHANGED cl /\ UNCHANGED vars

\* Not the leader: is one known?
HandleAsk(i) ==
    /\ sv[i].pc = "ask"
    /\ Urgent = {}
    /\ IF HintKnown(i) THEN sv' = [sv EXCEPT ![i].pc = "hint"] /\ UNCHANGED cl
                       ELSE Answer(i, sv[i].cmd, "NOT_LEADER", None)
    /\ UNCHANGED vars

\* The hint is read a second time.  Were it gone by now, *nullopt is
\* undefined: any number, which port_for_node turns into some node or none.
HandleHint(i) ==
    LET hint == node[i].leader_id_
    IN  /\ sv[i].pc = "hint"
        /\ Urgent = {}
        /\ \E port \in IF hint # None THEN {hint} ELSE Server \cup {None} :
              Answer(i, sv[i].cmd, "NOT_LEADER", port)
        /\ UNCHANGED vars

\* Mutant: a proposal that fails is answered like one that was not made.
FailAnswer_Redirect == "NOT_LEADER"

\* "FAIL", which for DEL reads "NOT_FOUND".
FailAnswer == "FAIL"

\* ProposePut or ProposeDel: the role is looked at again, under the lock.
HandlePropose(i) ==
    /\ sv[i].pc = "propose"
    /\ Propose(i, sv[i].cmd)
    /\ sv' = [sv EXCEPT ![i].pc = "call"]
    /\ UNCHANGED cl

HandleDeposed(i) ==
    /\ sv[i].pc = "propose" /\ ~IsLeader(i)
    /\ Urgent = {}
    /\ Answer(i, sv[i].cmd, FailAnswer, node[i].leader_id_)
    /\ UNCHANGED vars

\* A step of the proposal; the last one answers the client.
HandleCall(i) ==
    /\ sv[i].pc = "call"
    /\ ClientStep(i)
    /\ IF cth'[i].pc # "none" THEN UNCHANGED <<sv, cl>>
       ELSE Answer(i, sv[i].cmd, IF cth[i].entry \in acked' THEN "OK" ELSE FailAnswer,
                   node[i].leader_id_)

\* KILL: Stop joins the threads; the node stays registered, keeps its role
\* and goes on answering calls and commands.
HandleKill(i) ==
    /\ sv[i].pc = "accept"
    /\ Stop(i)
    /\ sv' = [sv EXCEPT ![i] = [pc |-> "join", cmd |-> NoCommand]]
    /\ UNCHANGED cl

HandleKilled(i) ==
    /\ sv[i].pc = "join" /\ eth[i].pc = "sleep" /\ hth[i].pc = "sleep"
    /\ Urgent = {}
    /\ sv' = [sv EXCEPT ![i] = Accepting]
    /\ UNCHANGED cl /\ UNCHANGED vars

-----------------------------------------------------------------------------
RaftThreads(i) ==
    /\ ElectionThread(i) \/ HeartbeatThread(i) \/ Apply(i)
    /\ UNCHANGED <<sv, cl>>

ServerStep(i) ==
    \/ \E c \in Cmd : Handle(i, c)
    \/ HandleAsk(i) \/ HandleHint(i) \/ HandlePropose(i) \/ HandleDeposed(i) \/ HandleCall(i)
    \/ HandleKilled(i)

ClusterNext ==
    \/ \E c \in Cmd, i \in Server : Send(c, i)
    \/ \E i \in Server : RaftThreads(i) \/ ServerStep(i) \/ HandleKill(i)

\* Threads are scheduled: one that is inside an election, a heartbeat round or
\* a command goes on, the heartbeat thread wakes up and ApplyLoop looks for new
\* entries (weak fairness).  Nobody has to start a client, kill a node or start
\* an election.  Where Preemptible is less than Windows a thread is disabled
\* while another is in a window it keeps, so weak fairness then asks for less
\* than the scheduler gives.
ClusterFairness == \A i \in Server :
    /\ WF_clusterVars((ElectionAsk(i) \/ ElectionReply(i)) /\ UNCHANGED <<sv, cl>>)
    /\ WF_clusterVars(HeartbeatThread(i) /\ UNCHANGED <<sv, cl>>)
    /\ WF_clusterVars(Apply(i) /\ UNCHANGED <<sv, cl>>)
    /\ WF_clusterVars(ServerStep(i))

ClusterSpec == ClusterInit /\ [][ClusterNext]_clusterVars /\ ClusterFairness

-----------------------------------------------------------------------------
(* Properties.                                                              *)

\* Type invariant: in particular a client only connects to a node.
ClusterTypeOK ==
    /\ \A i \in Server : /\ sv[i].pc \in {"accept", "ask", "hint", "propose", "call", "join"}
                         /\ sv[i].cmd \in Cmd \cup {NoCommand}
                         /\ (sv[i].pc = "call") <=> (cth[i].pc # "none")
    /\ \A c \in Cmd : /\ cl[c].pc \in {"start", "wait", "done"}
                      /\ cl[c].at \in IF cl[c].pc = "start" THEN {None} ELSE Server
                      /\ cl[c].answer \in {"none", "OK", "FAIL", "NOT_LEADER"}

\* A client that follows a redirection never has its command proposed twice
\* (handle_command, kv_client): a node that answers NOT_LEADER has not put it
\* in its log, whatever became of its role on the way.
ProposedOnce ==
    \A i \in Server : sv[i].pc = "propose" => sv[i].cmd \notin proposed

\* Some running node leads and every node knows.
Led == \E i \in running : IsLeader(i) /\ \A j \in Server : node[j].leader_id_ = i

\* The first node c was sent to has not looked at it yet.
Unhandled(c) == cl[c].pc = "wait" /\ ~cl[c].redirected /\ sv[cl[c].at].pc = "accept"

\* Store i was given command c.
GivenTo(i, c) == \E k \in DOMAIN applied[i] : applied[i][k].cmd = c

\* Redirection works and no command is lost (handle_command, HeartbeatLoop): a
\* command sent to any node is answered by the leader, and reaches the store of
\* every running node, if from then on one running leader stays that all know.
\* It reaches them although an old heartbeat may have cut it off again meanwhile,
\* and although the client may have been told FAIL.
Served(c) ==
    []((Unhandled(c) /\ []Led)
         => <>(cl[c].answer \in {"OK", "FAIL"} /\ \A p \in running : GivenTo(p, c)))
=============================================================================
