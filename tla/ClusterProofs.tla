---------------------------- MODULE ClusterProofs ----------------------------
(***************************************************************************)
(* Theorems about Cluster: what the servers and kv_client add to the nodes *)
(* of RaftNode, for every number of nodes, commands, kills and elections   *)
(* and every interleaving.                                                 *)
(***************************************************************************)
EXTENDS Cluster, RaftLogProofs

-----------------------------------------------------------------------------
(* A step of the cluster is a step of the nodes, or leaves them alone.      *)

\* A command proposed through a server is ProposePut or ProposeDel.
LEMMA ClusterStep ==
    ASSUME [ClusterNext]_clusterVars, \A i \in Server : sv[i].pc = "propose" => sv[i].cmd \in Cmd
    PROVE  [Next]_vars /\ UNCHANGED registered
<1>1. CASE UNCHANGED vars
  BY <1>1 DEF vars
<1>2. ASSUME NEW c, NEW i, Send(c, i) PROVE UNCHANGED vars
  BY <1>2 DEF Send
<1>3. ASSUME NEW i \in Server, RaftThreads(i) PROVE [Next]_vars /\ UNCHANGED registered
  BY <1>3 DEF RaftThreads, Next, ElectionThread, HeartbeatThread, Apply, ElectionTimeout, ElectionAsk,
       ElectionReply, HeartbeatTick, HeartbeatBuild, HeartbeatSend, HeartbeatReply, service
<1>4. ASSUME NEW i \in Server, HandleKill(i) PROVE [Next]_vars /\ UNCHANGED registered
  BY <1>4 DEF HandleKill, Next, Stop
<1>5. ASSUME NEW i \in Server, HandlePropose(i) PROVE [Next]_vars /\ UNCHANGED registered
  <2>1. sv[i].cmd \in Cmd /\ Propose(i, sv[i].cmd) BY <1>5 DEF HandlePropose
  <2>2. sv[i].cmd.op \in {"Put", "Del"} BY <2>1, RaftAssumption
  <2>3. ClientThread(i) BY <2>1, <2>2 DEF ClientThread, ProposePut, ProposeDel
  <2> QED BY <2>1, <2>3 DEF Next, Propose, service
<1>6. ASSUME NEW i \in Server, HandleCall(i) PROVE [Next]_vars /\ UNCHANGED registered
  <2>1. ClientStep(i) BY <1>6 DEF HandleCall
  <2>2. UNCHANGED registered
    BY <2>1 DEF ClientStep, ProposeRead, ProposeSend, ProposeCall, ProposeAck, ProposeCommit, ProposeNotify,
                ProposeNotifyAck, ProposeReturn, service
  <2> QED BY <2>1, <2>2 DEF Next, ClientThread
<1>7. ASSUME NEW i \in Server,
             \/ \E c \in Cmd : Handle(i, c)
             \/ HandleAsk(i) \/ HandleHint(i) \/ HandleDeposed(i) \/ HandleKilled(i)
      PROVE  UNCHANGED vars
  BY <1>7 DEF Handle, HandleAsk, HandleHint, HandleDeposed, HandleKilled
<1>8. CASE UNCHANGED clusterVars
  BY <1>1, <1>8 DEF clusterVars, vars
<1> QED BY <1>1, <1>2, <1>3, <1>4, <1>5, <1>6, <1>7, <1>8 DEF ClusterNext, ServerStep

-----------------------------------------------------------------------------
(* Servers and clients.                                                     *)

Serving == {"ask", "hint", "propose", "call"}

ServerState == [pc : {"accept", "ask", "hint", "propose", "call", "join"}, cmd : Cmd \cup {NoCommand}]

ClientState == [pc : {"start", "wait", "done"}, at : Server \cup {None}, redirected : BOOLEAN,
                answer : {"none", "OK", "FAIL", "NOT_LEADER"}]

\* A server works for the client that waits for it, so for one client at a
\* time, and a client is inside one server at most.
ServesWaiting == \A i \in Server :
    sv[i].pc \in Serving => sv[i].cmd \in Cmd /\ cl[sv[i].cmd].pc = "wait" /\ cl[sv[i].cmd].at = i

\* A command that was proposed is still being proposed, or its client is done.
ProposedServed == \A c \in proposed :
    cl[c].pc = "done" \/ \E i \in Server : sv[i].pc = "call" /\ sv[i].cmd = c

ClusterInv ==
    /\ sv \in [Server -> ServerState] /\ cl \in [Cmd -> ClientState]
    /\ \A c \in Cmd : cl[c].at = None <=> cl[c].pc = "start"
    /\ \A i \in Server : (sv[i].pc = "call") <=> (cth[i].pc # "none")
    /\ ServesWaiting /\ ProposedServed

\* What the clients are told is written down as the invariant.
LEMMA ClusterInvSafe == TypeInv /\ ClusterInv => ClusterTypeOK /\ ProposedOnce
<1> SUFFICES ASSUME TypeInv, ClusterInv PROVE ClusterTypeOK /\ ProposedOnce
  OBVIOUS
<1>1. None \notin Server
  BY RaftAssumption
<1>2. ClusterTypeOK
  BY <1>1 DEF ClusterInv, ClusterTypeOK, ServerState, ClientState
<1>3. ProposedOnce
  BY DEF ClusterInv, ProposedOnce, ServesWaiting, ProposedServed, Serving
<1> QED BY <1>2, <1>3
\* A server answers the client it works for.  Its proposal, if it made one,
\* is over, and then the answer is not one that the client follows.
LEMMA AnswerInv ==
    ASSUME ClusterInv, NEW i \in Server, sv[i].pc \in Serving,
           NEW answer \in {"OK", "FAIL", "NOT_LEADER"}, NEW port \in Server \cup {None},
           sv[i].pc = "call" => answer # "NOT_LEADER",
           Answer(i, sv[i].cmd, answer, port), UNCHANGED proposed,
           cth'[i].pc = "none", \A j \in Server \ {i} : cth'[j].pc = cth[j].pc
    PROVE  ClusterInv'
<1> USE DEF ClusterInv
<1> DEFINE c == sv[i].cmd
           next == IF Followed(c, answer, port)
                   THEN [cl[c] EXCEPT !.at = port, !.redirected = TRUE]
                   ELSE [cl[c] EXCEPT !.pc = "done", !.answer = answer]
<1>1. c \in Cmd /\ cl[c].pc = "wait" /\ cl[c].at = i /\ cl[c] \in ClientState
  BY DEF ServesWaiting
<1>2. sv' = [sv EXCEPT ![i] = Accepting] /\ cl' = [cl EXCEPT ![c] = next]
  BY DEF Answer
<1>3. None \notin Server
  BY RaftAssumption
<1>4. Followed(c, answer, port) => answer = "NOT_LEADER" /\ port # None
  BY DEF Followed
<1>5. /\ next \in ClientState /\ next.at # None /\ next.pc # "start"
      /\ sv[i].pc = "call" => next.pc = "done"
  BY <1>1, <1>3, <1>4 DEF ClientState
<1> HIDE DEF next
<1>6. Accepting \in ServerState /\ Accepting.pc = "accept"
  BY DEF Accepting, ServerState
<1>7. /\ sv' \in [Server -> ServerState] /\ cl' \in [Cmd -> ClientState]
      /\ \A d \in Cmd : cl'[d].at = None <=> cl'[d].pc = "start"
      /\ \A j \in Server : (sv'[j].pc = "call") <=> (cth'[j].pc # "none")
  BY <1>1, <1>2, <1>5, <1>6
<1>8. ServesWaiting'
  <2> SUFFICES ASSUME NEW j \in Server, sv'[j].pc \in Serving
               PROVE  sv'[j].cmd \in Cmd /\ cl'[sv'[j].cmd].pc = "wait" /\ cl'[sv'[j].cmd].at = j
    BY DEF ServesWaiting
  <2>1. j # i /\ sv'[j] = sv[j] BY <1>2, <1>6 DEF Serving
  <2>2. sv[j].cmd \in Cmd /\ cl[sv[j].cmd].pc = "wait" /\ cl[sv[j].cmd].at = j BY <2>1 DEF ServesWaiting
  <2>3. sv[j].cmd # c BY <1>1, <2>1, <2>2
  <2> QED BY <1>2, <2>1, <2>2, <2>3
<1>9. ProposedServed'
  <2> SUFFICES ASSUME NEW d \in proposed
               PROVE  cl'[d].pc = "done" \/ \E j \in Server : sv'[j].pc = "call" /\ sv'[j].cmd = d
    BY DEF ProposedServed
  <2>1. CASE cl[d].pc = "done"
    BY <1>1, <1>2, <2>1
  <2>2. ASSUME NEW j \in Server, sv[j].pc = "call", sv[j].cmd = d
        PROVE  cl'[d].pc = "done" \/ \E k \in Server : sv'[k].pc = "call" /\ sv'[k].cmd = d
    BY <1>1, <1>2, <1>5, <2>2 DEF Accepting
  <2> QED BY <2>1, <2>2 DEF ProposedServed
<1> QED BY <1>7, <1>8, <1>9
\* A step in which a server goes on with the command it has.
LEMMA ServerMoves ==
    ASSUME ClusterInv, NEW i \in Server, NEW u \in ServerState, sv' = [sv EXCEPT ![i] = u],
           UNCHANGED cl, u.pc \in Serving => sv[i].pc \in Serving /\ u.cmd = sv[i].cmd,
           u.pc = "call" => \A c \in proposed' : c \in proposed \/ c = u.cmd,
           u.pc # "call" => UNCHANGED proposed, sv[i].pc # "call",
           (u.pc = "call") <=> (cth'[i].pc # "none"), \A j \in Server \ {i} : cth'[j].pc = cth[j].pc
    PROVE  ClusterInv'
<1> USE DEF ClusterInv
<1>1. \A j \in Server : sv'[j] = IF j = i THEN u ELSE sv[j]
  OBVIOUS
<1>2. sv' \in [Server -> ServerState] /\ \A j \in Server : (sv'[j].pc = "call") <=> (cth'[j].pc # "none")
  BY <1>1
<1>3. ServesWaiting'
  BY <1>1 DEF ServesWaiting
<1>4. ProposedServed'
  <2> SUFFICES ASSUME NEW d \in proposed'
               PROVE  cl[d].pc = "done" \/ \E j \in Server : sv'[j].pc = "call" /\ sv'[j].cmd = d
    BY DEF ProposedServed
  <2>1. CASE d \in proposed
    BY <1>1, <2>1 DEF ProposedServed
  <2>2. CASE d \notin proposed
    BY <1>1, <2>2
  <2> QED BY <2>1, <2>2
<1> QED BY <1>2, <1>3, <1>4

\* A proposal begins and ends within a call of the server.
LEMMA ClientStepPc ==
    ASSUME TypeInv, NEW i \in Server, ClientStep(i)
    PROVE  UNCHANGED proposed /\ \A j \in Server \ {i} : cth'[j] = cth[j]
<1>1. DOMAIN cth = Server BY DEF TypeInv, TypeOK
<1> QED
  BY <1>1 DEF ClientStep, ProposeRead, ProposeSend, ProposeCall, ProposeAck, ProposeCommit,
              ProposeNotify, ProposeNotifyAck, ProposeReturn, history

\* Every step of the cluster.
LEMMA ClusterInvNext ==
    ASSUME TypeInv, ClusterInv, [ClusterNext]_clusterVars PROVE ClusterInv'
<1> USE DEF ClusterInv
<1>1. ASSUME UNCHANGED <<sv, cl, cth, proposed>> PROVE ClusterInv'
  BY <1>1 DEF ServesWaiting, ProposedServed
<1>2. ASSUME NEW c \in Cmd, NEW i \in Server, Send(c, i) PROVE ClusterInv'
  <2> DEFINE next == [cl[c] EXCEPT !.pc = "wait", !.at = i]
  <2>1. cl[c].pc = "start" /\ cl' = [cl EXCEPT ![c] = next] /\ UNCHANGED <<sv, cth, proposed>>
    BY <1>2 DEF Send, vars
  <2>2. next \in ClientState /\ next.pc = "wait" /\ next.at # None
    BY RaftAssumption, ZenonT(60) DEF ClientState
  <2> HIDE DEF next
  <2>3. \A d \in Cmd : cl'[d] = IF d = c THEN next ELSE cl[d]
    BY <2>1
  <2>4. ServesWaiting' BY <2>1, <2>3 DEF ServesWaiting
  <2>5. ProposedServed' BY <2>1, <2>3 DEF ProposedServed, TypeInv, TypeOK
  <2> QED BY <2>1, <2>2, <2>3, <2>4, <2>5
<1>3. ASSUME NEW i \in Server, RaftThreads(i) PROVE ClusterInv'
  <2>1. UNCHANGED <<cth, proposed>>
    BY <1>3 DEF RaftThreads, ElectionThread, HeartbeatThread, Apply, ElectionTimeout, ElectionAsk,
       ElectionReply, HeartbeatTick, HeartbeatBuild, HeartbeatSend, HeartbeatReply, history, threads
  <2> QED BY <1>1, <1>3, <2>1 DEF RaftThreads
<1>4. ASSUME NEW i \in Server, NEW c \in Cmd, Handle(i, c) PROVE ClusterInv'
  <2> DEFINE pc == IF IsLeader(i) THEN "propose" ELSE "ask"
             u == [pc |-> pc, cmd |-> c]
  <2>1. /\ sv[i].pc = "accept" /\ cl[c].pc = "wait" /\ cl[c].at = i
        /\ sv' = [sv EXCEPT ![i] = u] /\ UNCHANGED <<cl, cth, proposed>>
    BY <1>4 DEF Handle, vars
  <2>2. u \in ServerState /\ u.pc # "call" /\ u.cmd = c BY DEF ServerState
  <2> HIDE DEF u
  <2>3. \A j \in Server : sv'[j] = IF j = i THEN u ELSE sv[j] BY <2>1
  <2>4. ServesWaiting' BY <2>1, <2>2, <2>3 DEF ServesWaiting
  <2>5. ProposedServed' BY <2>1, <2>3 DEF ProposedServed
  <2>6. \A j \in Server : (sv'[j].pc = "call") <=> (cth'[j].pc # "none") BY <2>1, <2>2, <2>3
  <2> QED BY <2>1, <2>2, <2>3, <2>4, <2>5, <2>6
<1>5. \A i \in Server : node[i].leader_id_ \in Server \cup {None}
  BY DEF TypeInv, TypeOK, Node
<1>6. ASSUME NEW i \in Server, HandleAsk(i) PROVE ClusterInv'
  <2>1. sv[i].pc = "ask" /\ UNCHANGED <<cth, proposed>>
    BY <1>6 DEF HandleAsk, vars
  <2>2. CASE HintKnown(i)
    <3> DEFINE u == [sv[i] EXCEPT !.pc = "hint"]
    <3>1. sv' = [sv EXCEPT ![i] = u] /\ UNCHANGED cl BY <1>6, <2>2 DEF HandleAsk
    <3>2. u \in ServerState /\ u.pc = "hint" /\ u.cmd = sv[i].cmd BY DEF ServerState
    <3> HIDE DEF u
    <3> QED BY <2>1, <3>1, <3>2, ServerMoves DEF Serving
  <2>3. CASE ~HintKnown(i)
    <3>1. Answer(i, sv[i].cmd, "NOT_LEADER", None) BY <1>6, <2>3 DEF HandleAsk
    <3> QED BY <2>1, <3>1, AnswerInv DEF Serving
  <2> QED BY <2>2, <2>3
<1>7. ASSUME NEW i \in Server, HandleHint(i) PROVE ClusterInv'
  <2>1. sv[i].pc = "hint" /\ UNCHANGED <<cth, proposed>>
    BY <1>7 DEF HandleHint, vars
  <2>2. PICK port \in Server \cup {None} : Answer(i, sv[i].cmd, "NOT_LEADER", port)
    BY <1>5, <1>7 DEF HandleHint
  <2> QED BY <2>1, <2>2, AnswerInv DEF Serving
<1>8. ASSUME NEW i \in Server, HandlePropose(i) PROVE ClusterInv'
  <2> DEFINE u == [sv[i] EXCEPT !.pc = "call"]
  <2>1. /\ sv[i].pc = "propose" /\ sv' = [sv EXCEPT ![i] = u] /\ UNCHANGED cl
        /\ proposed' = proposed \cup {sv[i].cmd}
    BY <1>8 DEF HandlePropose, Propose
  <2>2. u \in ServerState /\ u.pc = "call" /\ u.cmd = sv[i].cmd BY DEF ServerState
  <2>3. cth'[i].pc = "gap" /\ \A j \in Server \ {i} : cth'[j].pc = cth[j].pc
    BY <1>8 DEF HandlePropose, Propose, TypeInv, TypeOK
  <2> HIDE DEF u
  <2> QED BY <2>1, <2>2, <2>3, ServerMoves DEF Serving
<1>9. ASSUME NEW i \in Server, HandleDeposed(i) PROVE ClusterInv'
  <2>1. sv[i].pc = "propose" /\ UNCHANGED <<cth, proposed>>
    BY <1>9 DEF HandleDeposed, vars
  <2>2. Answer(i, sv[i].cmd, "FAIL", node[i].leader_id_)
    BY <1>9 DEF HandleDeposed, FailAnswer
  <2> QED BY <1>5, <2>1, <2>2, AnswerInv DEF Serving
<1>10. ASSUME NEW i \in Server, HandleCall(i) PROVE ClusterInv'
  <2>1. sv[i].pc = "call" /\ ClientStep(i)
    BY <1>10 DEF HandleCall
  <2>2. UNCHANGED proposed /\ \A j \in Server \ {i} : cth'[j] = cth[j]
    BY <2>1, ClientStepPc
  <2>3. CASE cth'[i].pc # "none"
    <3>1. UNCHANGED <<sv, cl>> BY <1>10, <2>3 DEF HandleCall
    <3>2. \A j \in Server : (sv'[j].pc = "call") <=> (cth'[j].pc # "none") BY <2>1, <2>2, <2>3, <3>1
    <3> QED BY <2>2, <3>1, <3>2 DEF ServesWaiting, ProposedServed
  <2>4. CASE cth'[i].pc = "none"
    <3> DEFINE answer == IF cth[i].entry \in acked' THEN "OK" ELSE FailAnswer
    <3>1. Answer(i, sv[i].cmd, answer, node[i].leader_id_) BY <1>10, <2>4 DEF HandleCall
    <3>2. answer \in {"OK", "FAIL"} BY DEF FailAnswer
    <3> HIDE DEF answer
    <3> QED BY <1>5, <2>1, <2>2, <2>4, <3>1, <3>2, AnswerInv DEF Serving
  <2> QED BY <2>3, <2>4
<1>11. ASSUME NEW i \in Server, HandleKill(i) PROVE ClusterInv'
  <2> DEFINE u == [pc |-> "join", cmd |-> NoCommand]
  <2>1. sv[i].pc = "accept" /\ sv' = [sv EXCEPT ![i] = u] /\ UNCHANGED <<cl, cth, proposed>>
    BY <1>11 DEF HandleKill, Stop, threads, history
  <2>2. u \in ServerState /\ u.pc = "join" BY DEF ServerState
  <2> HIDE DEF u
  <2> QED BY <2>1, <2>2, ServerMoves DEF Serving
<1>12. ASSUME NEW i \in Server, HandleKilled(i) PROVE ClusterInv'
  <2>1. sv[i].pc = "join" /\ sv' = [sv EXCEPT ![i] = Accepting] /\ UNCHANGED <<cl, cth, proposed>>
    BY <1>12 DEF HandleKilled, vars
  <2>2. Accepting \in ServerState /\ Accepting.pc = "accept" BY DEF ServerState, Accepting
  <2> QED BY <2>1, <2>2, ServerMoves DEF Serving
<1>13. CASE UNCHANGED clusterVars
  BY <1>1, <1>13 DEF clusterVars
<1> QED
  BY <1>2, <1>3, <1>4, <1>6, <1>7, <1>8, <1>9, <1>10, <1>11, <1>12, <1>13
  DEF ClusterNext, ServerStep

\* No client has been started.
LEMMA ClusterInvInit == ClusterInit => Init /\ ClusterInv
  BY RaftAssumption
  DEF ClusterInit, Init, ClusterInv, ServesWaiting, ProposedServed, Serving, ServerState, ClientState,
      Accepting, NoCall

\* A step keeps what is known of the nodes and of the clients.
LEMMA ClusterNodes ==
    ASSUME TypeInv, ClusterInv, [ClusterNext]_clusterVars
    PROVE  TypeInv' /\ ClusterInv' /\ [Next]_vars /\ UNCHANGED registered
<1>1. \A i \in Server : sv[i].pc = "propose" => sv[i].cmd \in Cmd
  BY DEF ClusterInv, ServesWaiting, Serving
<1> QED BY <1>1, ClusterStep, TypeInvNext, ClusterInvNext

\* A server is inside one command at a time, a client only ever connects to a
\* node, and the answers are the ones kv_client knows, through any number of
\* redirections, elections and kills.
THEOREM ClusterTypes == ClusterSpec => []ClusterTypeOK
<1> DEFINE Inv == TypeInv /\ ClusterInv
<1>1. ClusterInit => Inv BY ClusterInvInit, TypeInvInit
<1>2. Inv /\ [ClusterNext]_clusterVars => Inv' BY ClusterNodes
<1>3. Inv => ClusterTypeOK BY ClusterInvSafe
<1> QED BY <1>1, <1>2, <1>3, PTL DEF ClusterSpec

\* Following a redirection never makes a command proposed twice, whatever
\* becomes of the roles between the reads of handle_command.
THEOREM NoCommandTwice == ClusterSpec => []ProposedOnce
<1> DEFINE Inv == TypeInv /\ ClusterInv
<1>1. ClusterInit => Inv BY ClusterInvInit, TypeInvInit
<1>2. Inv /\ [ClusterNext]_clusterVars => Inv' BY ClusterNodes
<1>3. Inv => ProposedOnce BY ClusterInvSafe
<1> QED BY <1>1, <1>2, <1>3, PTL DEF ClusterSpec

\* A killed node keeps its votes and its log, and goes on answering.
ClusterUp == TypeInv /\ ClusterInv /\ ElectionInv

\* Nobody has been started or killed.
LEMMA ClusterUpInit == ClusterInit => Init /\ ClusterUp
  BY ClusterInvInit, TypeInvInit, ElectionInvInit DEF ClusterUp

\* Every step, kills among them.
LEMMA ClusterUpNext ==
    ASSUME ClusterUp, [ClusterNext]_clusterVars PROVE ClusterUp' /\ [Next]_vars
<1>1. TypeInv' /\ ClusterInv' /\ [Next]_vars /\ UNCHANGED registered BY ClusterNodes DEF ClusterUp
<1>2. AllUp' BY <1>1 DEF ClusterUp, ElectionInv, AllUp
<1> QED BY <1>1, <1>2, ElectionInvNext DEF ClusterUp

\* In the cluster a killed node keeps its votes and goes on answering, so two
\* nodes never lead the same term, with any number of kills.
THEOREM ClusterElections == ClusterSpec => []ElectionSafety
<1>1. ClusterUp /\ [ClusterNext]_clusterVars => ClusterUp' BY ClusterUpNext
<1>2. ClusterUp => ElectionSafety BY ElectionInvSafe DEF ClusterUp
<1> QED BY <1>1, <1>2, ClusterUpInit, PTL DEF ClusterSpec

\* A command that a client was told OK for is in the log of every later leader:
\* through any redirections, elections and kills, as long as no thread runs
\* between the append of a proposal and the reading of its position, or between
\* the building of a heartbeat and its sending (see AckedInLaterLogs).
THEOREM ClusterKeepsAcked ==
    ASSUME "gap" \notin Preemptible, "hb_send" \notin Preemptible
    PROVE  ClusterSpec => []AckedSurvives
<1> DEFINE Inv == ClusterUp /\ \E M : MatchInv(M) /\ LastInv(M)
<1>1. ClusterInit => Inv BY ClusterUpInit, MatchInit, LastInit
<1>2. Inv /\ [ClusterNext]_clusterVars => Inv'
  <2> SUFFICES ASSUME Inv, [ClusterNext]_clusterVars PROVE Inv'
    OBVIOUS
  <2>1. ClusterUp' /\ [Next]_vars BY ClusterUpNext
  <2>2. PICK M : MatchInv(M) /\ LastInv(M) OBVIOUS
  <2>3. PICK N : Extends(M, N) BY DEF Extends
  <2>4. MatchInv(N)' /\ LastInv(N)' BY <2>1, <2>2, <2>3, MatchNext, LastNext DEF ClusterUp
  <2> QED BY <2>1, <2>4
<1>3. Inv => AckedSurvives BY AckedSafe DEF ClusterUp
<1> QED BY <1>1, <1>2, <1>3, PTL DEF ClusterSpec

\* The stores behind the servers are given the same operations in the same
\* order, killed nodes included, under the hypotheses of CommitsAreStored
\* except the one on restarts: a KILL joins the threads of a node and leaves the
\* node where it is.
THEOREM ClusterStoresAgree ==
    ASSUME Orderly, Cardinality(Server) % 2 = 1
    PROVE  ClusterSpec => []StateMachineSafety
<1> DEFINE Inv == ClusterUp /\ CommitInv
<1>1. ClusterInit => Inv BY ClusterUpInit, CommitInit
<1>2. Inv /\ [ClusterNext]_clusterVars => Inv' BY ClusterUpNext, CommitNext DEF ClusterUp
<1>3. Inv => StateMachineSafety BY AppliedAgree DEF ClusterUp
<1> QED BY <1>1, <1>2, <1>3, PTL DEF ClusterSpec

\* Servers, clients and nodes together behave like one log: a command a client
\* sent is committed at most once and for good, however often the client was
\* redirected and whatever nodes were killed, and every store is given the log
\* in order.  Under the hypotheses of ClusterStoresAgree.
THEOREM ClusterServesOneLog ==
    ASSUME Orderly, Cardinality(Server) % 2 = 1
    PROVE  ClusterSpec => ImplementsLog
<1> DEFINE Inv == ClusterUp /\ LogInv
<1>1. ClusterInit => Inv /\ Promise!Init
  BY ClusterUpInit, MatchInit, LastInit, TopInit, OnceInit, PromiseInit DEF LogInv
<1>2. Inv /\ [ClusterNext]_clusterVars => Inv' /\ [Promise!Next]_<<proposed, Chosen, Given>>
  <2> SUFFICES ASSUME Inv, [ClusterNext]_clusterVars
               PROVE  Inv' /\ [Promise!Next]_<<proposed, Chosen, Given>>
    OBVIOUS
  <2>1. ClusterUp' /\ [Next]_vars BY ClusterUpNext
  <2>2. LogInv' /\ \A j \in Server : CommitStays(j) BY <2>1, LogNext DEF ClusterUp
  <2> QED BY <2>1, <2>2, PromiseStep DEF ClusterUp
<1> QED BY <1>1, <1>2, PTL DEF ClusterSpec, ImplementsLog, Promise!Spec

\* The node a client is redirected to was elected by a majority in the term
\* of the node that answers, with killed nodes among them, as long as no
\* thread runs between the role check of a proposal and the building of its
\* request.
THEOREM ClusterHints ==
    ASSUME Undisturbed
    PROVE  ClusterSpec => []LeaderHint
<1> DEFINE Inv == TypeInv /\ ClusterInv /\ HintInv
<1>1. ClusterInit => Inv BY ClusterInvInit, TypeInvInit, HintInvInit
<1>2. Inv /\ [ClusterNext]_clusterVars => Inv' BY ClusterNodes, HintInvNext
<1>3. Inv => LeaderHint BY DEF HintInv, NodesBacked, Backed, ElectedBy, LeaderHint
<1> QED BY <1>1, <1>2, <1>3, PTL DEF ClusterSpec
=============================================================================
