---------------------------- MODULE RaftLogProofs ----------------------------
(***************************************************************************)
(* The replicated log of RaftNode: log matching, that acknowledged entries *)
(* survive, and that all state machines are given the same operations, for *)
(* every number of servers, commands and elections.                        *)
(*                                                                         *)
(* The state of the model does not say what the log of a leader was when a *)
(* request was built.  The invariants therefore speak of a set M of pairs  *)
(* of a term and a log a leader of that term once had, and the proofs show *)
(* that there always is such a set: it grows when a node is elected and    *)
(* when a leader appends.                                                  *)
(***************************************************************************)
EXTENDS RaftNodeProofs

-----------------------------------------------------------------------------
(* What the steps do to the nodes.                                          *)

\* The log stays, the term does not fall, and the node keeps its role or
\* follows; in a new term it follows.
Calm(n, m) ==
    /\ m.log_ = n.log_ /\ m.current_term_ >= n.current_term_
    /\ m.role_ \in {n.role_, "Follower"}
    /\ m.current_term_ > n.current_term_ => m.role_ = "Follower"

SameIndexes(n, m) ==
    /\ m.commit_index_ = n.commit_index_ /\ m.last_applied_ = n.last_applied_
    /\ m.match_index_ = n.match_index_

Retires(n, m) == Calm(n, m) /\ SameIndexes(n, m)

\* OnAppendEntries takes the entries and the commit index of a request.
Accepts(n, req, m) ==
    /\ n.current_term_ <= req.term /\ m.current_term_ = req.term /\ m.role_ = "Follower"
    /\ PrevMatches(n, req) /\ m.log_ = LogAfter(n, req)
    /\ m.commit_index_ = CommitAfter(n, req) /\ m.last_applied_ = n.last_applied_

\* Only the fields of node p change.
Only(p) == \A j \in Server : j # p => node'[j] = node[j]

\* A call of AppendEntries with request req reaches p, which takes it or not.
Delivered(p, req, resp) ==
    /\ Only(p)
    /\ \/ ~resp.ok /\ Retires(node[p], node'[p])
       \/ resp.ok /\ Accepts(node[p], req, node'[p])

\* Node i becomes a candidate.
Stands(i) ==
    /\ Only(i) /\ SameIndexes(node[i], node'[i]) /\ node'[i].log_ = node[i].log_
    /\ node'[i].role_ = "Candidate" /\ node'[i].current_term_ = node[i].current_term_ + 1
    /\ ballots' = ballots \cup {<<i, node'[i].current_term_, i>>}
    /\ \A j \in Server : j # i => eth'[j] = eth[j]
    /\ \/ eth'[i].pc = "sleep"
       \/ /\ eth'[i].req.term = node'[i].current_term_
          /\ eth'[i].req.last_log_index = LastLogIndex(node[i])
          /\ eth'[i].req.last_log_term = LastLogTerm(node[i])

\* The threads that ask for votes go on asking the same or are done.
SameAsking == \A j \in Server :
    eth'[j].pc = "sleep" \/ (eth[j].pc # "sleep" /\ eth'[j].req = eth[j].req)

\* A node answers the election thread of node i.
Votes(i) ==
    /\ eth[i].pc # "sleep" /\ SameAsking
    /\ \E p \in Server :
         /\ p # i /\ Only(p) /\ Retires(node[p], node'[p])
         /\ \/ UNCHANGED ballots
            \/ /\ ballots' = ballots \cup {<<p, eth[i].req.term, i>>}
               /\ node'[p].current_term_ = eth[i].req.term
               /\ IsUpToDate(node[p], eth[i].req.last_log_index, eth[i].req.last_log_term)

\* Node i becomes the leader of its term.
Wins(i) ==
    /\ Only(i) /\ UNCHANGED ballots /\ SameAsking
    /\ node[i].role_ = "Candidate" /\ node'[i].role_ = "Leader"
    /\ node'[i].current_term_ = node[i].current_term_ /\ node'[i].log_ = node[i].log_
    /\ node'[i].commit_index_ = node[i].commit_index_
    /\ node'[i].last_applied_ = node[i].last_applied_
    /\ \A p \in Peers(i) : node'[i].match_index_[p] = 0

\* Every node calms down or stays as it is.
AllCalm == \A j \in Server : Calm(node[j], node'[j])
AllRetire == \A j \in Server : Retires(node[j], node'[j])

\* A node that does not change retires.
LEMMA RetiresItself ==
    ASSUME NEW i, NEW n \in Node(i) PROVE Retires(n, n)
  BY DEF Retires, Calm, SameIndexes, Node

\* Stepping down to a later term.
LEMMA DeposedRetires ==
    ASSUME NEW i, NEW n \in Node(i), NEW t \in Nat, t > n.current_term_
    PROVE  Retires(n, BecomeFollower(n, t, None))
  BY DEF Retires, Calm, SameIndexes, BecomeFollower, Node

\* Only one node changes, and it retires.
LEMMA OneRetires ==
    ASSUME TypeInv, NEW p \in Server, NEW m, Retires(node[p], m), node' = [node EXCEPT ![p] = m]
    PROVE  AllRetire /\ Only(p) /\ node'[p] = m
<1>1. \A j \in Server : node[j] \in Node(j) /\ Retires(node[j], node[j])
  BY RetiresItself DEF TypeInv, TypeOK
<1>2. Only(p) /\ node'[p] = m
  BY DEF TypeInv, TypeOK, Only
<1> QED BY <1>1, <1>2 DEF AllRetire, Only

\* Nothing changes.
LEMMA NoneRetires ==
    ASSUME TypeInv, UNCHANGED node PROVE AllRetire
  BY RetiresItself DEF TypeInv, TypeOK, AllRetire

\* OnAppendEntries takes a request as it is or leaves the log alone.
LEMMA OnAppendEntriesEffect ==
    ASSUME NEW i \in Server, NEW n \in Node(i), NEW req \in AppendReq
    PROVE  LET r == OnAppendEntries(n, req)
           IN  \/ ~r.resp.ok /\ Retires(n, r.node)
               \/ r.resp.ok /\ Accepts(n, req, r.node)
<1> DEFINE m == IF req.term > n.current_term_ THEN BecomeFollower(n, req.term, req.leader_id)
                ELSE [n EXCEPT !.role_ = "Follower", !.leader_id_ = req.leader_id]
           match == PrevMatches(m, req)
           u == [m EXCEPT !.log_ = LogAfter(m, req), !.commit_index_ = CommitAfter(m, req)]
<1>1. req.term \in Nat /\ n.current_term_ \in Nat
  BY DEF AppendReq, Node
<1>2. /\ m \in Node(i) /\ m.log_ = n.log_ /\ m.role_ = "Follower" /\ SameIndexes(n, m)
      /\ req.term >= n.current_term_ => m.current_term_ = req.term
  <2> req.leader_id \in Server BY DEF AppendReq
  <2>1. CASE req.term > n.current_term_
    BY <1>1, <2>1 DEF BecomeFollower, Node, SameIndexes
  <2>2. CASE ~(req.term > n.current_term_)
    <3>1. m = [n EXCEPT !.role_ = "Follower", !.leader_id_ = req.leader_id] BY <2>2
    <3> HIDE DEF m
    <3>2. m \in Node(i) BY <3>1 DEF Node
    <3>3. m.log_ = n.log_ /\ m.role_ = "Follower" /\ SameIndexes(n, m) /\ m.current_term_ = n.current_term_
      BY <3>1 DEF Node, SameIndexes
    <3> QED BY <1>1, <2>2, <3>2, <3>3
  <2> QED BY <2>1, <2>2
<1>3. OnAppendEntries(n, req) =
        IF req.term < n.current_term_
        THEN [node |-> n, resp |-> [term |-> n.current_term_, ok |-> FALSE]]
        ELSE [node |-> IF match THEN u ELSE m, resp |-> [term |-> m.current_term_, ok |-> match]]
  BY DEF OnAppendEntries, FromThePast
<1>4. match = PrevMatches(n, req)
  <2> HIDE DEF m
  <2> QED BY <1>2 DEF PrevMatches, LastLogIndex, TermAt
<1>5. LogAfter(m, req) = LogAfter(n, req) /\ CommitAfter(m, req) = CommitAfter(n, req)
  <2> HIDE DEF m
  <2> QED BY <1>2 DEF LogAfter, CommitAfter, SameIndexes
<1> HIDE DEF m, match
<1>6. /\ u.log_ = LogAfter(n, req) /\ u.commit_index_ = CommitAfter(n, req) /\ u.role_ = m.role_
      /\ u.current_term_ = m.current_term_ /\ u.last_applied_ = m.last_applied_
  BY <1>2, <1>5 DEF Node
<1> HIDE DEF u
<1>7. Retires(n, n)
  BY RetiresItself
<1>8. CASE req.term < n.current_term_
  BY <1>3, <1>7, <1>8
<1>9. CASE ~(req.term < n.current_term_) /\ match
  <2>1. Accepts(n, req, u)
    BY <1>1, <1>2, <1>4, <1>6, <1>9 DEF Accepts, SameIndexes
  <2> QED BY <1>3, <1>9, <2>1
<1>10. CASE ~(req.term < n.current_term_) /\ ~match
  <2>1. Retires(n, m)
    BY <1>1, <1>2, <1>10 DEF Retires, Calm
  <2> QED BY <1>3, <1>10, <2>1
<1> QED BY <1>8, <1>9, <1>10

\* A call through the transport, while all nodes are registered.
LEMMA CallDelivered ==
    ASSUME TypeInv, AllUp, NEW p \in Server, NEW req \in AppendReq,
           node' = [node EXCEPT ![p] = AppendEntries(p, req).node]
    PROVE  Delivered(p, req, AppendEntries(p, req).resp)
<1> DEFINE r == OnAppendEntries(node[p], req)
<1>1. AppendEntries(p, req) = r
  BY DEF AppendEntries, AllUp
<1>2. node[p] \in Node(p) /\ DOMAIN node = Server
  BY DEF TypeInv, TypeOK
<1>3. \/ ~r.resp.ok /\ Retires(node[p], r.node)
      \/ r.resp.ok /\ Accepts(node[p], req, r.node)
  BY <1>2, OnAppendEntriesEffect
<1> HIDE DEF r
<1>4. Only(p) /\ node'[p] = r.node
  BY <1>1, <1>2 DEF Only
<1> QED BY <1>1, <1>3, <1>4 DEF Delivered

\* OnRequestVote leaves the log alone and votes for a log that is up to date.
LEMMA OnRequestVoteEffect ==
    ASSUME NEW i \in Server, NEW n \in Node(i), NEW req \in VoteReq
    PROVE  LET r == OnRequestVote(n, req)
           IN  /\ Retires(n, r.node)
               /\ r.resp.ok => /\ r.node.current_term_ = req.term
                               /\ IsUpToDate(n, req.last_log_index, req.last_log_term)
<1> DEFINE m == IF req.term > n.current_term_ THEN BecomeFollower(n, req.term, None) ELSE n
           grant == /\ req.term >= n.current_term_
                    /\ CanVote(m, req)
                    /\ IsUpToDate(m, req.last_log_index, req.last_log_term)
           g == [m EXCEPT !.voted_for_ = req.candidate_id]
<1>1. req.term \in Nat /\ n.current_term_ \in Nat /\ req.candidate_id \in Server
  BY DEF VoteReq, Node
<1>2. /\ m \in Node(i) /\ m.log_ = n.log_ /\ Retires(n, m)
      /\ req.term >= n.current_term_ => m.current_term_ = req.term
  <2>1. CASE req.term > n.current_term_
    <3>1. m = BecomeFollower(n, req.term, None) BY <2>1
    <3>2. m \in Node(i) /\ m.log_ = n.log_ /\ m.current_term_ = req.term
      <4> HIDE DEF m
      <4> QED BY <1>1, <3>1 DEF BecomeFollower, Node
    <3>3. Retires(n, m) BY <1>1, <2>1, <3>1, DeposedRetires
    <3> QED BY <3>2, <3>3
  <2>2. CASE ~(req.term > n.current_term_)
    BY <1>1, <2>2, RetiresItself
  <2> QED BY <2>1, <2>2
<1>3. OnRequestVote(n, req) = [node |-> IF grant THEN g ELSE m,
                               resp |-> [term |-> m.current_term_, ok |-> grant]]
  BY DEF OnRequestVote
<1> HIDE DEF m
<1>4. Retires(n, g) /\ g.current_term_ = m.current_term_
  BY <1>2 DEF Retires, Calm, SameIndexes, Node
<1>5. grant => IsUpToDate(n, req.last_log_index, req.last_log_term) /\ m.current_term_ = req.term
  BY <1>2 DEF IsUpToDate, LastLogTerm, LastLogIndex, TermAt
<1> HIDE DEF g, grant
<1> QED BY <1>2, <1>3, <1>4, <1>5
\* What the election thread of node i does.
ElectionEffect(i) ==
    \/ Stands(i) \/ Votes(i) \/ Wins(i)
    \/ AllRetire /\ UNCHANGED ballots /\ SameAsking

\* An election thread that goes on with its request or ends.
LEMMA AskingKept ==
    ASSUME TypeInv, NEW i \in Server, NEW u, eth' = [eth EXCEPT ![i] = u],
           u.pc = "sleep" \/ (eth[i].pc # "sleep" /\ u.req = eth[i].req)
    PROVE  SameAsking
  BY DEF SameAsking, TypeInv, TypeOK

\* The steps of ElectionLoop.
LEMMA ElectionMoves ==
    ASSUME TypeInv, AllUp, NEW i \in Server, ElectionThread(i)
    PROVE  ElectionEffect(i) /\ Turn("e", i) /\ UNCHANGED <<hth, cth, applied, acked, registered>>
<1>0. Turn("e", i) /\ UNCHANGED <<hth, cth, applied, acked, registered>>
  BY DEF ElectionThread, ElectionTimeout, ElectionAsk, ElectionReply, history, service
<1>1. /\ node[i] \in Node(i) /\ DOMAIN node = Server /\ DOMAIN eth = Server
      /\ eth[i] \in ElectionThreadState(i) /\ node[i].current_term_ \in Nat
  BY DEF TypeInv, TypeOK, Node
<1>2. CASE ElectionTimeout(i)
  <2> DEFINE n == BecomeCandidate(node[i], i)
             req == [term |-> n.current_term_, candidate_id |-> i,
                     last_log_index |-> LastLogIndex(n), last_log_term |-> LastLogTerm(n)]
             asking == [pc |-> "ask", todo |-> Peers(i), req |-> req, votes |-> {i},
                        resp |-> [term |-> 0, ok |-> FALSE]]
  <2>1. /\ node' = [node EXCEPT ![i] = n] /\ eth' = [eth EXCEPT ![i] = EthNext(asking, Peers(i))]
        /\ ballots' = ballots \cup {<<i, n.current_term_, i>>}
    BY <1>2 DEF ElectionTimeout
  <2>2. /\ n.current_term_ = node[i].current_term_ + 1 /\ n.role_ = "Candidate"
        /\ n.log_ = node[i].log_ /\ SameIndexes(node[i], n)
    BY <1>1 DEF BecomeCandidate, Node, SameIndexes
  <2> HIDE DEF n
  <2>3. LastLogIndex(n) = LastLogIndex(node[i]) /\ LastLogTerm(n) = LastLogTerm(node[i])
    BY <2>2 DEF LastLogIndex, LastLogTerm, TermAt
  <2>4. /\ req.term = n.current_term_ /\ req.last_log_index = LastLogIndex(node[i])
        /\ req.last_log_term = LastLogTerm(node[i])
    BY <2>3
  <2> HIDE DEF req
  <2>5. EthNext(asking, Peers(i)).pc = "sleep" \/ EthNext(asking, Peers(i)).req = req
    BY DEF EthNext, Asleep
  <2>6. node'[i] = n /\ Only(i) /\ eth'[i] = EthNext(asking, Peers(i))
        /\ \A j \in Server : j # i => eth'[j] = eth[j]
    BY <1>1, <2>1 DEF Only
  <2>7. Stands(i)
    BY <2>1, <2>2, <2>4, <2>5, <2>6 DEF Stands
  <2> QED BY <1>0, <2>7 DEF ElectionEffect
<1>3. CASE ElectionAsk(i)
  <2> DEFINE p == Min(eth[i].todo)
             r == RequestVote(p, eth[i].req)
             u == [eth[i] EXCEPT !.pc = "vote_reply", !.resp = r.resp]
  <2>1. eth[i].pc = "ask" /\ eth[i] \in [pc : {"ask", "vote_reply"}, todo : ToCall(i), req : VoteReq,
                                         votes : SUBSET Server, resp : Resp]
    BY <1>1, <1>3 DEF ElectionAsk, ElectionThreadState, Asleep
  <2>2. p \in Server /\ p # i
    BY <2>1, NextPeer
  <2>3. /\ node' = [node EXCEPT ![p] = r.node] /\ eth' = [eth EXCEPT ![i] = u]
        /\ ballots' = IF r.resp.ok THEN ballots \cup {<<p, eth[i].req.term, i>>} ELSE ballots
    BY <1>1, <1>3 DEF ElectionAsk
  <2>4. r = OnRequestVote(node[p], eth[i].req) /\ node[p] \in Node(p)
    BY <2>2 DEF RequestVote, AllUp, TypeInv, TypeOK
  <2> HIDE DEF p, r
  <2>5. /\ Retires(node[p], r.node)
        /\ r.resp.ok => /\ r.node.current_term_ = eth[i].req.term
                        /\ IsUpToDate(node[p], eth[i].req.last_log_index, eth[i].req.last_log_term)
    BY <2>1, <2>2, <2>4, OnRequestVoteEffect
  <2>6. node'[p] = r.node /\ Only(p)
    BY <1>1, <2>2, <2>3 DEF Only
  <2>7. u.req = eth[i].req BY <2>1
  <2>8. SameAsking
    <3> HIDE DEF u
    <3> QED BY <2>1, <2>3, <2>7, AskingKept
  <2>9. Votes(i)
    BY <2>1, <2>2, <2>3, <2>5, <2>6, <2>8 DEF Votes
  <2> QED BY <1>0, <2>9 DEF ElectionEffect
<1>4. CASE ElectionReply(i)
  <2> DEFINE n == node[i]  t == eth[i]  p == Min(t.todo)
             votes == IF t.resp.ok THEN t.votes \cup {p} ELSE t.votes
             on == EthNext([t EXCEPT !.votes = votes], t.todo \ {p})
             l == BecomeLeader(n, i)
  <2>1. t.pc = "vote_reply" /\ t \in [pc : {"ask", "vote_reply"}, todo : ToCall(i), req : VoteReq,
                                      votes : SUBSET Server, resp : Resp]
    BY <1>1, <1>4 DEF ElectionReply, ElectionThreadState, Asleep
  <2>2. /\ \/ UNCHANGED node
           \/ node' = [node EXCEPT ![i] = BecomeFollower(n, t.resp.term, None)] /\ t.resp.term > n.current_term_
           \/ node' = [node EXCEPT ![i] = l] /\ n.role_ = "Candidate"
        /\ eth' = [eth EXCEPT ![i] = Asleep] \/ eth' = [eth EXCEPT ![i] = on]
        /\ UNCHANGED ballots
    BY <1>4 DEF ElectionReply, history
  <2>3. on.pc = "sleep" \/ on.req = t.req
    BY <2>1 DEF EthNext, Asleep
  <2>4. Asleep.pc = "sleep" BY DEF Asleep
  <2>5. SameAsking
    <3> HIDE DEF on
    <3> QED BY <2>1, <2>2, <2>3, <2>4, AskingKept
  <2>6. CASE UNCHANGED node
    BY <1>0, <2>2, <2>5, <2>6, NoneRetires DEF ElectionEffect
  <2>7. CASE node' = [node EXCEPT ![i] = BecomeFollower(n, t.resp.term, None)] /\ t.resp.term > n.current_term_
    <3>1. t.resp.term \in Nat BY <2>1 DEF Resp
    <3>2. Retires(n, BecomeFollower(n, t.resp.term, None)) BY <1>1, <2>7, <3>1, DeposedRetires
    <3>3. AllRetire BY <2>7, <3>2, OneRetires
    <3> QED BY <1>0, <2>2, <2>5, <3>3 DEF ElectionEffect
  <2>8. CASE node' = [node EXCEPT ![i] = l] /\ n.role_ = "Candidate"
    <3>1. /\ l.role_ = "Leader" /\ l.current_term_ = n.current_term_ /\ l.log_ = n.log_
          /\ l.commit_index_ = n.commit_index_ /\ l.last_applied_ = n.last_applied_
          /\ \A q \in Peers(i) : l.match_index_[q] = 0
      BY <1>1 DEF BecomeLeader, Node
    <3> HIDE DEF l
    <3>2. node'[i] = l /\ Only(i) BY <1>1, <2>8 DEF Only
    <3>3. Wins(i) BY <2>2, <2>5, <2>8, <3>1, <3>2 DEF Wins
    <3> QED BY <1>0, <3>3 DEF ElectionEffect
  <2> QED BY <2>2, <2>6, <2>7, <2>8
<1> QED BY <1>2, <1>3, <1>4 DEF ElectionThread
\* The heartbeat thread of node i moves and no node changes: it is at rest,
\* about to build a request, or has built one as the leader.
Beats(i) ==
    /\ UNCHANGED node /\ hth[i].pc \in {"sleep", "build"}
    /\ \/ hth'[i].pc \in {"sleep", "build"}
       \/ /\ hth'[i].pc = "hb_send" /\ IsLeader(i) /\ hth'[i].todo \in ToCall(i)
          /\ hth'[i].req = BuildAppendEntries(node[i], i, Min(hth'[i].todo))

\* It sends its request.
Sends(i) ==
    /\ hth[i].pc = "hb_send" /\ hth'[i].pc = "hb_reply"
    /\ hth[i].todo \in ToCall(i) /\ hth[i].req \in AppendReq
    /\ hth'[i].todo = hth[i].todo /\ hth'[i].req = hth[i].req
    /\ Delivered(Min(hth[i].todo), hth[i].req, hth'[i].resp)

\* It handles the answer.
Handles(i) ==
    /\ hth[i].pc = "hb_reply" /\ hth'[i].pc \in {"sleep", "build"}
    /\ hth[i].todo \in ToCall(i) /\ hth[i].req \in AppendReq
    /\ Only(i)
    /\ \/ Retires(node[i], node'[i])
       \/ node'[i] = AfterReply(node[i], i, Min(hth[i].todo), hth[i].req, hth[i].resp)

\* The steps of HeartbeatLoop.
LEMMA HeartbeatMoves ==
    ASSUME TypeInv, AllUp, NEW i \in Server, HeartbeatThread(i)
    PROVE  /\ Beats(i) \/ Sends(i) \/ Handles(i)
           /\ Turn("h", i) /\ UNCHANGED <<eth, cth, ballots, applied, acked, registered>>
           /\ \A j \in Server : j # i => hth'[j] = hth[j]
<1>0. Turn("h", i) /\ UNCHANGED <<eth, cth, ballots, applied, acked, registered>>
  BY DEF HeartbeatThread, HeartbeatTick, HeartbeatBuild, HeartbeatSend, HeartbeatReply, history, service
<1>1. /\ node[i] \in Node(i) /\ DOMAIN node = Server /\ DOMAIN hth = Server
      /\ hth[i] \in HeartbeatThreadState(i)
  BY DEF TypeInv, TypeOK
<1>2. CASE HeartbeatTick(i)
  <2> DEFINE u == HthNext(Asleep, Peers(i))
  <2>1. hth' = [hth EXCEPT ![i] = u] /\ UNCHANGED node /\ hth[i].pc = "sleep"
    BY <1>2 DEF HeartbeatTick
  <2>2. u.pc \in {"sleep", "build"} BY DEF HthNext, Asleep
  <2> HIDE DEF u
  <2>3. hth'[i] = u /\ \A j \in Server : j # i => hth'[j] = hth[j] BY <1>1, <2>1
  <2> QED BY <1>0, <2>1, <2>2, <2>3 DEF Beats
<1>3. CASE HeartbeatBuild(i)
  <2> DEFINE req == BuildAppendEntries(node[i], i, Min(hth[i].todo))
             u == IF node[i].role_ # "Leader" THEN Asleep
                  ELSE [pc |-> "hb_send", todo |-> hth[i].todo, req |-> req]
  <2>1. hth' = [hth EXCEPT ![i] = u] /\ UNCHANGED node /\ hth[i].pc = "build"
    BY <1>3 DEF HeartbeatBuild
  <2>2. hth[i].todo \in ToCall(i)
    BY <1>1, <2>1 DEF HeartbeatThreadState, Asleep
  <2>3. \/ u.pc = "sleep"
        \/ u.pc = "hb_send" /\ IsLeader(i) /\ u.todo = hth[i].todo /\ u.req = req
    <3> HIDE DEF req
    <3> QED BY DEF Asleep, IsLeader
  <2> HIDE DEF u
  <2>4. hth'[i] = u /\ \A j \in Server : j # i => hth'[j] = hth[j] BY <1>1, <2>1
  <2> QED BY <1>0, <2>1, <2>2, <2>3, <2>4 DEF Beats
<1>4. CASE HeartbeatSend(i)
  <2> DEFINE p == Min(hth[i].todo)
             r == AppendEntries(p, hth[i].req)
             u == [pc |-> "hb_reply", todo |-> hth[i].todo, req |-> hth[i].req, resp |-> r.resp]
  <2>1. hth[i].pc = "hb_send" /\ hth[i].todo \in ToCall(i) /\ hth[i].req \in AppendReq
    BY <1>1, <1>4 DEF HeartbeatSend, HeartbeatThreadState, Asleep
  <2>2. p \in Server BY <2>1, NextPeer
  <2>3. hth' = [hth EXCEPT ![i] = u] /\ node' = [node EXCEPT ![p] = r.node]
    BY <1>4 DEF HeartbeatSend
  <2>4. Delivered(p, hth[i].req, r.resp)
    <3> HIDE DEF p
    <3> QED BY <2>1, <2>2, <2>3, CallDelivered
  <2> HIDE DEF r
  <2>5. hth'[i] = u /\ \A j \in Server : j # i => hth'[j] = hth[j] BY <1>1, <2>3
  <2> HIDE DEF p
  <2>6. hth'[i].pc = "hb_reply" /\ hth'[i].todo = hth[i].todo /\ hth'[i].req = hth[i].req /\ hth'[i].resp = r.resp
    BY <2>5
  <2>7. Sends(i) BY <2>1, <2>4, <2>6 DEF Sends, p
  <2> QED BY <1>0, <2>5, <2>7
<1>5. CASE HeartbeatReply(i)
  <2> DEFINE n == node[i]  t == hth[i]  p == Min(t.todo)
             deposed == t.resp.term > n.current_term_
             m == IF deposed THEN BecomeFollower(n, t.resp.term, None)
                  ELSE AfterReply(n, i, p, t.req, t.resp)
             u == IF deposed THEN Asleep ELSE HthNext(Asleep, t.todo \ {p})
  <2>1. t.pc = "hb_reply" /\ t.todo \in ToCall(i) /\ t.req \in AppendReq /\ t.resp \in Resp
    BY <1>1, <1>5 DEF HeartbeatReply, HeartbeatThreadState, Asleep
  <2>2. node' = [node EXCEPT ![i] = m] /\ hth' = [hth EXCEPT ![i] = u]
    BY <1>5 DEF HeartbeatReply
  <2>3. u.pc \in {"sleep", "build"} BY DEF HthNext, Asleep
  <2>4. Retires(n, m) \/ m = AfterReply(n, i, p, t.req, t.resp)
    <3>1. t.resp.term \in Nat BY <2>1 DEF Resp
    <3> QED BY <1>1, <3>1, DeposedRetires
  <2> HIDE DEF m, u
  <2>5. hth'[i] = u /\ (\A j \in Server : j # i => hth'[j] = hth[j]) /\ node'[i] = m /\ Only(i)
    BY <1>1, <2>2 DEF Only
  <2>6. Handles(i) BY <2>1, <2>3, <2>4, <2>5 DEF Handles
  <2> QED BY <1>0, <2>5, <2>6
<1> QED BY <1>2, <1>3, <1>4, <1>5 DEF HeartbeatThread

\* A proposal appends entry e to the log of its node.
Appends(i, e) ==
    /\ cth[i].pc = "none" /\ IsLeader(i) /\ e \in Entry /\ e.term = node[i].current_term_
    /\ Only(i) /\ SameIndexes(node[i], node'[i])
    /\ node'[i].log_ = Append(node[i].log_, e)
    /\ node'[i].role_ = "Leader" /\ node'[i].current_term_ = node[i].current_term_
    /\ cth'[i].pc = "gap" /\ cth'[i].entry = e /\ UNCHANGED acked

\* It reads its position and makes its request.
Reads(i) ==
    LET n == node[i]  prev == LastLogIndex(n) - 1
    IN  /\ cth[i].pc = "gap" /\ UNCHANGED <<node, acked>>
        /\ cth'[i].pc = IF Peers(i) = {} THEN "commit" ELSE "send"
        /\ cth'[i].entry = cth[i].entry /\ cth'[i].acks = {i}
        /\ cth'[i].req = AppendEntriesReq(n.current_term_, i, prev, TermAt(n, prev), <<cth[i].entry>>, 0)

\* It calls a peer, in window from, and waits for the answer in window to.
Calls(i, from, to) ==
    /\ cth[i].pc = from /\ cth'[i].pc = to /\ UNCHANGED acked
    /\ cth[i].todo \in ToCall(i) /\ cth[i].req \in AppendReq
    /\ cth'[i].todo = cth[i].todo /\ cth'[i].entry = cth[i].entry
    /\ cth'[i].req = cth[i].req /\ cth'[i].acks = cth[i].acks
    /\ Delivered(Min(cth[i].todo), cth[i].req, cth'[i].resp)

\* It counts the answer.
Counts(i) ==
    LET acks == IF cth[i].resp.ok THEN cth[i].acks \cup {Min(cth[i].todo)} ELSE cth[i].acks
    IN  /\ cth[i].pc = "ack" /\ AllRetire /\ UNCHANGED acked
        /\ \/ cth'[i].pc = "none"
           \/ /\ cth'[i].pc = IF Majority(acks) THEN "commit" ELSE "send"
              /\ cth'[i].entry = cth[i].entry /\ cth'[i].req = cth[i].req /\ cth'[i].acks = acks

\* It builds the closing heartbeat.
Closes(i) ==
    LET n == node[i]  last == LastLogIndex(n)
    IN  /\ cth[i].pc = "commit" /\ UNCHANGED <<node, acked>>
        /\ cth'[i].pc = "notify" /\ cth'[i].entry = cth[i].entry /\ cth'[i].acks = cth[i].acks
        /\ cth'[i].req = AppendEntriesReq(n.current_term_, i, last, TermAt(n, last), <<>>, n.commit_index_)

\* It goes on to the next peer after the answer to the closing heartbeat.
GoesOn(i) ==
    /\ cth[i].pc = "notify_ack" /\ AllRetire /\ UNCHANGED acked
    /\ cth'[i].pc = "notify" /\ cth'[i].entry = cth[i].entry
    /\ cth'[i].req = cth[i].req /\ cth'[i].acks = cth[i].acks

\* It returns true.
Returns(i) ==
    /\ cth[i].pc = "notify" /\ cth'[i].pc = "none" /\ UNCHANGED node
    /\ acked' = acked \cup {cth[i].entry}

ClientEffect(i) ==
    \/ \E e \in Entry : Appends(i, e)
    \/ Reads(i) \/ Calls(i, "send", "ack") \/ Counts(i)
    \/ Closes(i) \/ Calls(i, "notify", "notify_ack") \/ GoesOn(i) \/ Returns(i)
\* The steps of ProposePut and ProposeDel.
LEMMA ClientMoves ==
    ASSUME TypeInv, AllUp, NEW i \in Server, ClientThread(i)
    PROVE  /\ ClientEffect(i) /\ Turn("c", i) /\ UNCHANGED <<eth, hth, ballots, applied, registered>>
           /\ \A j \in Server : j # i => cth'[j] = cth[j]
<1> DEFINE n == node[i]  t == cth[i]
<1>0. Turn("c", i) /\ UNCHANGED <<eth, hth, ballots, applied, registered>>
  BY DEF ClientThread, ClientStep, ProposePut, ProposeDel, Propose, ProposeRead, ProposeSend, ProposeCall,
         ProposeAck, ProposeCommit, ProposeNotify, ProposeNotifyAck, ProposeReturn, history, service
<1>1. /\ n \in Node(i) /\ DOMAIN node = Server /\ DOMAIN cth = Server /\ t \in ClientThreadState(i)
      /\ n.current_term_ \in Nat
  BY DEF TypeInv, TypeOK, Node
<1> DEFINE Goal == ClientEffect(i) /\ \A j \in Server : j # i => cth'[j] = cth[j]
<1> SUFFICES Goal
  BY <1>0
<1>2. ASSUME NEW c \in Cmd, Propose(i, c) PROVE Goal
  <2> DEFINE e == [term |-> n.current_term_, cmd |-> c]
             m == [n EXCEPT !.log_ = Append(@, e)]
             u == [pc |-> "gap", todo |-> {}, entry |-> e]
  <2>1. /\ node' = [node EXCEPT ![i] = m] /\ cth' = [cth EXCEPT ![i] = u] /\ n.role_ = "Leader"
        /\ UNCHANGED acked /\ cth[i].pc = "none"
    BY <1>2 DEF Propose
  <2>2. e \in Entry /\ e.term = n.current_term_ BY <1>1 DEF Entry
  <2> HIDE DEF e
  <2>3. /\ m.log_ = Append(n.log_, e) /\ m.role_ = n.role_ /\ m.current_term_ = n.current_term_
        /\ SameIndexes(n, m)
    BY <1>1 DEF Node, SameIndexes
  <2> HIDE DEF m
  <2>4. node'[i] = m /\ Only(i) /\ cth'[i] = u /\ \A j \in Server : j # i => cth'[j] = cth[j]
    BY <1>1, <2>1 DEF Only
  <2>5. Appends(i, e) BY <2>1, <2>2, <2>3, <2>4 DEF Appends, IsLeader
  <2> QED BY <2>2, <2>4, <2>5 DEF ClientEffect
<1>3. CASE ProposeRead(i)
  <2> DEFINE prev == LastLogIndex(n) - 1
             req == AppendEntriesReq(n.current_term_, i, prev, TermAt(n, prev), <<t.entry>>, 0)
             u == [pc |-> IF Peers(i) = {} THEN "commit" ELSE "send",
                   todo |-> Peers(i), entry |-> t.entry, req |-> req, acks |-> {i}]
  <2>1. t.pc = "gap" /\ cth' = [cth EXCEPT ![i] = u] /\ UNCHANGED <<node, acked>>
    BY <1>3 DEF ProposeRead, history
  <2> HIDE DEF req
  <2>2. cth'[i] = u /\ \A j \in Server : j # i => cth'[j] = cth[j] BY <1>1, <2>1
  <2>3. Reads(i) BY <2>1, <2>2 DEF Reads, req
  <2> QED BY <2>2, <2>3 DEF ClientEffect
<1>4. ASSUME NEW from \in {"send", "notify"}, NEW to \in {"ack", "notify_ack"},
             t.todo # {}, ProposeCall(i, from, to)
      PROVE  Calls(i, from, to) /\ \A j \in Server : j # i => cth'[j] = cth[j]
  <2> DEFINE p == Min(t.todo)
             r == AppendEntries(p, t.req)
             u == [pc |-> to, todo |-> t.todo, entry |-> t.entry, req |-> t.req, acks |-> t.acks,
                   resp |-> r.resp]
  <2>1. t.pc = from /\ t.todo \in ToCall(i) /\ t.req \in AppendReq
    BY <1>1, <1>4 DEF ProposeCall, ClientThreadState, NoCall, ToCall
  <2>2. p \in Server BY <2>1, NextPeer
  <2>3. node' = [node EXCEPT ![p] = r.node] /\ cth' = [cth EXCEPT ![i] = u] /\ UNCHANGED acked
    BY <1>4 DEF ProposeCall, history
  <2>4. Delivered(p, t.req, r.resp)
    <3> HIDE DEF p
    <3> QED BY <2>1, <2>2, <2>3, CallDelivered
  <2> HIDE DEF r
  <2>5. cth'[i] = u /\ \A j \in Server : j # i => cth'[j] = cth[j] BY <1>1, <2>3
  <2> HIDE DEF p
  <2>6. /\ cth'[i].pc = to /\ cth'[i].todo = t.todo /\ cth'[i].entry = t.entry
        /\ cth'[i].req = t.req /\ cth'[i].acks = t.acks /\ cth'[i].resp = r.resp
    BY <2>5
  <2> QED BY <2>1, <2>3, <2>4, <2>5, <2>6 DEF Calls, p
<1>5. CASE ProposeSend(i)
  <2>1. t.todo # {}
    BY <1>1, <1>5 DEF ProposeSend, ProposeCall, ClientThreadState, NoCall, ToCall
  <2> QED BY <1>4, <1>5, <2>1 DEF ProposeSend, ClientEffect
<1>6. CASE ProposeNotify(i)
  BY <1>4, <1>6 DEF ProposeNotify, ClientEffect
<1>7. ASSUME NEW d, t.resp.term \in Nat, d => t.resp.term > n.current_term_,
             node' = IF d THEN [node EXCEPT ![i] = BecomeFollower(n, t.resp.term, None)] ELSE node
      PROVE  AllRetire
  <2>1. CASE d
    <3>1. Retires(n, BecomeFollower(n, t.resp.term, None)) BY <1>1, <1>7, <2>1, DeposedRetires
    <3> QED BY <1>7, <2>1, <3>1, OneRetires
  <2>2. CASE ~d
    BY <1>7, <2>2, NoneRetires
  <2> QED BY <2>1, <2>2
<1>8. CASE ProposeAck(i)
  <2> DEFINE p == Min(t.todo)
             deposed == n.role_ = "Leader" /\ t.resp.term > n.current_term_
             acks == IF t.resp.ok THEN t.acks \cup {p} ELSE t.acks
             left == t.todo \ {p}
             next == IF Majority(acks) THEN "commit" ELSE "send"
             u == IF n.role_ # "Leader" \/ deposed \/ (next = "send" /\ left = {})
                  THEN NoCall
                  ELSE [pc |-> next, todo |-> IF next = "send" THEN left ELSE {}, entry |-> t.entry,
                        req |-> t.req, acks |-> acks]
  <2>1. t.pc = "ack" /\ t.resp.term \in Nat
    BY <1>1, <1>8 DEF ProposeAck, ClientThreadState, NoCall, Resp
  <2>2. /\ node' = IF deposed THEN [node EXCEPT ![i] = BecomeFollower(n, t.resp.term, None)] ELSE node
        /\ cth' = [cth EXCEPT ![i] = u] /\ UNCHANGED acked
    BY <1>8 DEF ProposeAck, history
  <2>3. AllRetire BY <1>7, <2>1, <2>2
  <2> HIDE DEF acks
  <2>4. u.pc = "none" \/ (u.pc = next /\ u.entry = t.entry /\ u.req = t.req /\ u.acks = acks)
    BY DEF NoCall
  <2> HIDE DEF u
  <2>5. cth'[i] = u /\ \A j \in Server : j # i => cth'[j] = cth[j] BY <1>1, <2>2
  <2>6. Counts(i) BY <2>1, <2>2, <2>3, <2>4, <2>5 DEF Counts, acks
  <2> QED BY <2>5, <2>6 DEF ClientEffect
<1>9. CASE ProposeCommit(i)
  <2> DEFINE last == LastLogIndex(n)
             req == AppendEntriesReq(n.current_term_, i, last, TermAt(n, last), <<>>, n.commit_index_)
             u == [pc |-> "notify", todo |-> Peers(i), entry |-> t.entry, req |-> req, acks |-> t.acks]
  <2>1. t.pc = "commit" /\ cth' = [cth EXCEPT ![i] = u] /\ UNCHANGED <<node, acked>>
    BY <1>9 DEF ProposeCommit, history
  <2> HIDE DEF req
  <2>2. cth'[i] = u /\ \A j \in Server : j # i => cth'[j] = cth[j] BY <1>1, <2>1
  <2>3. Closes(i) BY <2>1, <2>2 DEF Closes, req
  <2> QED BY <2>2, <2>3 DEF ClientEffect
<1>10. CASE ProposeNotifyAck(i)
  <2> DEFINE deposed == t.resp.term > n.current_term_
             left == IF deposed THEN {} ELSE t.todo \ {Min(t.todo)}
             u == [pc |-> "notify", entry |-> t.entry, req |-> t.req, acks |-> t.acks, todo |-> left]
  <2>1. t.pc = "notify_ack" /\ t.resp.term \in Nat
    BY <1>1, <1>10 DEF ProposeNotifyAck, ClientThreadState, NoCall, Resp
  <2>2. /\ node' = IF deposed THEN [node EXCEPT ![i] = BecomeFollower(n, t.resp.term, None)] ELSE node
        /\ cth' = [cth EXCEPT ![i] = u] /\ UNCHANGED acked
    BY <1>10 DEF ProposeNotifyAck, history
  <2>3. AllRetire BY <1>7, <2>1, <2>2
  <2> HIDE DEF left
  <2>4. cth'[i] = u /\ \A j \in Server : j # i => cth'[j] = cth[j] BY <1>1, <2>2
  <2>5. GoesOn(i) BY <2>1, <2>2, <2>3, <2>4 DEF GoesOn
  <2> QED BY <2>4, <2>5 DEF ClientEffect
<1>11. CASE ProposeReturn(i)
  <2>1. cth' = [cth EXCEPT ![i] = NoCall] /\ t.pc = "notify" /\ UNCHANGED node /\ acked' = acked \cup {t.entry}
    BY <1>11 DEF ProposeReturn
  <2>2. cth'[i] = NoCall /\ \A j \in Server : j # i => cth'[j] = cth[j] BY <1>1, <2>1
  <2>3. Returns(i) BY <2>1, <2>2 DEF Returns, NoCall
  <2> QED BY <2>2, <2>3 DEF ClientEffect
<1> QED
  BY <1>2, <1>3, <1>5, <1>6, <1>8, <1>9, <1>10, <1>11
  DEF ClientThread, ClientStep, ProposePut, ProposeDel
-----------------------------------------------------------------------------
(* The logs that leaders had.                                               *)

\* Log h begins with all of log g.
Begins(h, g) == Len(g) <= Len(h) /\ \A k \in 1..Len(g) : h[k] = g[k]

\* Log g has entry e at position k.
Has(g, k, e) == k \in 1..Len(g) /\ g[k] = e

TermOf(g, k) == IF k \in 1..Len(g) THEN g[k].term ELSE 0

Tenure == [term : Nat, log : Seq(Entry)]

\* An entry of term t at position k of a log stands where the leader of term t
\* put it: that leader once had the log up to k.
Cuts(M) == \A x \in M : \A k \in 1..Len(x.log) :
    /\ 1 <= x.log[k].term /\ x.log[k].term <= x.term
    /\ \E y \in M : y.term = x.log[k].term /\ Len(y.log) = k /\ Begins(x.log, y.log)

\* The logs that the leader of one term had are prefixes of each other.
Chain(M) == \A x, y \in M :
    x.term = y.term => Begins(x.log, y.log) \/ Begins(y.log, x.log)

Lineage(M) == M \in SUBSET Tenure /\ Cuts(M) /\ Chain(M)

\* Somebody was elected in term t and does not stand for it any more.
HasLed(t) == \E w \in Server :
    /\ Majority(Voters(t, w))
    /\ \/ node[w].current_term_ > t
       \/ node[w].current_term_ = t /\ node[w].role_ # "Candidate"

Origin(M) == \A x \in M : x.term > 0 => HasLed(x.term)

\* A log is one that some leader had, of the node's term or an earlier one.
Sourced(M, n) == \E x \in M : x.term <= n.current_term_ /\ x.log = n.log_

NodeLogs(M) == \A j \in Server : Sourced(M, node[j])

\* The log of a leader is the longest of its term.
LeaderLogs(M) == \A i \in Server : IsLeader(i) =>
    /\ [term |-> node[i].current_term_, log |-> node[i].log_] \in M
    /\ \A x \in M : x.term = node[i].current_term_ => Begins(node[i].log_, x.log)

CoreInv(M) == Lineage(M) /\ Origin(M) /\ NodeLogs(M) /\ LeaderLogs(M)

\* Log matching, in a form that compares different positions too: an entry
\* of the same term at the same or a later position implies the whole prefix.
LEMMA LineageMatch ==
    ASSUME NEW M, Lineage(M), NEW x \in M, NEW y \in M, NEW a \in 1..Len(x.log), NEW b \in 1..Len(y.log),
           a <= b, x.log[a].term = y.log[b].term
    PROVE  \A k \in 1..a : k \in 1..Len(y.log) /\ x.log[k] = y.log[k]
<1>1. x \in Tenure /\ y \in Tenure BY DEF Lineage
<1>2. x.log \in Seq(Entry) /\ y.log \in Seq(Entry) BY <1>1 DEF Tenure
<1>3. PICK v \in M : v.term = x.log[a].term /\ Len(v.log) = a /\ Begins(x.log, v.log)
  BY DEF Lineage, Cuts
<1>4. PICK w \in M : w.term = y.log[b].term /\ Len(w.log) = b /\ Begins(y.log, w.log)
  BY DEF Lineage, Cuts
<1>5. Begins(v.log, w.log) \/ Begins(w.log, v.log)
  BY <1>3, <1>4 DEF Lineage, Chain
<1>6. Len(x.log) \in Nat /\ Len(y.log) \in Nat BY <1>2
<1> QED BY <1>3, <1>4, <1>5, <1>6 DEF Begins
\* The term of a node does not fall, it does not stand again for its term, and
\* it leads only if it led the same term with the same log.
Steady(n, m) ==
    /\ m.current_term_ >= n.current_term_
    /\ m.current_term_ = n.current_term_ /\ m.role_ = "Candidate" => n.role_ = "Candidate"
    /\ m.role_ = "Leader" =>
         n.role_ = "Leader" /\ m.current_term_ = n.current_term_ /\ m.log_ = n.log_

AllSteady == \A j \in Server : Steady(node[j], node'[j])

\* Whoever led a term goes on having led it.
LEMMA HasLedKept ==
    ASSUME TypeInv, TypeInv', ballots \subseteq ballots', NEW t \in Nat, HasLed(t),
           \A j \in Server : /\ node'[j].current_term_ >= node[j].current_term_
                             /\ node'[j].current_term_ = node[j].current_term_ /\ node'[j].role_ = "Candidate"
                                  => node[j].role_ = "Candidate"
    PROVE  HasLed(t)'
<1>1. PICK w \in Server :
        /\ Majority(Voters(t, w))
        /\ \/ node[w].current_term_ > t
           \/ node[w].current_term_ = t /\ node[w].role_ # "Candidate"
  BY DEF HasLed
<1>2. node[w].current_term_ \in Nat /\ node'[w].current_term_ \in Nat
  BY DEF TypeInv, TypeOK, Node
<1> DEFINE S == Voters(t, w)  T == Voters(t, w)'
<1>3. S \in SUBSET T /\ T \in SUBSET Server BY DEF Voters
<1> HIDE DEF S, T
<1>4. Majority(T) BY <1>1, <1>3, MajorityGrows DEF S
<1>5. Majority(Voters(t, w))' BY <1>4 DEF T, Majority
<1>6. \/ node'[w].current_term_ > t
      \/ node'[w].current_term_ = t /\ node'[w].role_ # "Candidate"
  BY <1>1, <1>2
<1> QED BY <1>5, <1>6 DEF HasLed

\* A step in which nobody comes to lead and no leader appends.
LEMMA SteadyCore ==
    ASSUME TypeInv, TypeInv', ballots \subseteq ballots', NEW M, CoreInv(M),
           \A j \in Server : Steady(node[j], node'[j]) /\ Sourced(M, node'[j])
    PROVE  CoreInv(M)'
<1> USE DEF CoreInv
<1>1. M \in SUBSET Tenure BY DEF Lineage
<1>2. Origin(M)'
  <2> SUFFICES ASSUME NEW x \in M, x.term > 0 PROVE HasLed(x.term)'
    BY DEF Origin
  <2>1. x.term \in Nat BY <1>1 DEF Tenure
  <2>2. HasLed(x.term) BY DEF Origin
  <2> QED BY <2>1, <2>2, HasLedKept DEF Steady
<1>3. NodeLogs(M)' BY DEF NodeLogs
<1>4. LeaderLogs(M)'
  <2> SUFFICES ASSUME NEW i \in Server, node'[i].role_ = "Leader"
               PROVE  /\ [term |-> node'[i].current_term_, log |-> node'[i].log_] \in M
                      /\ \A x \in M : x.term = node'[i].current_term_ => Begins(node'[i].log_, x.log)
    BY DEF LeaderLogs, IsLeader
  <2>1. node[i].role_ = "Leader" /\ node'[i].current_term_ = node[i].current_term_ /\ node'[i].log_ = node[i].log_
    BY DEF Steady
  <2> QED BY <2>1 DEF LeaderLogs, IsLeader
<1> QED BY <1>2, <1>3, <1>4

\* A node that calms down keeps a log that a leader had.
LEMMA CalmSteady ==
    ASSUME TypeInv, TypeInv', NEW M, NodeLogs(M), NEW j \in Server, Calm(node[j], node'[j]), M \in SUBSET Tenure
    PROVE  Steady(node[j], node'[j]) /\ Sourced(M, node'[j])
<1>1. node[j].current_term_ \in Nat /\ node'[j].current_term_ \in Nat
  BY DEF TypeInv, TypeOK, Node
<1>2. PICK x \in M : x.term <= node[j].current_term_ /\ x.log = node[j].log_
  BY DEF NodeLogs, Sourced
<1>3. x.term \in Nat BY <1>2 DEF Tenure
<1>4. Sourced(M, node'[j]) BY <1>1, <1>2, <1>3 DEF Calm, Sourced
<1>5. Steady(node[j], node'[j]) BY <1>1 DEF Calm, Steady
<1> QED BY <1>4, <1>5

\* All nodes calm down, and votes may be given.
LEMMA CalmCore ==
    ASSUME TypeInv, TypeInv', ballots \subseteq ballots', NEW M, CoreInv(M), AllCalm
    PROVE  CoreInv(M)' /\ AllSteady
<1>1. \A j \in Server : Steady(node[j], node'[j]) /\ Sourced(M, node'[j])
  BY CalmSteady DEF CoreInv, Lineage, AllCalm
<1> QED BY <1>1, SteadyCore DEF AllSteady

\* One node changes, the others are calm.
LEMMA OthersCalm ==
    ASSUME TypeInv, NEW p \in Server, Only(p)
    PROVE  \A j \in Server : j # p => Calm(node[j], node'[j])
<1>1. \A j \in Server : node[j] \in Node(j) /\ Calm(node[j], node[j])
  BY RetiresItself DEF TypeInv, TypeOK, Retires
<1> QED BY <1>1 DEF Only

\* A candidate keeps its log.
LEMMA StandsCore ==
    ASSUME TypeInv, TypeInv', NEW M, CoreInv(M), NEW i \in Server, Stands(i)
    PROVE  CoreInv(M)' /\ AllSteady
<1>1. node[i].current_term_ \in Nat /\ node'[i].current_term_ \in Nat
  BY DEF TypeInv, TypeOK, Node
<1>2. Steady(node[i], node'[i])
  BY <1>1 DEF Stands, Steady
<1>3. PICK x \in M : x.term <= node[i].current_term_ /\ x.log = node[i].log_
  BY DEF CoreInv, NodeLogs, Sourced
<1>4. x.term \in Nat BY <1>3 DEF CoreInv, Lineage, Tenure
<1>5. Sourced(M, node'[i])
  BY <1>1, <1>3, <1>4 DEF Stands, Sourced
<1>6. \A j \in Server : Steady(node[j], node'[j]) /\ Sourced(M, node'[j])
  BY <1>2, <1>5, OthersCalm, CalmSteady DEF CoreInv, Lineage, Stands
<1> QED BY <1>6, SteadyCore DEF Stands, AllSteady

\* A node takes over a log that a leader of its new term had.
TakesLog(M, p) ==
    /\ Only(p) /\ node'[p].role_ = "Follower" /\ node[p].current_term_ <= node'[p].current_term_
    /\ \E x \in M : x.term = node'[p].current_term_ /\ x.log = node'[p].log_

\* The other nodes keep their logs.
LEMMA TakesCore ==
    ASSUME TypeInv, TypeInv', UNCHANGED ballots, NEW M, CoreInv(M), NEW p \in Server, TakesLog(M, p)
    PROVE  CoreInv(M)' /\ AllSteady
<1>1. node[p].current_term_ \in Nat /\ node'[p].current_term_ \in Nat
  BY DEF TypeInv, TypeOK, Node
<1>2. Steady(node[p], node'[p]) /\ Sourced(M, node'[p])
  BY <1>1 DEF TakesLog, Steady, Sourced
<1>3. \A j \in Server : Steady(node[j], node'[j]) /\ Sourced(M, node'[j])
  BY <1>2, OthersCalm, CalmSteady DEF CoreInv, Lineage, TakesLog
<1> QED BY <1>3, SteadyCore DEF AllSteady

\* A log begins with itself.
LEMMA BeginsItself ==
    ASSUME NEW g \in Seq(Entry) PROVE Begins(g, g)
<1> Len(g) \in Nat OBVIOUS
<1> QED BY DEF Begins

\* A term has one node that is elected in it.
LEMMA OneElected ==
    ASSUME TypeInv, ElectionInv, NEW t \in Nat, NEW c \in Server, NEW d \in Server,
           Majority(Voters(t, c)), Majority(Voters(t, d))
    PROVE  c = d
<1>1. PICK v \in Server : v \in Voters(t, c) /\ v \in Voters(t, d)
  BY MajoritiesMeet DEF Voters
<1> QED BY <1>1 DEF ElectionInv, VoteOnce, Voters

\* The tenure of the leader i.
Now(i) == [term |-> node[i].current_term_, log |-> node[i].log_]

\* A node that wins an election is the first to lead its term.
LEMMA WinsCore ==
    ASSUME TypeInv, TypeInv', ElectionInv, ElectionInv', NEW M, CoreInv(M), NEW i \in Server, Wins(i),
           NEW N, N = M \cup {Now(i)}
    PROVE  CoreInv(N)' /\ \A x \in M : x.term # node[i].current_term_
<1> USE DEF CoreInv
<1>a. PICK u : u = node[i].current_term_ OBVIOUS
<1>b. PICK g : g = node[i].log_ OBVIOUS
<1>c. PICK new : new = Now(i) OBVIOUS
<1>d. N = M \cup {new} BY <1>c
<1>1. /\ u \in Nat /\ g \in Seq(Entry) /\ u > 0 /\ M \in SUBSET Tenure
      /\ node'[i].current_term_ = u /\ node'[i].log_ = g /\ node'[i].role_ = "Leader"
  BY <1>a, <1>b DEF TypeInv, TypeOK, Node, Elected, Wins, Lineage
<1>2. new \in Tenure /\ new.term = u /\ new.log = g /\ new = Now(i)'
  BY <1>a, <1>b, <1>c, <1>1 DEF Tenure, Now
<1>3. Majority(Voters(u, i))
  <2>1. Majority(Voters(u, i))' BY <1>1 DEF ElectionInv, LeaderElected, IsLeader
  <2> QED BY <2>1 DEF Wins, Voters, Majority
<1>4. \A x \in M : x.term # u
  <2> SUFFICES ASSUME NEW x \in M, x.term = u PROVE FALSE OBVIOUS
  <2>1. PICK w \in Server : /\ Majority(Voters(u, w))
                            /\ \/ node[w].current_term_ > u
                               \/ node[w].current_term_ = u /\ node[w].role_ # "Candidate"
    BY <1>1 DEF Origin, HasLed
  <2>2. w = i BY <1>1, <1>3, <2>1, OneElected
  <2> QED BY <1>a, <1>1, <2>1, <2>2 DEF Wins
<1>5. PICK y \in M : y.term <= u /\ y.log = g
  BY <1>a, <1>b DEF NodeLogs, Sourced
<1>6. y.term \in Nat /\ \A x \in M : x.term \in Nat /\ x.log \in Seq(Entry)
  BY <1>1 DEF Tenure
<1>7. Cuts(N)
  <2> SUFFICES ASSUME NEW x \in N, NEW k \in 1..Len(x.log)
               PROVE  /\ 1 <= x.log[k].term /\ x.log[k].term <= x.term
                      /\ \E z \in N : z.term = x.log[k].term /\ Len(z.log) = k /\ Begins(x.log, z.log)
    BY DEF Cuts
  <2>1. CASE x \in M BY <1>d, <2>1 DEF Lineage, Cuts
  <2>2. CASE x = new
    <3>1. 1 <= y.log[k].term /\ y.log[k].term <= y.term
          /\ \E z \in M : z.term = y.log[k].term /\ Len(z.log) = k /\ Begins(y.log, z.log)
      BY <1>2, <1>5, <2>2 DEF Lineage, Cuts
    <3>2. y.log[k] \in Entry BY <1>2, <1>5, <1>6, <2>2
    <3>3. y.log[k].term \in Nat BY <3>2 DEF Entry
    <3> QED BY <1>d, <1>1, <1>2, <1>5, <1>6, <2>2, <3>1, <3>3
  <2> QED BY <1>d, <2>1, <2>2
<1>8. Chain(N)
  <2>1. Begins(g, g) BY <1>1, BeginsItself
  <2> QED BY <1>d, <1>2, <1>4, <2>1 DEF Lineage, Chain
<1>9. Lineage(N)
  BY <1>d, <1>1, <1>2, <1>7, <1>8 DEF Lineage
<1>10. Origin(N)'
  <2>1. ASSUME NEW x \in M, x.term > 0 PROVE HasLed(x.term)'
    <3>1. HasLed(x.term) BY <2>1 DEF Origin
    <3>2. \A j \in Server : /\ node'[j].current_term_ >= node[j].current_term_
                            /\ node'[j].current_term_ = node[j].current_term_ /\ node'[j].role_ = "Candidate"
                                  => node[j].role_ = "Candidate"
      <4>1. \A j \in Server : node[j].current_term_ \in Nat BY DEF TypeInv, TypeOK, Node
      <4> QED BY <4>1 DEF Wins, Only
    <3> QED BY <1>6, <3>1, <3>2, HasLedKept DEF Wins
  <2>2. HasLed(u)'
    <3>1. Majority(Voters(u, i))' BY <1>3 DEF Wins, Voters, Majority
    <3> QED BY <1>1, <3>1 DEF HasLed
  <2> QED BY <1>d, <1>2, <2>1, <2>2 DEF Origin
<1>11. NodeLogs(N)'
  <2> SUFFICES ASSUME NEW j \in Server PROVE Sourced(N, node'[j]) BY DEF NodeLogs
  <2>1. CASE j = i BY <1>d, <1>1, <1>2, <2>1 DEF Sourced
  <2>2. CASE j # i BY <1>d, <2>2 DEF Wins, Only, NodeLogs, Sourced
  <2> QED BY <2>1, <2>2
<1>12. LeaderLogs(N)'
  <2> SUFFICES ASSUME NEW j \in Server, node'[j].role_ = "Leader"
               PROVE  /\ Now(j)' \in N
                      /\ \A x \in N : x.term = node'[j].current_term_ => Begins(node'[j].log_, x.log)
    BY DEF LeaderLogs, IsLeader, Now
  <2>1. CASE j = i
    BY <1>d, <1>1, <1>2, <1>4, <2>1, BeginsItself
  <2>2. CASE j # i
    <3>1. node'[j] = node[j] BY <2>2 DEF Wins, Only
    <3>2. node'[j].current_term_ # u
      <4>1. Majority(Voters(node[j].current_term_, j)) BY <3>1 DEF ElectionInv, LeaderElected, IsLeader
      <4> QED BY <1>1, <1>3, <2>2, <3>1, <4>1, OneElected
    <3> QED BY <1>d, <1>2, <3>1, <3>2 DEF LeaderLogs, IsLeader, Now
  <2> QED BY <2>1, <2>2
<1> QED BY <1>4, <1>9, <1>10, <1>11, <1>12, <1>a
\* A longer log begins with what the shorter one begins with.
LEMMA BeginsAppend ==
    ASSUME NEW g \in Seq(Entry), NEW h \in Seq(Entry), NEW e \in Entry, Begins(g, h)
    PROVE  Begins(Append(g, e), h)
<1> DEFINE f == Append(g, e)
<1>1. /\ f \in Seq(Entry) /\ Len(f) = Len(g) + 1 /\ Len(g) \in Nat /\ Len(h) \in Nat
      /\ \A k \in 1..Len(g) : f[k] = g[k]
  OBVIOUS
<1> HIDE DEF f
<1>2. Begins(f, h) BY <1>1 DEF Begins
<1> QED BY <1>2 DEF f

\* A leader appends an entry of its term.
LEMMA AppendsCore ==
    ASSUME TypeInv, TypeInv', ElectionInv, UNCHANGED ballots, NEW M, CoreInv(M), NEW i \in Server,
           NEW e \in Entry, Appends(i, e), NEW N, N = M \cup {Now(i)'}
    PROVE  CoreInv(N)'
<1> USE DEF CoreInv
<1>a. PICK u : u = node[i].current_term_ OBVIOUS
<1>b. PICK g : g = node[i].log_ OBVIOUS
<1>c. PICK h : h = Append(g, e) OBVIOUS
<1>d. PICK old : old = Now(i) OBVIOUS
<1>e. PICK new : new = [term |-> u, log |-> h] OBVIOUS
<1>1. /\ u \in Nat /\ g \in Seq(Entry) /\ u > 0 /\ M \in SUBSET Tenure /\ e.term = u
      /\ node'[i].current_term_ = u /\ node'[i].log_ = h /\ node'[i].role_ = "Leader"
  BY <1>a, <1>b, <1>c DEF TypeInv, TypeOK, Node, Elected, Appends, IsLeader, Lineage
<1>2. /\ h \in Seq(Entry) /\ Len(h) = Len(g) + 1 /\ Len(g) \in Nat /\ h[Len(g) + 1] = e
      /\ \A k \in 1..Len(g) : h[k] = g[k]
  BY <1>c, <1>1
<1>3. /\ new \in Tenure /\ new.term = u /\ new.log = h /\ N = M \cup {new}
      /\ old \in M /\ old.term = u /\ old.log = g
  <2>1. new \in Tenure /\ new.term = u /\ new.log = h BY <1>e, <1>1, <1>2 DEF Tenure
  <2>2. old \in M BY <1>d DEF LeaderLogs, Appends, Now
  <2>3. old.term = u /\ old.log = g BY <1>a, <1>b, <1>d DEF Now
  <2>4. Now(i)' = new BY <1>1, <1>e DEF Now
  <2> QED BY <2>1, <2>2, <2>3, <2>4
<1>4. \A x \in M : x.term \in Nat /\ x.log \in Seq(Entry)
  BY <1>1 DEF Tenure
<1>5. \A x \in N : x.term = u => Begins(h, x.log)
  <2>1. ASSUME NEW x \in M, x.term = u PROVE Begins(h, x.log)
    <3>1. Begins(g, x.log) BY <1>a, <1>b, <2>1 DEF LeaderLogs, Appends
    <3> QED BY <1>c, <1>1, <1>4, <3>1, BeginsAppend
  <2>2. Begins(h, h) BY <1>2, BeginsItself
  <2> QED BY <1>3, <2>1, <2>2
<1>6. Cuts(N)
  <2> SUFFICES ASSUME NEW x \in N, NEW k \in 1..Len(x.log)
               PROVE  /\ 1 <= x.log[k].term /\ x.log[k].term <= x.term
                      /\ \E z \in N : z.term = x.log[k].term /\ Len(z.log) = k /\ Begins(x.log, z.log)
    BY DEF Cuts
  <2>1. CASE x \in M BY <1>3, <2>1 DEF Lineage, Cuts
  <2>2. CASE x = new /\ k <= Len(g)
    <3>0. k \in 1..Len(g) BY <1>2, <1>3, <2>2
    <3>1. 1 <= g[k].term /\ g[k].term <= u
          /\ \E z \in M : z.term = g[k].term /\ Len(z.log) = k /\ Begins(g, z.log)
      BY <1>3, <3>0 DEF Lineage, Cuts
    <3>2. PICK z \in M : z.term = g[k].term /\ Len(z.log) = k /\ Begins(g, z.log) BY <3>1
    <3>3. Begins(h, z.log) BY <1>c, <1>1, <1>4, <3>2, BeginsAppend
    <3>4. h[k] = g[k] BY <1>2, <3>0
    <3> QED BY <1>3, <2>2, <3>1, <3>2, <3>3, <3>4
  <2>3. CASE x = new /\ ~(k <= Len(g))
    <3>1. k = Len(g) + 1 /\ h[k] = e BY <1>2, <1>3, <2>3
    <3>2. Begins(h, h) BY <1>2, BeginsItself
    <3> QED BY <1>1, <1>2, <1>3, <2>3, <3>1, <3>2
  <2> QED BY <1>3, <2>1, <2>2, <2>3
<1>7. Chain(N)
  BY <1>3, <1>5 DEF Lineage, Chain
<1>8. Lineage(N)
  BY <1>1, <1>3, <1>6, <1>7 DEF Lineage
<1>9. Origin(N)'
  <2>1. ASSUME NEW x \in M, x.term > 0 PROVE HasLed(x.term)'
    <3>1. HasLed(x.term) BY <2>1 DEF Origin
    <3>2. \A j \in Server : /\ node'[j].current_term_ >= node[j].current_term_
                            /\ node'[j].current_term_ = node[j].current_term_ /\ node'[j].role_ = "Candidate"
                                  => node[j].role_ = "Candidate"
      <4>1. \A j \in Server : node[j].current_term_ \in Nat BY DEF TypeInv, TypeOK, Node
      <4> QED BY <4>1 DEF Appends, Only
    <3> QED BY <1>4, <3>1, <3>2, HasLedKept
  <2> QED BY <1>1, <1>3, <2>1 DEF Origin
<1>10. NodeLogs(N)'
  <2> SUFFICES ASSUME NEW j \in Server PROVE Sourced(N, node'[j]) BY DEF NodeLogs
  <2>1. CASE j = i BY <1>1, <1>3, <2>1 DEF Sourced
  <2>2. CASE j # i BY <1>3, <2>2 DEF Appends, Only, NodeLogs, Sourced
  <2> QED BY <2>1, <2>2
<1>11. LeaderLogs(N)'
  <2> SUFFICES ASSUME NEW j \in Server, node'[j].role_ = "Leader"
               PROVE  /\ Now(j)' \in N
                      /\ \A x \in N : x.term = node'[j].current_term_ => Begins(node'[j].log_, x.log)
    BY DEF LeaderLogs, IsLeader, Now
  <2>1. CASE j = i
    BY <1>1, <1>5, <2>1
  <2>2. CASE j # i
    <3>1. node'[j] = node[j] BY <2>2 DEF Appends, Only
    <3>2. node'[j].current_term_ # u
      BY <1>a, <2>2, <3>1, ElectionInvSafe DEF ElectionSafety, Appends, IsLeader
    <3> QED BY <1>3, <3>1, <3>2 DEF LeaderLogs, IsLeader, Now
  <2> QED BY <2>1, <2>2
<1> QED BY <1>8, <1>9, <1>10, <1>11
-----------------------------------------------------------------------------
(* Requests in flight, and log matching.                                    *)

\* The set of tenures after a step: those of its leaders are added.
Extends(M, N) == N = M \cup {Now(j)' : j \in {k \in Server : node'[k].role_ = "Leader"}}

\* A request that carries entries sends the end of a log that a leader of its
\* term had.
Carries(r, g) ==
    /\ Len(g) = r.prev_log_index + Len(r.entries)
    /\ \A m \in 1..Len(r.entries) : r.entries[m] = g[r.prev_log_index + m]
    /\ r.prev_log_term = TermOf(g, r.prev_log_index)

Carried(M, r) == r.entries # <<>> => \E x \in M : x.term = r.term /\ Carries(r, x.log)

HeartbeatLogs(M) == \A i \in Server : hth[i].pc = "hb_send" => Carried(M, hth[i].req)

ProposalLogs(M) == \A i \in Server :
    cth[i].pc \in {"send", "ack", "notify", "notify_ack"} => Carried(M, cth[i].req)

\* A proposal that has appended its entry and reads its position still leads,
\* and its entry is the last one.
GapInv == \A i \in Server : cth[i].pc = "gap" =>
    /\ IsLeader(i) /\ Len(node[i].log_) > 0
    /\ node[i].log_[Len(node[i].log_)] = cth[i].entry

MatchInv(M) == CoreInv(M) /\ HeartbeatLogs(M) /\ ProposalLogs(M) /\ GapInv

\* Nobody comes to lead and no leader's log changes: no new tenure.
LEMMA SteadyExtends ==
    ASSUME NEW M, LeaderLogs(M), AllSteady, NEW N, Extends(M, N) PROVE N = M
<1>1. ASSUME NEW j \in Server, node'[j].role_ = "Leader" PROVE Now(j)' \in M
  BY <1>1 DEF AllSteady, Steady, LeaderLogs, IsLeader, Now
<1> QED BY <1>1 DEF Extends

\* Only node i comes to lead or appends.
LEMMA OneExtends ==
    ASSUME NEW M, LeaderLogs(M), NEW i \in Server, Only(i), node'[i].role_ = "Leader", NEW N, Extends(M, N)
    PROVE  N = M \cup {Now(i)'}
<1>1. ASSUME NEW j \in Server, node'[j].role_ = "Leader", j # i PROVE Now(j)' \in M
  BY <1>1 DEF Only, LeaderLogs, IsLeader, Now
<1> QED BY <1>1 DEF Extends

\* Sequences of the same length with the same elements are equal.
LEMMA SameSequence ==
    ASSUME NEW g \in Seq(Entry), NEW h \in Seq(Entry), Len(g) = Len(h), \A k \in 1..Len(g) : g[k] = h[k]
    PROVE  g = h
  OBVIOUS

\* The elements of two logs joined.
LEMMA JoinedLog ==
    ASSUME NEW c \in Seq(Entry), NEW d \in Seq(Entry)
    PROVE  /\ c \o d \in Seq(Entry) /\ Len(c \o d) = Len(c) + Len(d)
           /\ \A k \in 1..Len(c) : (c \o d)[k] = c[k]
           /\ \A k \in (Len(c) + 1)..(Len(c) + Len(d)) : (c \o d)[k] = d[k - Len(c)]
<1>1. c \o d \in Seq(Entry) /\ Len(c \o d) = Len(c) + Len(d) /\ Len(c) \in Nat /\ Len(d) \in Nat
  OBVIOUS
<1>2. ASSUME NEW k \in 1..Len(c) PROVE (c \o d)[k] = c[k]
  BY <1>1
<1>3. ASSUME NEW k \in (Len(c) + 1)..(Len(c) + Len(d)) PROVE (c \o d)[k] = d[k - Len(c)]
  BY <1>1
<1> QED BY <1>1, <1>2, <1>3

\* A node that accepts entries then has the log of their sender, whole.
LEMMA TakenWhole ==
    ASSUME TypeInv, NEW M, CoreInv(M), NEW p \in Server, NEW req \in AppendReq, req.entries # <<>>,
           NEW x \in M, Carries(req, x.log), PrevMatches(node[p], req)
    PROVE  LogAfter(node[p], req) = x.log
<1>1. PICK y \in M : y.log = node[p].log_ BY DEF CoreInv, NodeLogs, Sourced
<1>2. x.log \in Seq(Entry) /\ y.log \in Seq(Entry) BY <1>1 DEF CoreInv, Lineage, Tenure
<1>3. PICK b : b = req.prev_log_index OBVIOUS
<1>4. PICK es : es = req.entries OBVIOUS
<1>5. b \in Nat /\ es \in Seq(Entry) /\ es # <<>> BY <1>3, <1>4 DEF AppendReq
<1>6. Len(es) > 0 /\ Len(es) \in Nat /\ Len(x.log) \in Nat /\ Len(y.log) \in Nat BY <1>2, <1>5
<1>7. /\ Len(x.log) = b + Len(es) /\ \A m \in 1..Len(es) : es[m] = x.log[b + m]
      /\ req.prev_log_term = TermOf(x.log, b)
  BY <1>3, <1>4 DEF Carries
<1>8. b <= Len(y.log) /\ (b > 0 => y.log[b].term = TermOf(x.log, b))
  <2>1. b <= Len(y.log) /\ TermAt(node[p], b) = TermOf(x.log, b)
    BY <1>1, <1>3, <1>7 DEF PrevMatches, LastLogIndex
  <2>2. b > 0 => b \in DOMAIN y.log BY <1>2, <1>5, <1>6, <2>1
  <2> QED BY <1>1, <2>1, <2>2 DEF TermAt
<1>9. \A k \in 1..b : x.log[k] = y.log[k]
  <2>1. CASE b = 0 BY <2>1
  <2>2. CASE b > 0
    <3>1. b \in 1..Len(x.log) /\ b \in 1..Len(y.log) BY <1>5, <1>6, <1>7, <1>8, <2>2
    <3>2. x.log[b].term = y.log[b].term BY <1>8, <2>2, <3>1 DEF TermOf
    <3>3. \A k \in 1..b : k \in 1..Len(y.log) /\ x.log[k] = y.log[k]
      BY <1>5, <3>1, <3>2, LineageMatch DEF CoreInv
    <3> QED BY <3>3
  <2> QED BY <1>5, <2>1, <2>2
<1>10. PICK c : c = SubSeq(y.log, 1, b) OBVIOUS
<1>11. c \in Seq(Entry) /\ Len(c) = b /\ \A k \in 1..b : c[k] = y.log[k]
  BY <1>2, <1>5, <1>6, <1>8, <1>10
<1>12. PICK f : f = c \o es OBVIOUS
<1>13. /\ f \in Seq(Entry) /\ Len(f) = b + Len(es) /\ \A k \in 1..b : f[k] = c[k]
       /\ \A k \in (b + 1)..(b + Len(es)) : f[k] = es[k - b]
  BY <1>5, <1>11, <1>12, JoinedLog
<1>14. \A k \in 1..Len(f) : f[k] = x.log[k]
  <2> SUFFICES ASSUME NEW k \in 1..Len(f) PROVE f[k] = x.log[k] OBVIOUS
  <2>1. CASE k <= b
    <3>1. k \in 1..b BY <1>5, <1>6, <1>13, <2>1
    <3> QED BY <1>9, <1>11, <1>13, <3>1
  <2>2. CASE k > b
    <3>1. k \in (b + 1)..(b + Len(es)) /\ k - b \in 1..Len(es) /\ b + (k - b) = k BY <1>5, <1>6, <1>13, <2>2
    <3> QED BY <1>7, <1>13, <3>1
  <2> QED BY <1>5, <1>6, <1>13, <2>1, <2>2
<1>15. f = x.log BY <1>2, <1>7, <1>13, <1>14, SameSequence
<1> QED BY <1>1, <1>3, <1>4, <1>5, <1>10, <1>12, <1>15 DEF LogAfter
\* More tenures do not hurt a request.
LEMMA CarriedMore ==
    ASSUME NEW M, NEW N, M \in SUBSET N
    PROVE  /\ \A r : Carried(M, r) => Carried(N, r)
           /\ HeartbeatLogs(M) /\ UNCHANGED hth => HeartbeatLogs(N)'
           /\ ProposalLogs(M) /\ UNCHANGED cth => ProposalLogs(N)'
<1>1. \A r : Carried(M, r) => Carried(N, r) BY DEF Carried
<1>2. ASSUME HeartbeatLogs(M), UNCHANGED hth PROVE HeartbeatLogs(N)'
  BY <1>1, <1>2 DEF HeartbeatLogs
<1>3. ASSUME ProposalLogs(M), UNCHANGED cth PROVE ProposalLogs(N)'
  BY <1>1, <1>3 DEF ProposalLogs
<1> QED BY <1>1, <1>2, <1>3

\* A call of AppendEntries takes over a log of the sender's term or leaves the
\* log alone.
LEMMA DeliveredCore ==
    ASSUME TypeInv, TypeInv', UNCHANGED ballots, NEW M, CoreInv(M), NEW p \in Server,
           NEW req \in AppendReq, NEW resp, Carried(M, req), Delivered(p, req, resp)
    PROVE  CoreInv(M)' /\ AllSteady
<1>1. Only(p) BY DEF Delivered
<1>2. /\ node[p].current_term_ \in Nat /\ req.term \in Nat
      /\ node[p].role_ \in {"Follower", "Candidate", "Leader"}
  BY DEF TypeInv, TypeOK, Node, AppendReq
<1>3. CASE Calm(node[p], node'[p])
  <2>1. AllCalm BY <1>1, <1>3, OthersCalm DEF AllCalm
  <2> QED BY <2>1, CalmCore
<1>4. CASE Accepts(node[p], req, node'[p]) /\ req.entries = <<>>
  <2>1. Calm(node[p], node'[p])
    BY <1>2, <1>4 DEF Accepts, LogAfter, Calm
  <2> QED BY <1>3, <2>1
<1>5. CASE Accepts(node[p], req, node'[p]) /\ req.entries # <<>>
  <2>1. PICK x \in M : x.term = req.term /\ Carries(req, x.log) BY <1>5 DEF Carried
  <2>2. LogAfter(node[p], req) = x.log BY <1>5, <2>1, TakenWhole DEF Accepts
  <2>3. TakesLog(M, p) BY <1>1, <1>5, <2>1, <2>2 DEF Accepts, TakesLog
  <2> QED BY <2>3, TakesCore
<1> QED BY <1>3, <1>4, <1>5 DEF Delivered, Retires

\* The request that a leader builds for a peer sends the end of its log.
LEMMA BuiltCarried ==
    ASSUME TypeInv, NEW M, LeaderLogs(M), NEW i \in Server, IsLeader(i), NEW p \in Peers(i)
    PROVE  Carried(M, BuildAppendEntries(node[i], i, p))
<1>a. PICK g : g = node[i].log_ OBVIOUS
<1>b. PICK nx : nx = node[i].next_index_[p] OBVIOUS
<1>1. g \in Seq(Entry) /\ nx \in Nat \ {0} BY <1>a, <1>b DEF TypeInv, TypeOK, Node
<1>c. PICK es : es = SubSeq(g, nx, Len(g)) OBVIOUS
<1>d. PICK r : r = BuildAppendEntries(node[i], i, p) OBVIOUS
<1>2. /\ r.term = node[i].current_term_ /\ r.prev_log_index = nx - 1 /\ r.entries = es
      /\ r.prev_log_term = TermAt(node[i], nx - 1)
  BY <1>a, <1>b, <1>c, <1>d DEF BuildAppendEntries, AppendEntriesReq
<1>3. TermAt(node[i], nx - 1) = TermOf(g, nx - 1)
  <2>1. DOMAIN g = 1..Len(g) BY <1>1
  <2> QED BY <1>a, <2>1 DEF TermAt, TermOf
<1>4. ASSUME es # <<>> PROVE Carries(r, g)
  <2>0. Len(g) \in Nat BY <1>1
  <2>1. nx <= Len(g) BY <1>1, <1>c, <1>4
  <2>2. Len(es) = Len(g) - nx + 1 /\ \A m \in 1..Len(es) : es[m] = g[nx - 1 + m]
    BY <1>1, <1>c, <2>0, <2>1
  <2>3. Len(g) = (nx - 1) + Len(es) BY <1>1, <2>0, <2>1, <2>2
  <2> QED BY <1>2, <1>3, <2>2, <2>3 DEF Carries
<1>5. [term |-> node[i].current_term_, log |-> g] \in M BY <1>a DEF LeaderLogs
<1>6. Carried(M, r)
  <2> SUFFICES ASSUME es # <<>> PROVE \E x \in M : x.term = r.term /\ Carries(r, x.log)
    BY <1>2 DEF Carried
  <2> DEFINE x == [term |-> node[i].current_term_, log |-> g]
  <2>1. x \in M /\ x.term = r.term /\ x.log = g BY <1>2, <1>5
  <2> HIDE DEF x
  <2> QED BY <1>4, <2>1
<1> QED BY <1>d, <1>6

\* While a proposal reads its position only its own thread takes steps.
LEMMA GapAlone ==
    ASSUME "gap" \notin Preemptible, NEW i \in Server, cth[i].pc = "gap", NEW t, NEW j, Turn(t, j)
    PROVE  t = "c" /\ j = i
<1>1. Holds(cth[i]) BY DEF Holds, Windows
<1>2. <<"c", i>> \in Urgent BY <1>1 DEF Urgent
<1> QED BY <1>2 DEF Turn

\* The election thread.
LEMMA ElectionMatch ==
    ASSUME "gap" \notin Preemptible, TypeInv, TypeInv', ElectionInv, ElectionInv', NEW M, MatchInv(M),
           NEW N, Extends(M, N), NEW i \in Server, ElectionThread(i)
    PROVE  MatchInv(N)' /\ M \in SUBSET N
<1>1. AllUp BY DEF ElectionInv
<1>2. ElectionEffect(i) /\ Turn("e", i) /\ UNCHANGED <<hth, cth>> BY <1>1, ElectionMoves
<1>3. GapInv'
  <2>1. \A j \in Server : cth[j].pc # "gap" BY <1>2, GapAlone
  <2> QED BY <1>2, <2>1 DEF GapInv
<1>4. CoreInv(N)'
  <2>1. CASE Stands(i)
    BY <2>1, StandsCore, SteadyExtends DEF MatchInv, CoreInv
  <2>2. CASE Votes(i)
    <3>1. AllCalm
      <4>1. PICK p \in Server : Only(p) /\ Calm(node[p], node'[p]) BY <2>2 DEF Votes, Retires
      <4> QED BY <4>1, OthersCalm DEF AllCalm
    <3>2. ballots \subseteq ballots' BY <2>2 DEF Votes
    <3> QED BY <3>1, <3>2, CalmCore, SteadyExtends DEF MatchInv, CoreInv
  <2>3. CASE Wins(i)
    <3>1. N = M \cup {Now(i)'} BY <2>3, OneExtends DEF Wins, MatchInv, CoreInv
    <3>2. Now(i)' = Now(i) BY <2>3 DEF Wins, Now
    <3> QED BY <2>3, <3>1, <3>2, WinsCore DEF MatchInv
  <2>4. CASE AllRetire /\ UNCHANGED ballots
    <3>1. AllCalm BY <2>4 DEF AllRetire, AllCalm, Retires
    <3> QED BY <2>4, <3>1, CalmCore, SteadyExtends DEF MatchInv, CoreInv
  <2> QED BY <1>2, <2>1, <2>2, <2>3, <2>4 DEF ElectionEffect
<1>5. M \in SUBSET N BY DEF Extends
<1> QED BY <1>2, <1>3, <1>4, <1>5, CarriedMore DEF MatchInv
\* An answer to a heartbeat changes indexes alone.
LEMMA AfterReplyCalm ==
    ASSUME NEW i \in Server, NEW n \in Node(i), NEW p, NEW req, NEW resp
    PROVE  LET m == AfterReply(n, i, p, req, resp)
           IN  /\ Calm(n, m) /\ m.role_ = n.role_ /\ m.current_term_ = n.current_term_
               /\ m.last_applied_ = n.last_applied_
  BY DEF AfterReply, AdvanceCommitIndex, Node, Calm

\* The heartbeat thread.
LEMMA HeartbeatMatch ==
    ASSUME "gap" \notin Preemptible, TypeInv, TypeInv', ElectionInv, NEW M, MatchInv(M),
           NEW N, Extends(M, N), NEW i \in Server, HeartbeatThread(i)
    PROVE  MatchInv(N)' /\ N = M
<1>1. AllUp BY DEF ElectionInv
<1>2. /\ Beats(i) \/ Sends(i) \/ Handles(i)
      /\ Turn("h", i) /\ UNCHANGED <<eth, cth, ballots>> /\ \A j \in Server : j # i => hth'[j] = hth[j]
  BY <1>1, HeartbeatMoves
<1>3. GapInv'
  <2>1. \A j \in Server : cth[j].pc # "gap" BY <1>2, GapAlone
  <2> QED BY <1>2, <2>1 DEF GapInv
<1>4. ASSUME AllCalm PROVE CoreInv(M)' /\ AllSteady
  BY <1>2, <1>4, CalmCore DEF MatchInv
<1>5. CoreInv(M)' /\ AllSteady /\ (hth'[i].pc = "hb_send" => Carried(M, hth'[i].req))
  <2>1. CASE Beats(i)
    <3>1. AllCalm BY <2>1, NoneRetires DEF Beats, AllRetire, AllCalm, Retires
    <3>2. ASSUME hth'[i].pc = "hb_send" PROVE Carried(M, hth'[i].req)
      <4>1. IsLeader(i) /\ hth'[i].todo \in ToCall(i)
            /\ hth'[i].req = BuildAppendEntries(node[i], i, Min(hth'[i].todo))
        BY <2>1, <3>2 DEF Beats
      <4>2. Min(hth'[i].todo) \in Peers(i) BY <4>1, NextPeer DEF Peers
      <4> QED BY <4>1, <4>2, BuiltCarried DEF MatchInv, CoreInv
    <3> QED BY <1>4, <3>1, <3>2
  <2>2. CASE Sends(i)
    <3>1. /\ hth[i].req \in AppendReq /\ hth'[i].pc # "hb_send" /\ hth[i].todo \in ToCall(i)
          /\ Delivered(Min(hth[i].todo), hth[i].req, hth'[i].resp) /\ Carried(M, hth[i].req)
      BY <2>2 DEF Sends, MatchInv, HeartbeatLogs
    <3>2. Min(hth[i].todo) \in Server BY <3>1, NextPeer
    <3> QED BY <1>2, <3>1, <3>2, DeliveredCore DEF MatchInv
  <2>3. CASE Handles(i)
    <3>1. Calm(node[i], node'[i]) /\ hth'[i].pc # "hb_send" /\ Only(i)
      <4>1. node[i] \in Node(i) BY DEF TypeInv, TypeOK
      <4> QED BY <2>3, <4>1, AfterReplyCalm DEF Handles, Retires
    <3>2. AllCalm BY <3>1, OthersCalm DEF AllCalm
    <3> QED BY <1>4, <3>1, <3>2
  <2> QED BY <1>2, <2>1, <2>2, <2>3
<1>6. N = M BY <1>5, SteadyExtends DEF MatchInv, CoreInv
<1>7. HeartbeatLogs(M)' BY <1>2, <1>5 DEF HeartbeatLogs, MatchInv
<1>8. ProposalLogs(M)' BY <1>2, CarriedMore DEF MatchInv
<1> QED BY <1>3, <1>5, <1>6, <1>7, <1>8 DEF MatchInv

\* The request of a proposal sends the end of the leader's log.
LEMMA ReadCarried ==
    ASSUME TypeInv, NEW M, LeaderLogs(M), NEW i \in Server, IsLeader(i), NEW e \in Entry,
           Len(node[i].log_) > 0, node[i].log_[Len(node[i].log_)] = e, NEW r,
           r = AppendEntriesReq(node[i].current_term_, i, LastLogIndex(node[i]) - 1,
                                TermAt(node[i], LastLogIndex(node[i]) - 1), <<e>>, 0)
    PROVE  r.term = node[i].current_term_ /\ Now(i) \in M /\ Carries(r, node[i].log_)
<1>a. PICK g : g = node[i].log_ OBVIOUS
<1>1. g \in Seq(Entry) BY <1>a DEF TypeInv, TypeOK, Node
<1>b. PICK l \in Nat : l = Len(g) BY <1>1
<1>2. /\ r.term = node[i].current_term_ /\ r.prev_log_index = l - 1 /\ r.entries = <<e>>
      /\ r.prev_log_term = TermAt(node[i], l - 1)
  BY <1>a, <1>b DEF AppendEntriesReq, LastLogIndex
<1>3. TermAt(node[i], l - 1) = TermOf(g, l - 1)
  <2>1. DOMAIN g = 1..Len(g) BY <1>1
  <2> QED BY <1>a, <2>1 DEF TermAt, TermOf
<1>4. Len(<<e>>) = 1 /\ <<e>>[1] = e OBVIOUS
<1>5. Carries(r, g)
  <2>1. Len(g) = (l - 1) + Len(<<e>>) BY <1>b, <1>4
  <2>2. \A m \in 1..Len(<<e>>) : <<e>>[m] = g[(l - 1) + m]
    <3> SUFFICES ASSUME NEW m \in 1..1 PROVE <<e>>[m] = g[(l - 1) + m] BY <1>4
    <3>1. m = 1 /\ (l - 1) + m = l BY <1>b
    <3> QED BY <1>a, <1>b, <1>4, <3>1
  <2> QED BY <1>2, <1>3, <2>1, <2>2 DEF Carries
<1>6. Now(i) \in M BY DEF LeaderLogs, Now
<1> QED BY <1>a, <1>2, <1>5, <1>6

\* The client thread.
LEMMA ClientMatch ==
    ASSUME "gap" \notin Preemptible, TypeInv, TypeInv', ElectionInv, NEW M, MatchInv(M),
           NEW N, Extends(M, N), NEW i \in Server, ClientThread(i)
    PROVE  MatchInv(N)' /\ M \in SUBSET N
<1>0. M \in SUBSET N BY DEF Extends
<1> SUFFICES MatchInv(N)' BY <1>0
<1>1. AllUp BY DEF ElectionInv
<1>2. /\ ClientEffect(i) /\ Turn("c", i) /\ UNCHANGED <<eth, hth, ballots>>
      /\ \A j \in Server : j # i => cth'[j] = cth[j]
  BY <1>1, ClientMoves
<1>3. \A j \in Server : j # i => cth[j].pc # "gap" BY <1>2, GapAlone
<1>4. HeartbeatLogs(N)' BY <1>0, <1>2, CarriedMore DEF MatchInv
<1>5. ASSUME CoreInv(N)',
             cth'[i].pc \in {"send", "ack", "notify", "notify_ack"} => Carried(N, cth'[i].req),
             cth'[i].pc = "gap" => /\ node'[i].role_ = "Leader" /\ Len(node'[i].log_) > 0
                                   /\ node'[i].log_[Len(node'[i].log_)] = cth'[i].entry
      PROVE  MatchInv(N)'
  <2>1. ProposalLogs(N)'
    <3> SUFFICES ASSUME NEW j \in Server, cth'[j].pc \in {"send", "ack", "notify", "notify_ack"}
                 PROVE  Carried(N, cth'[j].req)
      BY DEF ProposalLogs
    <3>1. CASE j = i BY <1>5, <3>1
    <3>2. CASE j # i
      <4>1. Carried(M, cth[j].req) BY <1>2, <3>2 DEF MatchInv, ProposalLogs
      <4> QED BY <1>0, <1>2, <3>2, <4>1, CarriedMore
    <3> QED BY <3>1, <3>2
  <2>2. GapInv' BY <1>2, <1>3, <1>5 DEF GapInv, IsLeader
  <2> QED BY <1>4, <1>5, <2>1, <2>2 DEF MatchInv
<1>6. ASSUME AllCalm PROVE CoreInv(N)'
  BY <1>2, <1>6, CalmCore, SteadyExtends DEF MatchInv, CoreInv
<1>7. UNCHANGED node => AllCalm BY NoneRetires DEF AllRetire, AllCalm, Retires
<1>8. ASSUME NEW e \in Entry, Appends(i, e) PROVE MatchInv(N)'
  <2>1. N = M \cup {Now(i)'} BY <1>8, OneExtends DEF Appends, MatchInv, CoreInv
  <2>2. CoreInv(N)' BY <1>2, <1>8, <2>1, AppendsCore DEF MatchInv
  <2>3. PICK g : g = node[i].log_ OBVIOUS
  <2>4. g \in Seq(Entry) BY <2>3 DEF TypeInv, TypeOK, Node
  <2>5. PICK h : h = Append(g, e) OBVIOUS
  <2>6. Len(h) > 0 /\ h[Len(h)] = e BY <2>4, <2>5
  <2>7. node'[i].log_ = h /\ node'[i].role_ = "Leader" /\ cth'[i].pc = "gap" /\ cth'[i].entry = e
    BY <1>8, <2>3, <2>5 DEF Appends
  <2> QED BY <1>5, <2>2, <2>6, <2>7
<1>9. CASE Reads(i)
  <2>1. /\ cth[i].pc = "gap" /\ UNCHANGED node /\ cth'[i].pc \in {"commit", "send"}
        /\ cth'[i].req = AppendEntriesReq(node[i].current_term_, i, LastLogIndex(node[i]) - 1,
                              TermAt(node[i], LastLogIndex(node[i]) - 1), <<cth[i].entry>>, 0)
    BY <1>9 DEF Reads
  <2>2. /\ IsLeader(i) /\ Len(node[i].log_) > 0
        /\ node[i].log_[Len(node[i].log_)] = cth[i].entry
    BY <2>1 DEF MatchInv, GapInv
  <2>3. cth[i].entry \in Entry
    BY <2>1 DEF TypeInv, TypeOK, ClientThreadState, NoCall
  <2>4. PICK e \in Entry : e = cth[i].entry BY <2>3
  <2>5. PICK r : r = cth'[i].req OBVIOUS
  <2>6. r.term = node[i].current_term_ /\ Now(i) \in M /\ Carries(r, node[i].log_)
    BY <2>1, <2>2, <2>4, <2>5, ReadCarried DEF MatchInv, CoreInv
  <2>7. Now(i) \in N /\ Now(i).term = r.term /\ Now(i).log = node[i].log_
    BY <1>0, <2>6 DEF Now
  <2>8. Carried(N, r) BY <2>6, <2>7 DEF Carried
  <2> QED BY <1>5, <1>6, <1>7, <2>1, <2>5, <2>8
<1>10. ASSUME NEW from \in {"send", "notify"}, NEW to \in {"ack", "notify_ack"}, Calls(i, from, to)
       PROVE  MatchInv(N)'
  <2>1. /\ cth[i].todo \in ToCall(i) /\ cth[i].req \in AppendReq /\ cth'[i].pc = to
        /\ Delivered(Min(cth[i].todo), cth[i].req, cth'[i].resp) /\ cth'[i].req = cth[i].req
    BY <1>10 DEF Calls
  <2>2. Carried(M, cth[i].req) BY <1>10 DEF Calls, MatchInv, ProposalLogs
  <2>3. Min(cth[i].todo) \in Server BY <2>1, NextPeer
  <2>4. CoreInv(M)' /\ AllSteady BY <1>2, <2>1, <2>2, <2>3, DeliveredCore DEF MatchInv
  <2>5. N = M BY <2>4, SteadyExtends DEF MatchInv, CoreInv
  <2> QED BY <1>5, <2>1, <2>2, <2>4, <2>5
<1>11. CASE Counts(i)
  <2>1. AllCalm BY <1>11 DEF Counts, AllRetire, AllCalm, Retires
  <2>2. cth'[i].pc \in {"none", "commit"} \/ (cth'[i].pc = "send" /\ cth'[i].req = cth[i].req)
    BY <1>11 DEF Counts
  <2>3. Carried(M, cth[i].req) BY <1>11 DEF Counts, MatchInv, ProposalLogs
  <2>4. Carried(N, cth[i].req) BY <1>0, <2>3, CarriedMore
  <2> QED BY <1>5, <1>6, <2>1, <2>2, <2>4
<1>12. CASE Closes(i)
  <2>1. UNCHANGED node /\ cth'[i].pc = "notify" /\ cth'[i].req.entries = <<>>
    BY <1>12 DEF Closes, AppendEntriesReq
  <2>2. Carried(N, cth'[i].req) BY <2>1 DEF Carried
  <2> QED BY <1>5, <1>6, <1>7, <2>1, <2>2
<1>13. CASE GoesOn(i)
  <2>1. AllCalm BY <1>13 DEF GoesOn, AllRetire, AllCalm, Retires
  <2>2. cth'[i].pc = "notify" /\ cth'[i].req = cth[i].req BY <1>13 DEF GoesOn
  <2>3. Carried(M, cth[i].req) BY <1>13 DEF GoesOn, MatchInv, ProposalLogs
  <2>4. Carried(N, cth[i].req) BY <1>0, <2>3, CarriedMore
  <2> QED BY <1>5, <1>6, <2>1, <2>2, <2>4
<1>14. CASE Returns(i)
  <2>1. UNCHANGED node /\ cth'[i].pc = "none" BY <1>14 DEF Returns
  <2> QED BY <1>5, <1>6, <1>7, <2>1
<1> QED BY <1>2, <1>8, <1>9, <1>10, <1>11, <1>12, <1>13, <1>14 DEF ClientEffect
\* ApplyLoop gives the next entry to the state machine.
Applies(i) ==
    LET n == node[i]  idx == n.last_applied_ + 1
    IN  /\ Only(i) /\ Calm(n, node'[i]) /\ node'[i].role_ = n.role_ /\ node'[i].current_term_ = n.current_term_
        /\ node'[i].commit_index_ = n.commit_index_ /\ node'[i].match_index_ = n.match_index_
        /\ n.last_applied_ < n.commit_index_ /\ node'[i].last_applied_ = idx
        /\ applied' = [applied EXCEPT ![i] =
                         Append(@, IF idx \in DOMAIN n.log_ THEN n.log_[idx] ELSE Garbage)]

\* The step of ApplyLoop.
LEMMA ApplyMoves ==
    ASSUME TypeInv, NEW i \in Server, Apply(i)
    PROVE  Applies(i) /\ Urgent = {} /\ UNCHANGED <<eth, hth, cth, ballots, acked, registered>>
<1> DEFINE n == node[i]  idx == n.last_applied_ + 1  m == [n EXCEPT !.last_applied_ = idx]
<1>1. n \in Node(i) /\ DOMAIN node = Server BY DEF TypeInv, TypeOK
<1>2. /\ node' = [node EXCEPT ![i] = m] /\ n.last_applied_ < n.commit_index_
      /\ applied' = [applied EXCEPT ![i] =
                         Append(@, IF idx \in DOMAIN n.log_ THEN n.log_[idx] ELSE Garbage)]
      /\ Urgent = {} /\ UNCHANGED <<eth, hth, cth, ballots, acked, registered>>
  BY DEF Apply, threads, service
<1>3. /\ Calm(n, m) /\ m.role_ = n.role_ /\ m.current_term_ = n.current_term_ /\ m.last_applied_ = idx
      /\ m.commit_index_ = n.commit_index_ /\ m.match_index_ = n.match_index_
  BY <1>1 DEF Calm, Node
<1> HIDE DEF m
<1>4. node'[i] = m /\ Only(i) BY <1>1, <1>2 DEF Only
<1> QED BY <1>2, <1>3, <1>4 DEF Applies

\* The steps of a cluster in which nobody restarts, one by one.
LEMMA NextSteps ==
    ASSUME TypeInv, ElectionInv, ElectionInv', [Next]_vars
    PROVE  \/ \E i \in Server : ElectionThread(i) \/ HeartbeatThread(i) \/ ClientThread(i) \/ Apply(i)
           \/ UNCHANGED <<node, eth, hth, cth, ballots, applied, acked>>
<1>1. ASSUME NEW i \in Server, Unregister(i) \/ Restart(i) PROVE FALSE
  BY <1>1 DEF Unregister, Restart, ElectionInv, AllUp
<1>2. ASSUME NEW i \in Server, Stop(i) PROVE UNCHANGED <<node, eth, hth, cth, ballots, applied, acked>>
  BY <1>2 DEF Stop, threads, history
<1>3. CASE UNCHANGED vars
  BY <1>3 DEF vars
<1> QED BY <1>1, <1>2, <1>3 DEF Next

\* Nothing changes for the logs.
LEMMA RestMatch ==
    ASSUME TypeInv, TypeInv', NEW M, MatchInv(M), NEW N, Extends(M, N), AllCalm, UNCHANGED <<hth, cth, ballots>>,
           (\A j \in Server : cth[j].pc # "gap") \/ UNCHANGED node
    PROVE  MatchInv(N)' /\ N = M
<1>1. CoreInv(M)' /\ AllSteady BY CalmCore DEF MatchInv
<1>2. N = M BY <1>1, SteadyExtends DEF MatchInv, CoreInv
<1>3. HeartbeatLogs(M)' /\ ProposalLogs(M)' BY CarriedMore DEF MatchInv
<1>4. GapInv' BY DEF MatchInv, GapInv, IsLeader
<1> QED BY <1>1, <1>2, <1>3, <1>4 DEF MatchInv

\* Every step.
LEMMA MatchNext ==
    ASSUME "gap" \notin Preemptible, TypeInv, TypeInv', ElectionInv, ElectionInv', [Next]_vars,
           NEW M, MatchInv(M), NEW N, Extends(M, N)
    PROVE  MatchInv(N)' /\ M \in SUBSET N
<1>1. ASSUME NEW i \in Server, Apply(i) PROVE MatchInv(N)' /\ N = M
  <2>1. Applies(i) /\ Urgent = {} /\ UNCHANGED <<eth, hth, cth, ballots>> BY <1>1, ApplyMoves
  <2>2. Turn("e", i) BY <2>1 DEF Turn
  <2>3. \A j \in Server : cth[j].pc # "gap" BY <2>2, GapAlone
  <2>4. AllCalm BY <2>1, OthersCalm DEF Applies, AllCalm
  <2> QED BY <2>1, <2>3, <2>4, RestMatch
<1>2. CASE UNCHANGED <<node, eth, hth, cth, ballots, applied, acked>>
  <2>1. AllCalm BY <1>2, NoneRetires DEF AllRetire, AllCalm, Retires
  <2> QED BY <1>2, <2>1, RestMatch
<1> QED BY <1>1, <1>2, NextSteps, ElectionMatch, HeartbeatMatch, ClientMatch

\* At first nobody has led, and all logs are empty.
Before == {[term |-> 0, log |-> <<>>]}

\* All logs are empty.
LEMMA MatchInit == Init => MatchInv(Before)
<1> SUFFICES ASSUME Init PROVE MatchInv(Before) OBVIOUS
<1> DEFINE x == [term |-> 0, log |-> <<>>]
<1>1. x \in Tenure /\ x.term = 0 /\ x.log = <<>> /\ Len(x.log) = 0 /\ Before = {x} BY DEF Tenure, Before
<1> HIDE DEF x
<1>2. \A j \in Server : /\ node[j].log_ = <<>> /\ node[j].current_term_ = 0 /\ node[j].role_ = "Follower"
                        /\ hth[j].pc = "sleep" /\ cth[j].pc = "none"
  BY DEF Init, NewNode, Asleep, NoCall
<1>3. Lineage(Before) BY <1>1 DEF Lineage, Cuts, Chain, Begins
<1>4. Origin(Before) BY <1>1 DEF Origin
<1>5. NodeLogs(Before) BY <1>1, <1>2 DEF NodeLogs, Sourced
<1>6. LeaderLogs(Before) BY <1>2 DEF LeaderLogs, IsLeader
<1>7. HeartbeatLogs(Before) /\ ProposalLogs(Before) /\ GapInv
  BY <1>2 DEF HeartbeatLogs, ProposalLogs, GapInv
<1> QED BY <1>3, <1>4, <1>5, <1>6, <1>7 DEF MatchInv, CoreInv

\* Every log is one a leader had, and those match.
LEMMA MatchSafe ==
    ASSUME TypeInv, NEW M, MatchInv(M) PROVE LogMatching
<1> SUFFICES ASSUME NEW i \in Server, NEW j \in Server,
                    NEW k \in DOMAIN node[i].log_ \cap DOMAIN node[j].log_,
                    node[i].log_[k].term = node[j].log_[k].term
             PROVE  SubSeq(node[i].log_, 1, k) = SubSeq(node[j].log_, 1, k)
  BY DEF LogMatching
<1>1. PICK x \in M : x.log = node[i].log_ BY DEF MatchInv, CoreInv, NodeLogs, Sourced
<1>2. PICK y \in M : y.log = node[j].log_ BY DEF MatchInv, CoreInv, NodeLogs, Sourced
<1>3. x.log \in Seq(Entry) /\ y.log \in Seq(Entry)
  BY <1>1, <1>2 DEF TypeInv, TypeOK, Node
<1>4. k \in 1..Len(x.log) /\ k \in 1..Len(y.log) /\ Len(x.log) \in Nat /\ Len(y.log) \in Nat
  BY <1>1, <1>2, <1>3
<1>5. \A m \in 1..k : x.log[m] = y.log[m]
  <2>1. x.log[k].term = y.log[k].term /\ k <= k BY <1>1, <1>2, <1>4
  <2>2. \A m \in 1..k : m \in 1..Len(y.log) /\ x.log[m] = y.log[m]
    BY <1>4, <2>1, LineageMatch DEF MatchInv, CoreInv
  <2> QED BY <2>2
<1>6. PICK c : c = SubSeq(x.log, 1, k) OBVIOUS
<1>7. PICK d : d = SubSeq(y.log, 1, k) OBVIOUS
<1>8. c \in Seq(Entry) /\ Len(c) = k /\ \A m \in 1..k : c[m] = x.log[m]
  BY <1>3, <1>4, <1>6
<1>9. d \in Seq(Entry) /\ Len(d) = k /\ \A m \in 1..k : d[m] = y.log[m]
  BY <1>3, <1>4, <1>7
<1>10. c = d BY <1>5, <1>8, <1>9, SameSequence
<1> QED BY <1>1, <1>2, <1>6, <1>7, <1>10
\* Two logs that hold an entry of the same term at the same index are equal up
\* to it: in a cluster of any size, with any number of elections and proposals,
\* as long as nobody restarts and no thread runs between the append of a
\* proposal and the reading of its position.  OnAppendEntries cuts a log even
\* where it does not conflict, so what a node takes over is always the whole
\* log that the sender's leader had, not a part of it.
THEOREM LogsMatch ==
    ASSUME MaxStops = 0, "gap" \notin Preemptible
    PROVE  Spec => []LogMatching
<1> DEFINE Inv == Unstopped /\ \E M : MatchInv(M)
<1>1. Init => Inv
  BY UnstoppedInit, MatchInit
<1>2. Inv /\ [Next]_vars => Inv'
  <2> SUFFICES ASSUME Inv, [Next]_vars PROVE Inv'
    OBVIOUS
  <2>1. Unstopped' BY UnstoppedNext
  <2>2. PICK M : MatchInv(M) OBVIOUS
  <2>3. PICK N : Extends(M, N) BY DEF Extends
  <2>4. MatchInv(N)' BY <2>1, <2>2, <2>3, MatchNext DEF Unstopped
  <2> QED BY <2>1, <2>4
<1>3. Inv => LogMatching
  BY MatchSafe DEF Unstopped
<1> QED BY <1>1, <1>2, <1>3, PTL DEF Spec
-----------------------------------------------------------------------------
(* Entries that a set of nodes has stored.                                  *)

\* A majority without the nodes of A is beyond term t.
Dead(t, A) == \E Q \in SUBSET Server :
    Majority(Q) /\ \A q \in Q : q \notin A /\ node[q].current_term_ > t

\* The nodes of A have entry e at position k.
Held(k, e, A) == \A p \in A : node[p].current_term_ >= e.term /\ Has(node[p].log_, k, e)

\* So have the leaders of later terms.
LaterHave(M, k, e) == \A x \in M : x.term > e.term => Has(x.log, k, e)

\* So have the candidates of later terms that a node of A voted for.
Backs(k, e, A) == \A c \in Server, v \in A :
    /\ node[c].role_ = "Candidate" /\ node[c].current_term_ > e.term
    /\ <<v, node[c].current_term_, c>> \in ballots
    => Has(node[c].log_, k, e)

Firm(M, k, e, A) == Held(k, e, A) /\ LaterHave(M, k, e) /\ Backs(k, e, A)

\* The nodes of A can be counted for entry e at position k.  Either a majority
\* is out of reach for e, or whoever may lead later has e.
Guarded(M, k, e, A) == Dead(e.term, A) \/ Firm(M, k, e, A)

\* What an election thread asks with: the log of a node that still stands in
\* the term it asks for.
AskInv == \A i \in Server : eth[i].pc # "sleep" =>
    /\ eth[i].req.term <= node[i].current_term_
    /\ node[i].role_ = "Candidate" /\ node[i].current_term_ = eth[i].req.term =>
         /\ eth[i].req.last_log_index = LastLogIndex(node[i])
         /\ eth[i].req.last_log_term = LastLogTerm(node[i])

\* Nobody is voted for in a term it has not reached.
BallotTerms == \A v \in Server, u \in Nat, c \in Server :
    <<v, u, c>> \in ballots => node[c].current_term_ >= u

\* The terms in a log do not fall.
LEMMA TermsRise ==
    ASSUME NEW M, Lineage(M), NEW x \in M, NEW a \in 1..Len(x.log), NEW b \in 1..Len(x.log), a <= b
    PROVE  /\ x.log[a].term \in Nat /\ x.log[b].term \in Nat /\ x.log[a].term > 0
           /\ x.log[a].term <= x.log[b].term /\ x.log[b].term <= x.term
<1>1. x.log \in Seq(Entry) BY DEF Lineage, Tenure
<1>2. x.log[a] \in Entry /\ x.log[b] \in Entry /\ Len(x.log) \in Nat BY <1>1
<1>3. x.log[a].term \in Nat /\ x.log[b].term \in Nat BY <1>2 DEF Entry
<1>4. PICK w \in M : w.term = x.log[b].term /\ Len(w.log) = b /\ Begins(x.log, w.log)
  BY DEF Lineage, Cuts
<1>5. a \in 1..Len(w.log) BY <1>2, <1>4
<1>6. w.log[a].term <= w.term BY <1>5 DEF Lineage, Cuts
<1>7. x.log[a] = w.log[a] BY <1>4, <1>5 DEF Begins
<1>8. 1 <= x.log[a].term /\ x.log[b].term <= x.term BY DEF Lineage, Cuts
<1> QED BY <1>3, <1>4, <1>6, <1>7, <1>8

\* A log that begins with one that has an entry has it.
LEMMA BeginsHas ==
    ASSUME NEW g \in Seq(Entry), NEW h \in Seq(Entry), Begins(g, h), NEW k, NEW e, Has(h, k, e)
    PROVE  Has(g, k, e)
<1>1. Len(g) \in Nat /\ Len(h) \in Nat OBVIOUS
<1> QED BY <1>1 DEF Begins, Has

\* The log of a later leader, or of the same term and as long as any then, has
\* the entry.
LEMMA TakenHas ==
    ASSUME NEW M, Lineage(M), NEW y \in M, NEW k, NEW e \in Entry, Has(y.log, k, e), LaterHave(M, k, e),
           NEW x \in M, x.term >= e.term, \A z \in M : z.term = x.term => Begins(x.log, z.log)
    PROVE  Has(x.log, k, e)
<1>1. x.term \in Nat /\ x.log \in Seq(Entry) /\ e.term \in Nat BY DEF Lineage, Tenure, Entry
<1>2. CASE x.term > e.term BY <1>2 DEF LaterHave
<1>3. CASE x.term = e.term
  <2>1. k \in 1..Len(y.log) /\ y.log[k] = e BY DEF Has
  <2>2. PICK z \in M : z.term = e.term /\ Len(z.log) = k /\ Begins(y.log, z.log)
    BY <2>1 DEF Lineage, Cuts
  <2>3. z.log \in Seq(Entry) BY DEF Lineage, Tenure
  <2>4. k \in 1..Len(z.log)
    <3>1. y.log \in Seq(Entry) BY DEF Lineage, Tenure
    <3> QED BY <2>1, <2>2, <3>1
  <2>5. Has(z.log, k, e) BY <2>1, <2>2, <2>4 DEF Has, Begins
  <2>6. Begins(x.log, z.log) BY <1>3, <2>2
  <2> QED BY <1>1, <2>3, <2>5, <2>6, BeginsHas
<1> QED BY <1>1, <1>2, <1>3

\* A log that is up to date with one that has the entry has it.
LEMMA UpToDateHas ==
    ASSUME NEW M, Lineage(M), NEW y \in M, NEW z \in M, NEW k, NEW e \in Entry, Has(z.log, k, e),
           LaterHave(M, k, e), NEW n, z.log = n.log_,
           IsUpToDate(n, Len(y.log), TermOf(y.log, Len(y.log)))
    PROVE  Has(y.log, k, e)
<1>1. y.log \in Seq(Entry) /\ z.log \in Seq(Entry) /\ e.term \in Nat BY DEF Lineage, Tenure, Entry
<1>a. PICK a \in Nat : a = Len(z.log) BY <1>1
<1>b. PICK b \in Nat : b = Len(y.log) BY <1>1
<1>2. k \in 1..a /\ z.log[k] = e /\ k \in Nat /\ a > 0 BY <1>a DEF Has
<1>3. a \in DOMAIN z.log /\ a \in 1..Len(z.log) BY <1>1, <1>2, <1>a
<1>4. z.log[a].term \in Nat /\ z.log[a].term > 0 /\ e.term <= z.log[a].term
  BY <1>1, <1>2, <1>3, <1>a, TermsRise
<1>5. LastLogTerm(n) = z.log[a].term /\ LastLogIndex(n) = a
  BY <1>3, <1>a DEF LastLogTerm, LastLogIndex, TermAt
<1>6. b > 0 /\ b \in 1..Len(y.log) /\ TermOf(y.log, b) = y.log[b].term
  <2>1. b = 0 => TermOf(y.log, b) = 0 BY DEF TermOf
  <2>2. b # 0
    BY <1>2, <1>4, <1>5, <1>b, <2>1 DEF IsUpToDate
  <2>3. b \in 1..Len(y.log) BY <1>b, <2>2
  <2> QED BY <2>2, <2>3 DEF TermOf
<1>7. y.log[b].term \in Nat BY <1>6, TermsRise
<1>8. CASE y.log[b].term = z.log[a].term
  <2>1. a <= b BY <1>5, <1>6, <1>8, <1>b DEF IsUpToDate
  <2>2. \A m \in 1..a : m \in 1..Len(y.log) /\ z.log[m] = y.log[m]
    BY <1>3, <1>6, <1>8, <2>1, LineageMatch
  <2> QED BY <1>2, <2>2 DEF Has
<1>9. CASE y.log[b].term # z.log[a].term
  <2>1. y.log[b].term > z.log[a].term BY <1>5, <1>6, <1>9, <1>b DEF IsUpToDate
  <2>2. PICK w \in M : w.term = y.log[b].term /\ Len(w.log) = b /\ Begins(y.log, w.log)
    BY <1>6 DEF Lineage, Cuts
  <2>3. Has(w.log, k, e) BY <1>1, <1>4, <1>7, <2>1, <2>2 DEF LaterHave
  <2>4. w.log \in Seq(Entry) BY DEF Lineage, Tenure
  <2> QED BY <1>1, <2>2, <2>3, <2>4, BeginsHas
<1> QED BY <1>8, <1>9
\* Terms do not fall.
TermsGrow == \A j \in Server : node'[j].current_term_ >= node[j].current_term_

\* A majority that is beyond a term stays so.
LEMMA DeadKept ==
    ASSUME TypeInv, TypeInv', TermsGrow, NEW t \in Nat, NEW A \in SUBSET Server, Dead(t, A)
    PROVE  Dead(t, A)'
<1>1. PICK Q \in SUBSET Server : Majority(Q) /\ \A q \in Q : q \notin A /\ node[q].current_term_ > t
  BY DEF Dead
<1>2. \A q \in Q : node[q].current_term_ \in Nat /\ node'[q].current_term_ \in Nat
  BY DEF TypeInv, TypeOK, Node
<1>3. \A q \in Q : q \notin A /\ node'[q].current_term_ > t BY <1>1, <1>2 DEF TermsGrow
<1>4. Majority(Q)' BY <1>1 DEF Majority
<1> QED BY <1>3, <1>4 DEF Dead

\* All nodes calm down and nobody votes.
LEMMA GuardedCalm ==
    ASSUME TypeInv, TypeInv', AllCalm, UNCHANGED ballots,
           NEW M, NEW k, NEW e \in Entry, NEW A \in SUBSET Server, Guarded(M, k, e, A)
    PROVE  Guarded(M, k, e, A)'
<1>1. \A j \in Server : node[j].current_term_ \in Nat /\ node'[j].current_term_ \in Nat
  BY DEF TypeInv, TypeOK, Node
<1>2. e.term \in Nat BY DEF Entry
<1>3. CASE Dead(e.term, A)
  BY <1>2, <1>3, DeadKept DEF TermsGrow, AllCalm, Calm, Guarded
<1>4. CASE Firm(M, k, e, A)
  <2>1. Held(k, e, A)' BY <1>1, <1>2, <1>4 DEF Firm, Held, AllCalm, Calm
  <2>2. Backs(k, e, A)'
    <3> SUFFICES ASSUME NEW c \in Server, NEW v \in A, node'[c].role_ = "Candidate",
                        node'[c].current_term_ > e.term, <<v, node'[c].current_term_, c>> \in ballots'
                 PROVE  Has(node'[c].log_, k, e)
      BY DEF Backs
    <3>1. node[c].role_ = "Candidate" /\ node[c].current_term_ = node'[c].current_term_ /\ node'[c].log_ = node[c].log_
      BY <1>1 DEF AllCalm, Calm
    <3> QED BY <1>4, <3>1 DEF Firm, Backs
  <2> QED BY <1>4, <2>1, <2>2 DEF Firm, LaterHave, Guarded
<1> QED BY <1>3, <1>4 DEF Guarded

\* A node becomes a candidate and votes for itself.
LEMMA GuardedStands ==
    ASSUME TypeInv, TypeInv', BallotTerms, NEW i \in Server, Stands(i),
           NEW M, NEW k, NEW e \in Entry, NEW A \in SUBSET Server, Guarded(M, k, e, A)
    PROVE  Guarded(M, k, e, A)'
<1>1. \A j \in Server : node[j].current_term_ \in Nat /\ node'[j].current_term_ \in Nat
  BY DEF TypeInv, TypeOK, Node
<1>2. e.term \in Nat BY DEF Entry
<1>3. \A j \in Server : node'[j].log_ = node[j].log_ /\ node'[j].current_term_ >= node[j].current_term_
  BY <1>1 DEF Stands, Only
<1>4. CASE Dead(e.term, A)
  BY <1>2, <1>3, <1>4, DeadKept DEF TermsGrow, Guarded
<1>5. CASE Firm(M, k, e, A)
  <2>1. Held(k, e, A)' BY <1>1, <1>2, <1>3, <1>5 DEF Firm, Held
  <2>2. Backs(k, e, A)'
    <3> SUFFICES ASSUME NEW c \in Server, NEW v \in A, node'[c].role_ = "Candidate",
                        node'[c].current_term_ > e.term, <<v, node'[c].current_term_, c>> \in ballots'
                 PROVE  Has(node'[c].log_, k, e)
      BY DEF Backs
    <3>1. CASE c # i
      <4>1. node'[c] = node[c] /\ <<v, node'[c].current_term_, c>> \in ballots BY <3>1 DEF Stands, Only
      <4> QED BY <1>5, <4>1 DEF Firm, Backs
    <3>2. CASE c = i /\ v = i
      BY <1>3, <1>5, <3>2 DEF Firm, Held
    <3>3. CASE c = i /\ v # i
      <4>1. PICK u \in Nat : u = node'[i].current_term_ BY <1>1
      <4>2. <<v, u, i>> \in ballots BY <3>3, <4>1 DEF Stands
      <4>3. node[i].current_term_ >= u BY <4>1, <4>2 DEF BallotTerms
      <4> QED BY <1>1, <4>1, <4>3 DEF Stands
    <3> QED BY <3>1, <3>2, <3>3
  <2> QED BY <1>5, <2>1, <2>2 DEF Firm, LaterHave, Guarded
<1> QED BY <1>4, <1>5 DEF Guarded

\* A vote goes to a log that is up to date, hence has the entry.
LEMMA GuardedVotes ==
    ASSUME TypeInv, TypeInv', AskInv, NEW i \in Server, Votes(i),
           NEW M, CoreInv(M), NEW k, NEW e \in Entry, NEW A \in SUBSET Server, Guarded(M, k, e, A)
    PROVE  Guarded(M, k, e, A)'
<1>1. \A j \in Server : node[j].current_term_ \in Nat /\ node'[j].current_term_ \in Nat
  BY DEF TypeInv, TypeOK, Node
<1>2. e.term \in Nat BY DEF Entry
<1>3. PICK p \in Server :
         /\ p # i /\ Only(p) /\ Retires(node[p], node'[p])
         /\ \/ UNCHANGED ballots
            \/ /\ ballots' = ballots \cup {<<p, eth[i].req.term, i>>}
               /\ node'[p].current_term_ = eth[i].req.term
               /\ IsUpToDate(node[p], eth[i].req.last_log_index, eth[i].req.last_log_term)
  BY DEF Votes
<1>4. AllCalm BY <1>3, OthersCalm DEF AllCalm, Retires
<1>5. CASE UNCHANGED ballots
  BY <1>4, <1>5, GuardedCalm
<1>6. CASE Dead(e.term, A)
  BY <1>2, <1>4, <1>6, DeadKept DEF TermsGrow, AllCalm, Calm, Guarded
<1>7. CASE Firm(M, k, e, A) /\ ~UNCHANGED ballots
  <2>1. Held(k, e, A)' BY <1>1, <1>2, <1>4, <1>7 DEF Firm, Held, AllCalm, Calm
  <2>2. Backs(k, e, A)'
    <3> SUFFICES ASSUME NEW c \in Server, NEW v \in A, node'[c].role_ = "Candidate",
                        node'[c].current_term_ > e.term, <<v, node'[c].current_term_, c>> \in ballots'
                 PROVE  Has(node'[c].log_, k, e)
      BY DEF Backs
    <3>1. node[c].role_ = "Candidate" /\ node[c].current_term_ = node'[c].current_term_ /\ node'[c].log_ = node[c].log_
      BY <1>1, <1>4 DEF AllCalm, Calm
    <3>2. CASE <<v, node'[c].current_term_, c>> \in ballots
      BY <1>7, <3>1, <3>2 DEF Firm, Backs
    <3>3. CASE <<v, node'[c].current_term_, c>> \notin ballots
      <4>1. v = p /\ c = i /\ node[i].current_term_ = eth[i].req.term
        BY <1>3, <1>7, <3>1, <3>3
      <4>2. eth[i].req.last_log_index = LastLogIndex(node[i]) /\ eth[i].req.last_log_term = LastLogTerm(node[i])
        BY <3>1, <4>1 DEF AskInv, Votes
      <4>3. PICK y \in M : y.log = node[i].log_ BY DEF CoreInv, NodeLogs, Sourced
      <4>4. PICK z \in M : z.log = node[p].log_ BY DEF CoreInv, NodeLogs, Sourced
      <4>5. LastLogIndex(node[i]) = Len(y.log) /\ LastLogTerm(node[i]) = TermOf(y.log, Len(y.log))
        <5>1. y.log \in Seq(Entry) BY DEF CoreInv, Lineage, Tenure
        <5>2. DOMAIN y.log = 1..Len(y.log) BY <5>1
        <5> QED BY <4>3, <5>2 DEF LastLogIndex, LastLogTerm, TermAt, TermOf
      <4>6. IsUpToDate(node[p], Len(y.log), TermOf(y.log, Len(y.log)))
        BY <1>3, <1>7, <4>2, <4>5
      <4>7. Has(z.log, k, e) /\ LaterHave(M, k, e) BY <1>7, <4>1, <4>4 DEF Firm, Held
      <4>8. Has(y.log, k, e)
        BY <4>4, <4>6, <4>7, UpToDateHas DEF CoreInv
      <4> QED BY <3>1, <4>1, <4>3, <4>8
    <3> QED BY <3>2, <3>3
  <2> QED BY <1>7, <2>1, <2>2 DEF Firm, LaterHave, Guarded
<1> QED BY <1>5, <1>6, <1>7 DEF Guarded

\* The log that a request carries, if it carries any, is as long as any of
\* its term.
SureSent(M, r) == r.entries # <<>> => \E x \in M :
    /\ x.term = r.term /\ Carries(r, x.log)
    /\ \A z \in M : z.term = x.term => Begins(x.log, z.log)

\* A node that accepts such a request keeps the entries it must keep.
LEMMA AcceptedHas ==
    ASSUME TypeInv, NEW M, CoreInv(M), NEW p \in Server, NEW req \in AppendReq, SureSent(M, req),
           Accepts(node[p], req, node'[p]),
           NEW k, NEW e \in Entry, Has(node[p].log_, k, e), LaterHave(M, k, e), req.term >= e.term
    PROVE  Has(node'[p].log_, k, e)
<1>1. CASE req.entries = <<>>
  BY <1>1 DEF Accepts, LogAfter
<1>2. CASE req.entries # <<>>
  <2>1. PICK x \in M : /\ x.term = req.term /\ Carries(req, x.log)
                       /\ \A z \in M : z.term = x.term => Begins(x.log, z.log)
    BY <1>2 DEF SureSent
  <2>2. node'[p].log_ = x.log BY <1>2, <2>1, TakenWhole DEF Accepts
  <2>3. PICK y \in M : y.log = node[p].log_ BY DEF CoreInv, NodeLogs, Sourced
  <2>4. Has(y.log, k, e) BY <2>3
  <2>5. Has(x.log, k, e) BY <2>1, <2>4, TakenHas DEF CoreInv
  <2> QED BY <2>2, <2>5
<1> QED BY <1>1, <1>2

\* A call of AppendEntries.
LEMMA GuardedDelivered ==
    ASSUME TypeInv, TypeInv', UNCHANGED ballots, NEW M, CoreInv(M), NEW p \in Server, NEW req \in AppendReq,
           NEW resp, SureSent(M, req), Delivered(p, req, resp),
           NEW k, NEW e \in Entry, NEW A \in SUBSET Server, Guarded(M, k, e, A)
    PROVE  Guarded(M, k, e, A)'
<1>1. \A j \in Server : node[j].current_term_ \in Nat /\ node'[j].current_term_ \in Nat
  BY DEF TypeInv, TypeOK, Node
<1>2. e.term \in Nat /\ req.term \in Nat BY DEF Entry, AppendReq
<1>3. Only(p) BY DEF Delivered
<1>4. CASE Calm(node[p], node'[p])
  <2>1. AllCalm BY <1>3, <1>4, OthersCalm DEF AllCalm
  <2> QED BY <2>1, GuardedCalm
<1>5. CASE Accepts(node[p], req, node'[p])
  <2>1. node[p].current_term_ <= req.term /\ node'[p].current_term_ = req.term /\ node'[p].role_ = "Follower"
    BY <1>5 DEF Accepts
  <2>2. TermsGrow BY <1>1, <1>2, <1>3, <2>1 DEF TermsGrow, Only
  <2>3. CASE Dead(e.term, A) BY <1>2, <2>2, <2>3, DeadKept DEF Guarded
  <2>4. CASE Firm(M, k, e, A)
    <3>1. Held(k, e, A)'
      <4> SUFFICES ASSUME NEW q \in A PROVE node'[q].current_term_ >= e.term /\ Has(node'[q].log_, k, e)
        BY DEF Held
      <4>1. node[q].current_term_ >= e.term /\ Has(node[q].log_, k, e) BY <2>4 DEF Firm, Held
      <4>2. CASE q # p BY <1>3, <4>1, <4>2 DEF Only
      <4>3. CASE q = p
        <5>1. req.term >= e.term BY <1>1, <1>2, <2>1, <4>1, <4>3
        <5>2. Has(node'[p].log_, k, e) BY <1>5, <2>4, <4>1, <4>3, <5>1, AcceptedHas DEF Firm
        <5> QED BY <2>1, <4>3, <5>1, <5>2
      <4> QED BY <4>2, <4>3
    <3>2. Backs(k, e, A)'
      <4> SUFFICES ASSUME NEW c \in Server, NEW v \in A, node'[c].role_ = "Candidate",
                          node'[c].current_term_ > e.term, <<v, node'[c].current_term_, c>> \in ballots'
                   PROVE  Has(node'[c].log_, k, e)
        BY DEF Backs
      <4>1. c # p BY <2>1
      <4>2. node'[c] = node[c] BY <1>3, <4>1 DEF Only
      <4> QED BY <2>4, <4>2 DEF Firm, Backs
    <3> QED BY <2>4, <3>1, <3>2 DEF Firm, LaterHave, Guarded
  <2> QED BY <2>3, <2>4 DEF Guarded
<1> QED BY <1>4, <1>5 DEF Delivered, Retires
\* Whoever voted in a term has reached it.
LEMMA VotersTerms ==
    ASSUME ElectionInv, NEW t \in Nat, NEW c \in Server
    PROVE  Voters(t, c) \in SUBSET Server /\ \A v \in Voters(t, c) : t <= node[v].current_term_
  BY DEF Voters, ElectionInv, VoteKept

\* A node is elected.  If a node of A voted for it it has the entry, and if
\* none did its voters are a majority beyond the entry's term.
LEMMA GuardedWins ==
    ASSUME TypeInv, TypeInv', ElectionInv, ElectionInv', NEW i \in Server, Wins(i),
           NEW M, NEW N, N = M \cup {Now(i)},
           NEW k, NEW e \in Entry, NEW A \in SUBSET Server, Guarded(M, k, e, A)
    PROVE  Guarded(N, k, e, A)'
<1>1. \A j \in Server : node[j].current_term_ \in Nat /\ node'[j].current_term_ \in Nat
  BY DEF TypeInv, TypeOK, Node
<1>2. e.term \in Nat BY DEF Entry
<1>3. \A j \in Server : node'[j].log_ = node[j].log_ /\ node'[j].current_term_ = node[j].current_term_
  BY DEF Wins, Only
<1>4. CASE Dead(e.term, A)
  BY <1>1, <1>2, <1>3, <1>4, DeadKept DEF TermsGrow, Guarded
<1>5. CASE Firm(M, k, e, A)
  <2>1. Held(k, e, A)' BY <1>1, <1>2, <1>3, <1>5 DEF Firm, Held
  <2>2. Backs(k, e, A)'
    <3> SUFFICES ASSUME NEW c \in Server, NEW v \in A, node'[c].role_ = "Candidate",
                        node'[c].current_term_ > e.term, <<v, node'[c].current_term_, c>> \in ballots'
                 PROVE  Has(node'[c].log_, k, e)
      BY DEF Backs
    <3>1. c # i /\ node'[c] = node[c] BY DEF Wins, Only
    <3> QED BY <1>5, <3>1 DEF Wins, Firm, Backs
  <2>3. PICK u \in Nat : u = node[i].current_term_ BY <1>1
  <2>4. Majority(Voters(u, i))
    <3>1. node'[i].role_ = "Leader" /\ node'[i].current_term_ = u BY <2>3 DEF Wins
    <3>2. Majority(Voters(u, i))' BY <3>1 DEF ElectionInv, LeaderElected, IsLeader
    <3> QED BY <3>2 DEF Wins, Voters, Majority
  <2>5. CASE ~(u > e.term)
    <3>1. Now(i).term = u BY <2>3 DEF Now
    <3> QED BY <1>5, <2>1, <2>2, <2>5, <3>1 DEF Firm, LaterHave, Guarded
  <2>6. CASE u > e.term /\ \E v \in A : v \in Voters(u, i)
    <3>1. Has(node[i].log_, k, e) BY <1>5, <2>3, <2>6 DEF Firm, Backs, Voters, Wins
    <3>2. Now(i).log = node[i].log_ BY DEF Now
    <3>3. LaterHave(N, k, e) BY <1>5, <3>1, <3>2 DEF Firm, LaterHave
    <3> QED BY <2>1, <2>2, <3>3 DEF Firm, LaterHave, Guarded
  <2>7. CASE u > e.term /\ \A v \in A : v \notin Voters(u, i)
    <3>1. PICK Q : Q = Voters(u, i) OBVIOUS
    <3>2. Q \in SUBSET Server /\ \A q \in Q : u <= node[q].current_term_ BY <3>1, VotersTerms
    <3>3. \A q \in Q : q \notin A /\ node'[q].current_term_ > e.term
      BY <1>1, <1>2, <1>3, <2>7, <3>1, <3>2
    <3>4. Majority(Q)' BY <2>4, <3>1 DEF Majority
    <3>5. Dead(e.term, A)' BY <3>2, <3>3, <3>4 DEF Dead
    <3> QED BY <3>5 DEF Guarded
  <2> QED BY <2>5, <2>6, <2>7
<1> QED BY <1>4, <1>5 DEF Guarded

\* A longer log has what the shorter one has.
LEMMA AppendHas ==
    ASSUME NEW g \in Seq(Entry), NEW f \in Entry, NEW k, NEW e, Has(g, k, e)
    PROVE  Has(Append(g, f), k, e)
<1>1. Append(g, f) \in Seq(Entry) OBVIOUS
<1> QED BY <1>1, BeginsItself, BeginsAppend, BeginsHas

\* A leader appends another entry.
LEMMA GuardedAppends ==
    ASSUME TypeInv, TypeInv', UNCHANGED ballots, NEW i \in Server, NEW f \in Entry, Appends(i, f),
           NEW M, CoreInv(M), NEW N, N = M \cup {Now(i)'},
           NEW k, NEW e \in Entry, NEW A \in SUBSET Server, Guarded(M, k, e, A)
    PROVE  Guarded(N, k, e, A)'
<1>1. \A j \in Server : node[j].current_term_ \in Nat /\ node'[j].current_term_ \in Nat
  BY DEF TypeInv, TypeOK, Node
<1>2. e.term \in Nat /\ node[i].log_ \in Seq(Entry) BY DEF Entry, TypeInv, TypeOK, Node
<1>3. \A j \in Server : node'[j].current_term_ = node[j].current_term_ BY DEF Appends, Only
<1>4. CASE Dead(e.term, A)
  BY <1>1, <1>2, <1>3, <1>4, DeadKept DEF TermsGrow, Guarded
<1>5. CASE Firm(M, k, e, A)
  <2>0. Has(node[i].log_, k, e) => Has(node'[i].log_, k, e) BY <1>2, AppendHas DEF Appends
  <2>1. Held(k, e, A)'
    <3> SUFFICES ASSUME NEW q \in A PROVE node'[q].current_term_ >= e.term /\ Has(node'[q].log_, k, e)
      BY DEF Held
    <3>1. node[q].current_term_ >= e.term /\ Has(node[q].log_, k, e) BY <1>5 DEF Firm, Held
    <3> QED BY <1>3, <2>0, <3>1 DEF Appends, Only
  <2>2. Backs(k, e, A)'
    <3> SUFFICES ASSUME NEW c \in Server, NEW v \in A, node'[c].role_ = "Candidate",
                        node'[c].current_term_ > e.term, <<v, node'[c].current_term_, c>> \in ballots'
                 PROVE  Has(node'[c].log_, k, e)
      BY DEF Backs
    <3>1. c # i /\ node'[c] = node[c] BY DEF Appends, Only
    <3> QED BY <1>5, <3>1 DEF Firm, Backs
  <2>3. LaterHave(N, k, e)
    <3>1. Now(i) \in M BY DEF Appends, CoreInv, LeaderLogs, Now
    <3>2. Now(i).term = Now(i)'.term /\ Now(i).log = node[i].log_ /\ Now(i)'.log = node'[i].log_
      BY <1>3 DEF Now
    <3>3. LaterHave(M, k, e) BY <1>5 DEF Firm
    <3> QED BY <2>0, <3>1, <3>2, <3>3 DEF LaterHave
  <2> QED BY <2>1, <2>2, <2>3 DEF Firm, LaterHave, Guarded
<1> QED BY <1>4, <1>5 DEF Guarded

\* A node that has the entry and is still in its term can be counted too.
LEMMA GuardedGrows ==
    ASSUME TypeInv, ElectionInv, NEW M, NEW k, NEW e \in Entry, NEW A \in SUBSET Server, Guarded(M, k, e, A),
           NEW p \in Server, node[p].current_term_ = e.term, Has(node[p].log_, k, e)
    PROVE  Guarded(M, k, e, A \cup {p})
<1>1. \A j \in Server : node[j].current_term_ \in Nat BY DEF TypeInv, TypeOK, Node
<1>2. e.term \in Nat BY DEF Entry
<1>3. CASE Dead(e.term, A)
  <2>1. PICK Q \in SUBSET Server : Majority(Q) /\ \A q \in Q : q \notin A /\ node[q].current_term_ > e.term
    BY <1>3 DEF Dead
  <2>2. p \notin Q BY <1>2, <2>1
  <2>3. Dead(e.term, A \cup {p}) BY <2>1, <2>2 DEF Dead
  <2> QED BY <2>3 DEF Guarded
<1>4. CASE Firm(M, k, e, A)
  <2>1. Held(k, e, A \cup {p}) BY <1>2, <1>4 DEF Firm, Held
  <2>2. Backs(k, e, A \cup {p})
    <3> SUFFICES ASSUME NEW c \in Server, NEW v \in A \cup {p}, node[c].role_ = "Candidate",
                        node[c].current_term_ > e.term, <<v, node[c].current_term_, c>> \in ballots
                 PROVE  Has(node[c].log_, k, e)
      BY DEF Backs
    <3>1. CASE v \in A BY <1>4, <3>1 DEF Firm, Backs
    <3>2. CASE v = p
      <4>1. node[c].current_term_ <= node[p].current_term_ BY <1>1, <3>2 DEF ElectionInv, VoteKept
      <4> QED BY <1>1, <1>2, <4>1
    <3> QED BY <3>1, <3>2
  <2> QED BY <1>4, <2>1, <2>2 DEF Firm, Guarded
<1> QED BY <1>3, <1>4 DEF Guarded

\* The entry that a leader has just appended can be counted for the leader: if
\* somebody led a later term already, a majority is beyond this one.
LEMMA GuardedNew ==
    ASSUME TypeInv, ElectionInv, NEW M, CoreInv(M), NEW i \in Server, NEW k, NEW e \in Entry,
           node[i].current_term_ = e.term, Has(node[i].log_, k, e)
    PROVE  Guarded(M, k, e, {i})
<1>1. \A j \in Server : node[j].current_term_ \in Nat BY DEF TypeInv, TypeOK, Node
<1>2. e.term \in Nat BY DEF Entry
<1>3. CASE \E x \in M : x.term > e.term
  <2>1. PICK x \in M : x.term > e.term BY <1>3
  <2>2. x.term \in Nat BY DEF CoreInv, Lineage, Tenure
  <2>3. HasLed(x.term) BY <1>2, <2>1, <2>2 DEF CoreInv, Origin
  <2>4. PICK w \in Server : Majority(Voters(x.term, w)) BY <2>3 DEF HasLed
  <2>5. PICK Q : Q = Voters(x.term, w) OBVIOUS
  <2>6. Q \in SUBSET Server /\ \A q \in Q : x.term <= node[q].current_term_ BY <2>2, <2>5, VotersTerms
  <2>7. \A q \in Q : q \notin {i} /\ node[q].current_term_ > e.term BY <1>1, <1>2, <2>1, <2>2, <2>6
  <2>8. Dead(e.term, {i}) BY <2>4, <2>5, <2>6, <2>7 DEF Dead
  <2> QED BY <2>8 DEF Guarded
<1>4. CASE \A x \in M : ~(x.term > e.term)
  <2>1. LaterHave(M, k, e) BY <1>4 DEF LaterHave
  <2>2. Held(k, e, {i}) BY <1>2 DEF Held
  <2>3. Backs(k, e, {i})
    <3> SUFFICES ASSUME NEW c \in Server, node[c].role_ = "Candidate",
                        node[c].current_term_ > e.term, <<i, node[c].current_term_, c>> \in ballots
                 PROVE  FALSE
      BY DEF Backs
    <3>1. node[c].current_term_ <= node[i].current_term_ BY <1>1 DEF ElectionInv, VoteKept
    <3> QED BY <1>1, <1>2, <3>1
  <2> QED BY <2>1, <2>2, <2>3 DEF Firm, Guarded
<1> QED BY <1>3, <1>4

\* What a majority has stored stays.
LEMMA MajorityFirm ==
    ASSUME NEW M, NEW k, NEW e, NEW A \in SUBSET Server, Majority(A), Guarded(M, k, e, A)
    PROVE  Firm(M, k, e, A)
  BY MajoritiesMeet DEF Guarded, Dead
-----------------------------------------------------------------------------
(* What threads ask and send.                                               *)

\* Whoever stands after a step stood before, with the same log.
CandidatesKept == \A j \in Server :
    /\ node'[j].current_term_ >= node[j].current_term_
    /\ node'[j].role_ = "Candidate" =>
         /\ node[j].role_ = "Candidate" /\ node'[j].current_term_ = node[j].current_term_
         /\ node'[j].log_ = node[j].log_

\* All nodes calm down.
LEMMA CalmKeeps ==
    ASSUME TypeInv, TypeInv', AllCalm PROVE CandidatesKept
<1>1. \A j \in Server : node[j].current_term_ \in Nat /\ node'[j].current_term_ \in Nat
  BY DEF TypeInv, TypeOK, Node
<1> QED BY <1>1 DEF AllCalm, Calm, CandidatesKept

\* A call of AppendEntries makes no candidate.
LEMMA DeliveredKeeps ==
    ASSUME TypeInv, TypeInv', NEW p \in Server, NEW req \in AppendReq, NEW resp, Delivered(p, req, resp)
    PROVE  CandidatesKept
<1>1. \A j \in Server : node[j].current_term_ \in Nat /\ node'[j].current_term_ \in Nat
  BY DEF TypeInv, TypeOK, Node
<1>2. Only(p) BY DEF Delivered
<1>3. CASE Retires(node[p], node'[p])
  <2>1. AllCalm BY <1>2, <1>3, OthersCalm DEF AllCalm, Retires
  <2> QED BY <2>1, CalmKeeps
<1>4. CASE Accepts(node[p], req, node'[p])
  <2>1. req.term \in Nat BY DEF AppendReq
  <2> QED BY <1>1, <1>2, <1>4, <2>1 DEF Accepts, Only, CandidatesKept
<1> QED BY <1>3, <1>4 DEF Delivered

VoteInv == AskInv /\ BallotTerms

\* Nobody new stands and nobody asks anew.
LEMMA AskKept ==
    ASSUME TypeInv, TypeInv', AskInv, CandidatesKept, SameAsking PROVE AskInv'
<1>1. \A j \in Server : node[j].current_term_ \in Nat /\ node'[j].current_term_ \in Nat
  BY DEF TypeInv, TypeOK, Node
<1> SUFFICES ASSUME NEW j \in Server, eth'[j].pc # "sleep"
             PROVE  /\ eth'[j].req.term <= node'[j].current_term_
                    /\ node'[j].role_ = "Candidate" /\ node'[j].current_term_ = eth'[j].req.term =>
                         /\ eth'[j].req.last_log_index = LastLogIndex(node'[j])
                         /\ eth'[j].req.last_log_term = LastLogTerm(node'[j])
  BY DEF AskInv
<1>2. eth[j].pc # "sleep" /\ eth'[j].req = eth[j].req BY DEF SameAsking
<1>3. eth[j].req.term \in Nat
  BY <1>2 DEF TypeInv, TypeOK, ElectionThreadState, Asleep, VoteReq
<1>4. eth[j].req.term <= node'[j].current_term_
  BY <1>1, <1>2, <1>3 DEF AskInv, CandidatesKept
<1>5. ASSUME node'[j].role_ = "Candidate", node'[j].current_term_ = eth[j].req.term
      PROVE  /\ eth[j].req.last_log_index = LastLogIndex(node'[j])
             /\ eth[j].req.last_log_term = LastLogTerm(node'[j])
  <2>1. node[j].role_ = "Candidate" /\ node'[j].current_term_ = node[j].current_term_ /\ node'[j].log_ = node[j].log_
    BY <1>5 DEF CandidatesKept
  <2>2. LastLogIndex(node'[j]) = LastLogIndex(node[j]) /\ LastLogTerm(node'[j]) = LastLogTerm(node[j])
    BY <2>1 DEF LastLogIndex, LastLogTerm, TermAt
  <2> QED BY <1>2, <1>5, <2>1, <2>2 DEF AskInv
<1> QED BY <1>2, <1>4, <1>5

\* Nobody new stands, nobody votes and nobody asks anew.
LEMMA VoteInvKept ==
    ASSUME TypeInv, TypeInv', VoteInv, CandidatesKept, SameAsking, UNCHANGED ballots PROVE VoteInv'
<1>1. \A j \in Server : node[j].current_term_ \in Nat /\ node'[j].current_term_ \in Nat
  BY DEF TypeInv, TypeOK, Node
<1>2. AskInv' BY AskKept DEF VoteInv
<1>3. BallotTerms'
  <2> SUFFICES ASSUME NEW v \in Server, NEW u \in Nat, NEW c \in Server, <<v, u, c>> \in ballots
               PROVE  node'[c].current_term_ >= u
    BY DEF BallotTerms
  <2>1. node[c].current_term_ >= u BY DEF VoteInv, BallotTerms
  <2> QED BY <1>1, <2>1 DEF CandidatesKept
<1> QED BY <1>2, <1>3 DEF VoteInv

\* A node stands and asks with its log.
LEMMA VoteInvStands ==
    ASSUME TypeInv, TypeInv', VoteInv, NEW i \in Server, Stands(i) PROVE VoteInv'
<1>1. \A j \in Server : node[j].current_term_ \in Nat /\ node'[j].current_term_ \in Nat
  BY DEF TypeInv, TypeOK, Node
<1>2. AskInv'
  <2> SUFFICES ASSUME NEW j \in Server, eth'[j].pc # "sleep"
               PROVE  /\ eth'[j].req.term <= node'[j].current_term_
                      /\ node'[j].role_ = "Candidate" /\ node'[j].current_term_ = eth'[j].req.term =>
                           /\ eth'[j].req.last_log_index = LastLogIndex(node'[j])
                           /\ eth'[j].req.last_log_term = LastLogTerm(node'[j])
    BY DEF AskInv
  <2>1. CASE j # i
    BY <2>1 DEF Stands, Only, VoteInv, AskInv
  <2>2. CASE j = i
    <3>1. /\ eth'[i].req.term = node'[i].current_term_ /\ node'[i].log_ = node[i].log_
          /\ eth'[i].req.last_log_index = LastLogIndex(node[i])
          /\ eth'[i].req.last_log_term = LastLogTerm(node[i])
      BY <2>2 DEF Stands
    <3>2. LastLogIndex(node'[i]) = LastLogIndex(node[i]) /\ LastLogTerm(node'[i]) = LastLogTerm(node[i])
      BY <3>1 DEF LastLogIndex, LastLogTerm, TermAt
    <3> QED BY <1>1, <2>2, <3>1, <3>2
  <2> QED BY <2>1, <2>2
<1>3. BallotTerms'
  <2> SUFFICES ASSUME NEW v \in Server, NEW u \in Nat, NEW c \in Server, <<v, u, c>> \in ballots'
               PROVE  node'[c].current_term_ >= u
    BY DEF BallotTerms
  <2>1. CASE <<v, u, c>> \in ballots
    <3>1. node[c].current_term_ >= u BY <2>1 DEF VoteInv, BallotTerms
    <3> QED BY <1>1, <3>1 DEF Stands, Only
  <2>2. CASE <<v, u, c>> \notin ballots
    <3>1. c = i /\ u = node'[i].current_term_ BY <2>2 DEF Stands
    <3> QED BY <3>1
  <2> QED BY <2>1, <2>2
<1> QED BY <1>2, <1>3 DEF VoteInv

\* A node votes for one that has reached the term.
LEMMA VoteInvVotes ==
    ASSUME TypeInv, TypeInv', VoteInv, NEW i \in Server, Votes(i) PROVE VoteInv'
<1>1. \A j \in Server : node[j].current_term_ \in Nat /\ node'[j].current_term_ \in Nat
  BY DEF TypeInv, TypeOK, Node
<1>2. PICK p \in Server :
         /\ Only(p) /\ Retires(node[p], node'[p])
         /\ UNCHANGED ballots \/ ballots' = ballots \cup {<<p, eth[i].req.term, i>>}
  BY DEF Votes
<1>3. AllCalm BY <1>2, OthersCalm DEF AllCalm, Retires
<1>4. CandidatesKept BY <1>3, CalmKeeps
<1>5. CASE UNCHANGED ballots
  BY <1>4, <1>5, VoteInvKept DEF Votes
<1>6. AskInv' BY <1>4, AskKept DEF Votes, VoteInv
<1>7. BallotTerms'
  <2> SUFFICES ASSUME NEW v \in Server, NEW u \in Nat, NEW c \in Server, <<v, u, c>> \in ballots'
               PROVE  node'[c].current_term_ >= u
    BY DEF BallotTerms
  <2>1. CASE <<v, u, c>> \in ballots
    <3>1. node[c].current_term_ >= u BY <2>1 DEF VoteInv, BallotTerms
    <3> QED BY <1>1, <1>4, <3>1 DEF CandidatesKept
  <2>2. CASE <<v, u, c>> \notin ballots
    <3>1. c = i /\ u = eth[i].req.term BY <1>2, <2>2
    <3>2. u <= node[i].current_term_ BY <3>1 DEF VoteInv, AskInv, Votes
    <3> QED BY <1>1, <1>4, <3>1, <3>2 DEF CandidatesKept
  <2> QED BY <2>1, <2>2
<1> QED BY <1>6, <1>7 DEF VoteInv
-----------------------------------------------------------------------------
(* Acknowledged entries.                                                    *)

\* A step keeps what may be counted.
Kept(M, N) == \A k : \A e \in Entry : \A A \in SUBSET Server :
    Guarded(M, k, e, A) => Guarded(N, k, e, A)'

\* A step makes no request fall behind the logs of its term.
SentKept(M, N) == \A r : SureSent(M, r) => SureSent(N, r)

\* The election thread.
LEMMA ElectionKept ==
    ASSUME TypeInv, TypeInv', ElectionInv, ElectionInv', VoteInv, NEW M, MatchInv(M),
           NEW N, Extends(M, N), NEW i \in Server, ElectionThread(i)
    PROVE  Kept(M, N) /\ SentKept(M, N) /\ VoteInv' /\ ballots \subseteq ballots'
<1>1. AllUp BY DEF ElectionInv
<1>2. ElectionEffect(i) BY <1>1, ElectionMoves
<1>3. CoreInv(M) /\ LeaderLogs(M) /\ AskInv /\ BallotTerms BY DEF MatchInv, CoreInv, VoteInv
<1>4. N = M => SentKept(M, N) BY DEF SentKept
<1>5. CASE Stands(i)
  <2>1. AllSteady BY <1>3, <1>5, StandsCore
  <2>2. N = M BY <1>3, <2>1, SteadyExtends
  <2>3. Kept(M, M) BY <1>3, <1>5, GuardedStands DEF Kept
  <2> QED BY <1>4, <1>5, <2>2, <2>3, VoteInvStands DEF Stands
<1>6. CASE Votes(i)
  <2>1. AllCalm
    <3>1. PICK p \in Server : Only(p) /\ Calm(node[p], node'[p]) BY <1>6 DEF Votes, Retires
    <3> QED BY <3>1, OthersCalm DEF AllCalm
  <2>2. ballots \subseteq ballots' BY <1>6 DEF Votes
  <2>3. AllSteady BY <1>3, <2>1, <2>2, CalmCore
  <2>4. N = M BY <1>3, <2>3, SteadyExtends
  <2>5. Kept(M, M) BY <1>3, <1>6, GuardedVotes DEF Kept
  <2> QED BY <1>4, <1>6, <2>2, <2>4, <2>5, VoteInvVotes
<1>7. CASE Wins(i)
  <2>1. N = M \cup {Now(i)'} BY <1>3, <1>7, OneExtends DEF Wins
  <2>2. Now(i)' = Now(i) BY <1>7 DEF Wins, Now
  <2>3. N = M \cup {Now(i)} BY <2>1, <2>2
  <2>4. \A x \in M : x.term # node[i].current_term_ BY <1>3, <1>7, <2>3, WinsCore
  <2>5. SentKept(M, N)
    <3> SUFFICES ASSUME NEW r, r.entries # <<>>, SureSent(M, r) PROVE SureSent(N, r)
      BY DEF SentKept, SureSent
    <3>1. PICK x \in M : /\ x.term = r.term /\ Carries(r, x.log)
                         /\ \A z \in M : z.term = x.term => Begins(x.log, z.log)
      BY DEF SureSent
    <3>2. \A z \in N : z.term = x.term => Begins(x.log, z.log)
      BY <2>3, <2>4, <3>1 DEF Now
    <3> QED BY <2>3, <3>1, <3>2 DEF SureSent
  <2>6. Kept(M, N) BY <1>7, <2>3, GuardedWins DEF Kept
  <2>7. CandidatesKept
    <3>1. \A j \in Server : node[j].current_term_ \in Nat BY DEF TypeInv, TypeOK, Node
    <3>2. \A j \in Server : node'[j].current_term_ = node[j].current_term_ BY <1>7 DEF Wins, Only
    <3>3. \A j \in Server : node'[j].role_ = "Candidate" => node'[j] = node[j] BY <1>7 DEF Wins, Only
    <3> QED BY <3>1, <3>2, <3>3 DEF CandidatesKept
  <2>8. SameAsking /\ UNCHANGED ballots BY <1>7 DEF Wins
  <2> QED BY <2>5, <2>6, <2>7, <2>8, VoteInvKept
<1>8. CASE AllRetire /\ UNCHANGED ballots /\ SameAsking
  <2>1. AllCalm BY <1>8 DEF AllRetire, AllCalm, Retires
  <2>2. AllSteady BY <1>3, <1>8, <2>1, CalmCore
  <2>3. N = M BY <1>3, <2>2, SteadyExtends
  <2>4. Kept(M, M) BY <1>8, <2>1, GuardedCalm DEF Kept
  <2>5. VoteInv' BY <1>8, <2>1, CalmKeeps, VoteInvKept
  <2> QED BY <1>4, <1>8, <2>3, <2>4, <2>5
<1> QED BY <1>2, <1>5, <1>6, <1>7, <1>8 DEF ElectionEffect

\* The threads that ask for votes do not move.
LEMMA AskingSame ==
    ASSUME UNCHANGED eth PROVE SameAsking
  BY DEF SameAsking

\* All nodes calm down, nobody votes, nobody asks anew.
LEMMA CalmKept ==
    ASSUME TypeInv, TypeInv', VoteInv, AllCalm, UNCHANGED <<eth, ballots>>, NEW M, MatchInv(M), NEW N, Extends(M, N)
    PROVE  Kept(M, N) /\ SentKept(M, N) /\ VoteInv'
<1>1. AllSteady BY CalmCore DEF MatchInv
<1>2. N = M BY <1>1, SteadyExtends DEF MatchInv, CoreInv
<1>3. Kept(M, M) BY GuardedCalm DEF Kept
<1>4. VoteInv' BY AskingSame, CalmKeeps, VoteInvKept
<1> QED BY <1>2, <1>3, <1>4 DEF SentKept

\* A call with a request that sends a longest log of its term.
LEMMA DeliveredKept ==
    ASSUME TypeInv, TypeInv', VoteInv, UNCHANGED <<eth, ballots>>, NEW M, MatchInv(M), NEW N, Extends(M, N),
           NEW p \in Server, NEW req \in AppendReq, NEW resp, SureSent(M, req), Delivered(p, req, resp)
    PROVE  Kept(M, N) /\ SentKept(M, N) /\ VoteInv'
<1>1. Carried(M, req) BY DEF SureSent, Carried
<1>2. AllSteady BY <1>1, DeliveredCore DEF MatchInv
<1>3. N = M BY <1>2, SteadyExtends DEF MatchInv, CoreInv
<1>4. Kept(M, M) BY GuardedDelivered DEF Kept, MatchInv
<1>5. VoteInv' BY AskingSame, DeliveredKeeps, VoteInvKept
<1> QED BY <1>3, <1>4, <1>5 DEF SentKept
\* The request that a leader builds for a peer sends all of its log.
LEMMA BuiltSent ==
    ASSUME TypeInv, NEW i \in Server, NEW p \in Peers(i), NEW r, r = BuildAppendEntries(node[i], i, p)
    PROVE  /\ r.term = node[i].current_term_
           /\ r.entries # <<>> => Carries(r, node[i].log_)
           /\ r.entries = <<>> => r.prev_log_index >= Len(node[i].log_)
           /\ r.prev_log_term = TermOf(node[i].log_, r.prev_log_index) /\ r.prev_log_index \in Nat
           /\ r.leader_commit = node[i].commit_index_
<1>a. PICK g : g = node[i].log_ OBVIOUS
<1>b. PICK nx : nx = node[i].next_index_[p] OBVIOUS
<1>1. g \in Seq(Entry) /\ nx \in Nat \ {0} BY <1>a, <1>b DEF TypeInv, TypeOK, Node
<1>c. PICK es : es = SubSeq(g, nx, Len(g)) OBVIOUS
<1>2. /\ r.term = node[i].current_term_ /\ r.prev_log_index = nx - 1 /\ r.entries = es
      /\ r.prev_log_term = TermAt(node[i], nx - 1) /\ r.leader_commit = node[i].commit_index_
  BY <1>a, <1>b, <1>c DEF BuildAppendEntries, AppendEntriesReq
<1>3. TermAt(node[i], nx - 1) = TermOf(g, nx - 1)
  <2>1. DOMAIN g = 1..Len(g) BY <1>1
  <2> QED BY <1>a, <2>1 DEF TermAt, TermOf
<1>4. ASSUME es # <<>> PROVE Carries(r, g)
  <2>0. Len(g) \in Nat BY <1>1
  <2>1. nx <= Len(g) BY <1>1, <1>c, <1>4
  <2>2. Len(es) = Len(g) - nx + 1 /\ \A m \in 1..Len(es) : es[m] = g[nx - 1 + m]
    BY <1>1, <1>c, <2>0, <2>1
  <2>3. Len(g) = (nx - 1) + Len(es) BY <1>1, <2>0, <2>1, <2>2
  <2> QED BY <1>2, <1>3, <2>2, <2>3 DEF Carries
<1>5. es = <<>> => nx - 1 >= Len(g)
  <2>0. Len(g) \in Nat BY <1>1
  <2>1. nx <= Len(g) => Len(es) = Len(g) - nx + 1 BY <1>1, <1>c, <2>0
  <2>2. es = <<>> => Len(es) = 0 OBVIOUS
  <2> QED BY <1>1, <2>0, <2>1, <2>2
<1>6. nx - 1 \in Nat BY <1>1
<1> QED BY <1>a, <1>2, <1>3, <1>4, <1>5, <1>6

\* It sends the longest log of its term.
LEMMA BuiltSure ==
    ASSUME TypeInv, NEW M, LeaderLogs(M), NEW i \in Server, IsLeader(i), NEW p \in Peers(i)
    PROVE  SureSent(M, BuildAppendEntries(node[i], i, p))
<1>1. PICK r : r = BuildAppendEntries(node[i], i, p) OBVIOUS
<1>2. r.term = node[i].current_term_ /\ (r.entries # <<>> => Carries(r, node[i].log_))
  BY <1>1, BuiltSent
<1>3. PICK x : x = Now(i) OBVIOUS
<1>4. x \in M /\ x.term = node[i].current_term_ /\ x.log = node[i].log_
      /\ \A z \in M : z.term = x.term => Begins(x.log, z.log)
  BY <1>3 DEF Now, LeaderLogs
<1> QED BY <1>1, <1>2, <1>4 DEF SureSent

\* A heartbeat is sent as it was built, by a node that still leads.
BeatInv == \A i \in Server : hth[i].pc = "hb_send" =>
    IsLeader(i) /\ hth[i].req = BuildAppendEntries(node[i], i, Min(hth[i].todo))

\* While a heartbeat is about to be sent only its own thread takes steps.
LEMMA BeatAlone ==
    ASSUME "hb_send" \notin Preemptible, NEW i \in Server, hth[i].pc = "hb_send", NEW t, NEW j, Turn(t, j)
    PROVE  t = "h" /\ j = i
<1>1. Holds(hth[i]) BY DEF Holds, Windows
<1>2. <<"h", i>> \in Urgent BY <1>1 DEF Urgent
<1> QED BY <1>2 DEF Turn

\* The heartbeat thread.
LEMMA HeartbeatKept ==
    ASSUME "hb_send" \notin Preemptible, TypeInv, TypeInv', ElectionInv, VoteInv, BeatInv, NEW M, MatchInv(M),
           NEW N, Extends(M, N), NEW i \in Server, HeartbeatThread(i)
    PROVE  Kept(M, N) /\ SentKept(M, N) /\ VoteInv' /\ BeatInv'
<1>1. AllUp BY DEF ElectionInv
<1>2. /\ Beats(i) \/ Sends(i) \/ Handles(i)
      /\ Turn("h", i) /\ UNCHANGED <<eth, cth, ballots>> /\ \A j \in Server : j # i => hth'[j] = hth[j]
  BY <1>1, HeartbeatMoves
<1>3. \A j \in Server : j # i => hth[j].pc # "hb_send" BY <1>2, BeatAlone
<1>4. ASSUME hth'[i].pc # "hb_send" PROVE BeatInv' BY <1>2, <1>3, <1>4 DEF BeatInv
<1>5. CASE Beats(i)
  <2>1. UNCHANGED node BY <1>5 DEF Beats
  <2>2. AllCalm BY <2>1, NoneRetires DEF AllRetire, AllCalm, Retires
  <2>3. BeatInv'
    <3>1. CASE hth'[i].pc # "hb_send" BY <1>4, <3>1
    <3>2. CASE hth'[i].pc = "hb_send"
      <4>1. IsLeader(i) /\ hth'[i].req = BuildAppendEntries(node[i], i, Min(hth'[i].todo))
        BY <1>5, <3>2 DEF Beats
      <4> SUFFICES ASSUME NEW j \in Server, hth'[j].pc = "hb_send"
                   PROVE  IsLeader(j)' /\ hth'[j].req = BuildAppendEntries(node'[j], j, Min(hth'[j].todo))
        BY DEF BeatInv
      <4>2. j = i BY <1>2, <1>3
      <4> QED BY <2>1, <4>1, <4>2 DEF IsLeader
    <3> QED BY <3>1, <3>2
  <2> QED BY <1>2, <2>2, <2>3, CalmKept
<1>6. CASE Sends(i)
  <2>1. /\ hth[i].pc = "hb_send" /\ hth'[i].pc = "hb_reply" /\ hth[i].todo \in ToCall(i)
        /\ hth[i].req \in AppendReq /\ Delivered(Min(hth[i].todo), hth[i].req, hth'[i].resp)
    BY <1>6 DEF Sends
  <2>2. Min(hth[i].todo) \in Server /\ Min(hth[i].todo) \in Peers(i) BY <2>1, NextPeer DEF Peers
  <2>3. IsLeader(i) /\ hth[i].req = BuildAppendEntries(node[i], i, Min(hth[i].todo)) BY <2>1 DEF BeatInv
  <2>4. SureSent(M, hth[i].req) BY <2>2, <2>3, BuiltSure DEF MatchInv, CoreInv
  <2>5. BeatInv' BY <1>4, <2>1
  <2> QED BY <1>2, <2>1, <2>2, <2>4, <2>5, DeliveredKept
<1>7. CASE Handles(i)
  <2>1. Only(i) /\ hth'[i].pc \in {"sleep", "build"} BY <1>7 DEF Handles
  <2>2. Calm(node[i], node'[i])
    <3>1. node[i] \in Node(i) BY DEF TypeInv, TypeOK
    <3> QED BY <1>7, <3>1, AfterReplyCalm DEF Handles, Retires
  <2>3. AllCalm BY <2>1, <2>2, OthersCalm DEF AllCalm
  <2>4. BeatInv' BY <1>4, <2>1
  <2> QED BY <1>2, <2>3, <2>4, CalmKept
<1> QED BY <1>2, <1>5, <1>6, <1>7
\* A majority can be counted for the entry.
Sure(M, k, e) == \E A \in SUBSET Server : Majority(A) /\ Guarded(M, k, e, A)

\* The request with which a proposal sends its entry is of a term its node was
\* elected in, and sends the longest log of that term; the closing heartbeat
\* carries nothing.
Proposal(M, i) ==
    /\ cth[i].pc \in {"send", "ack"} =>
         /\ Majority(Voters(cth[i].req.term, i)) /\ SureSent(M, cth[i].req)
         /\ cth[i].req.entries = <<cth[i].entry>> /\ cth[i].entry.term = cth[i].req.term
    /\ cth[i].pc \in {"notify", "notify_ack"} => cth[i].req.entries = <<>>

\* The nodes that a proposal counts, with the one that has just answered.
Counted(t) == IF t.pc = "ack" /\ t.resp.ok THEN t.acks \cup {Min(t.todo)} ELSE t.acks

\* The entry is of the leader's term, and the nodes that a proposal counts can
\* be counted for it.
Claim(M, i) ==
    /\ cth[i].pc = "gap" => cth[i].entry.term = node[i].current_term_
    /\ cth[i].pc \in {"send", "ack"} =>
         Guarded(M, cth[i].req.prev_log_index + 1, cth[i].entry, Counted(cth[i]))
    /\ cth[i].pc \in {"commit", "notify", "notify_ack"} => \E k \in Nat : Sure(M, k, cth[i].entry)

AckInv(M) == \A e \in acked : \E k \in Nat : Sure(M, k, e)

LastInv(M) == /\ VoteInv /\ BeatInv /\ AckInv(M)
              /\ \A i \in Server : Proposal(M, i) /\ Claim(M, i)

\* More tenures keep what is sure.
LEMMA SureKept ==
    ASSUME NEW M, NEW N, Kept(M, N), NEW k, NEW e \in Entry, Sure(M, k, e) PROVE Sure(N, k, e)'
<1>1. PICK A \in SUBSET Server : Majority(A) /\ Guarded(M, k, e, A) BY DEF Sure
<1>2. Guarded(N, k, e, A)' BY <1>1 DEF Kept
<1> QED BY <1>1, <1>2 DEF Sure

\* Whoever was elected stays so.
LEMMA ElectedKept ==
    ASSUME ballots \subseteq ballots', NEW t, NEW c, Majority(Voters(t, c)) PROVE Majority(Voters(t, c)')
<1>1. PICK P : P = Voters(t, c) OBVIOUS
<1>2. PICK Q : Q = Voters(t, c)' OBVIOUS
<1>3. P \in SUBSET Q /\ Q \in SUBSET Server BY <1>1, <1>2 DEF Voters
<1> QED BY <1>1, <1>2, <1>3, MajorityGrows

\* A proposal that does not move.
LEMMA ProposalRests ==
    ASSUME ballots \subseteq ballots', NEW M, NEW N, NEW j \in Server, cth'[j] = cth[j], Proposal(M, j),
           cth[j].pc \in {"send", "ack"} /\ SureSent(M, cth[j].req) => SureSent(N, cth[j].req)
    PROVE  Proposal(N, j)'
<1>1. PICK t : t = cth[j] OBVIOUS
<1>2. cth'[j] = t BY <1>1
<1>3. ASSUME t.pc \in {"send", "ack"}
      PROVE  /\ Majority(Voters(t.req.term, j))' /\ SureSent(N, t.req)
             /\ t.req.entries = <<t.entry>> /\ t.entry.term = t.req.term
  <2>1. Majority(Voters(t.req.term, j)) BY <1>1, <1>3 DEF Proposal
  <2>2. Majority(Voters(t.req.term, j))' BY <2>1, ElectedKept DEF Majority
  <2> QED BY <1>1, <1>3, <2>2 DEF Proposal
<1>4. t.pc \in {"notify", "notify_ack"} => t.req.entries = <<>> BY <1>1 DEF Proposal
<1> QED BY <1>2, <1>3, <1>4 DEF Proposal

\* Types of the client thread.
LEMMA ClientTypes ==
    ASSUME TypeInv, NEW i \in Server, cth[i].pc # "none"
    PROVE  /\ cth[i].entry \in Entry
           /\ cth[i].pc # "gap" => cth[i].req \in AppendReq /\ cth[i].acks \in SUBSET Server
           /\ cth[i].pc \in {"send", "ack"} => cth[i].todo \in ToCall(i)
           /\ cth[i].pc \in {"gap", "send", "ack", "commit", "notify", "notify_ack"}
  BY DEF TypeInv, TypeOK, ClientThreadState, NoCall

\* The same.
LEMMA ClaimRests ==
    ASSUME TypeInv, NEW M, NEW N, Kept(M, N), NEW j \in Server, cth'[j] = cth[j], Claim(M, j),
           cth[j].pc # "gap" \/ UNCHANGED node
    PROVE  Claim(N, j)'
<1>1. PICK t : t = cth[j] OBVIOUS
<1>2. cth'[j] = t BY <1>1
<1>3. t.pc = "gap" => t.entry.term = node'[j].current_term_ BY <1>1 DEF Claim
<1>4. ASSUME t.pc \in {"send", "ack"}
      PROVE  Guarded(N, t.req.prev_log_index + 1, t.entry, Counted(t))'
  <2>1. t.entry \in Entry /\ Counted(t) \in SUBSET Server
    BY <1>1, <1>4, ClientTypes, NextPeer DEF Counted
  <2>2. Guarded(M, t.req.prev_log_index + 1, t.entry, Counted(t)) BY <1>1, <1>4 DEF Claim
  <2>3. PICK A : A = Counted(t) OBVIOUS
  <2>4. Guarded(N, t.req.prev_log_index + 1, t.entry, A)' BY <2>1, <2>2, <2>3 DEF Kept
  <2> QED BY <2>3, <2>4
<1>5. ASSUME t.pc \in {"commit", "notify", "notify_ack"} PROVE \E k \in Nat : Sure(N, k, t.entry)'
  BY <1>1, <1>5, ClientTypes, SureKept DEF Claim
<1> QED BY <1>2, <1>3, <1>4, <1>5 DEF Claim

\* A step in which no proposal moves.
LEMMA ProposalsRest ==
    ASSUME TypeInv, TypeInv', NEW M, NEW N, Kept(M, N), SentKept(M, N), ballots \subseteq ballots',
           LastInv(M), VoteInv', BeatInv', UNCHANGED <<cth, acked>>,
           (\A j \in Server : cth[j].pc # "gap") \/ UNCHANGED node
    PROVE  LastInv(N)'
<1>1. AckInv(N)'
  <2>1. acked \subseteq Entry BY DEF TypeInv, TypeOK
  <2> QED BY <2>1, SureKept DEF AckInv, LastInv
<1>2. \A j \in Server : Proposal(N, j)'
  BY ProposalRests DEF LastInv, SentKept
<1>3. \A j \in Server : Claim(N, j)'
  BY ClaimRests DEF LastInv
<1> QED BY <1>1, <1>2, <1>3 DEF LastInv
\* GuardedGrows as a formula, to be used of the state after a step.
Growing == \A M : \A k : \A e \in Entry : \A A \in SUBSET Server : \A p \in Server :
    /\ TypeInv /\ ElectionInv /\ Guarded(M, k, e, A)
    /\ node[p].current_term_ = e.term /\ Has(node[p].log_, k, e)
    => Guarded(M, k, e, A \cup {p})

\* GuardedGrows holds in every state,
LEMMA GrowingHolds == Growing
  BY GuardedGrows DEF Growing

\* hence after every step.
LEMMA GrowingNext == Growing'
  BY GrowingHolds, PTL

\* A single node is a majority of itself.
LEMMA AloneMajority ==
    ASSUME NEW i \in Server, Peers(i) = {} PROVE Majority({i})
<1>1. Server = {i} BY DEF Peers
<1>2. Cardinality(Server) = 1 BY <1>1, FS_Singleton
<1> QED BY <1>1, <1>2 DEF Majority

\* A peer accepts the entry of a proposal: it can be counted.
LEMMA AcceptedCounts ==
    ASSUME TypeInv, TypeInv', ElectionInv', NEW M, CoreInv(M), NEW N, NEW p \in Server, NEW req \in AppendReq,
           NEW e \in Entry, req.entries = <<e>>, e.term = req.term, Carried(M, req),
           Accepts(node[p], req, node'[p]), NEW A \in SUBSET Server, Guarded(N, req.prev_log_index + 1, e, A)'
    PROVE  Guarded(N, req.prev_log_index + 1, e, A \cup {p})'
<1>1. req.entries # <<>> /\ Len(req.entries) = 1 /\ req.entries[1] = e OBVIOUS
<1>2. PICK x \in M : x.term = req.term /\ Carries(req, x.log) BY <1>1 DEF Carried
<1>3. node'[p].log_ = x.log BY <1>1, <1>2, TakenWhole DEF Accepts
<1>4. req.prev_log_index \in Nat BY DEF AppendReq
<1>5. Has(x.log, req.prev_log_index + 1, e)
  BY <1>1, <1>2, <1>4 DEF Has, Carries
<1>6. node'[p].current_term_ = e.term BY DEF Accepts
<1>7. Has(node'[p].log_, req.prev_log_index + 1, e) BY <1>3, <1>5
<1> QED BY <1>6, <1>7, GrowingNext DEF Growing

\* The client thread.
LEMMA ClientLast ==
    ASSUME "gap" \notin Preemptible, "hb_send" \notin Preemptible, TypeInv, TypeInv', ElectionInv, ElectionInv',
           NEW M, MatchInv(M), LastInv(M), NEW N, Extends(M, N), NEW i \in Server, ClientThread(i)
    PROVE  LastInv(N)' /\ Kept(M, N)
<1>1. AllUp /\ LeaderElected BY DEF ElectionInv
<1>2. /\ ClientEffect(i) /\ Turn("c", i) /\ UNCHANGED <<eth, hth, ballots>>
      /\ \A j \in Server : j # i => cth'[j] = cth[j]
  BY <1>1, ClientMoves
<1>3. BeatInv'
  <2>1. \A j \in Server : hth[j].pc # "hb_send" BY <1>2, BeatAlone
  <2> QED BY <1>2, <2>1 DEF BeatInv
<1>4. \A j \in Server : j # i => cth[j].pc # "gap" BY <1>2, GapAlone
<1>5. CoreInv(M) /\ LeaderLogs(M) /\ VoteInv /\ Proposal(M, i) /\ Claim(M, i) /\ GapInv
  BY DEF MatchInv, CoreInv, LastInv
<1>6. ASSUME Kept(M, N), VoteInv', Proposal(N, i)', Claim(N, i)',
             acked' \subseteq acked \cup {cth[i].entry},
             acked' # acked => cth[i].pc = "notify",
             \A j \in Server : j # i /\ cth[j].pc \in {"send", "ack"} /\ SureSent(M, cth[j].req)
                                 => SureSent(N, cth[j].req)
      PROVE  LastInv(N)' /\ Kept(M, N)
  <2>1. ASSUME NEW e \in acked' PROVE \E k \in Nat : Sure(N, k, e)'
    <3>1. e \in Entry BY DEF TypeInv, TypeOK
    <3>2. \E k \in Nat : Sure(M, k, e)
      <4>1. CASE e \in acked BY <4>1 DEF LastInv, AckInv
      <4>2. CASE e \notin acked
        <5>1. e = cth[i].entry /\ cth[i].pc = "notify" BY <1>6, <2>1, <4>2
        <5> QED BY <1>5, <5>1 DEF Claim
      <4> QED BY <4>1, <4>2
    <3> QED BY <1>6, <3>1, <3>2, SureKept
  <2>2. \A j \in Server : j # i => Proposal(N, j)'
    BY <1>2, <1>6, ProposalRests DEF LastInv
  <2>3. \A j \in Server : j # i => Claim(N, j)'
    BY <1>2, <1>4, <1>6, ClaimRests DEF LastInv
  <2>4. \A j \in Server : Proposal(N, j)' /\ Claim(N, j)' BY <1>6, <2>2, <2>3
  <2> QED BY <1>3, <1>6, <2>1, <2>4 DEF LastInv, AckInv
<1>7. ASSUME AllCalm PROVE Kept(M, N) /\ SentKept(M, N) /\ VoteInv'
  BY <1>2, <1>5, <1>7, CalmKept
<1>8. UNCHANGED node => AllCalm BY NoneRetires DEF AllRetire, AllCalm, Retires
<1>9. ASSUME Kept(M, N), SentKept(M, N), VoteInv', Proposal(N, i)', Claim(N, i)', UNCHANGED acked PROVE LastInv(N)' /\ Kept(M, N)
  BY <1>6, <1>9 DEF SentKept
<1>10. ASSUME NEW e \in Entry, Appends(i, e) PROVE LastInv(N)' /\ Kept(M, N)
  <2>1. N = M \cup {Now(i)'} BY <1>5, <1>10, OneExtends DEF Appends
  <2>2. Kept(M, N) BY <1>2, <1>5, <1>10, <2>1, GuardedAppends DEF Kept
  <2>3. /\ node'[i].role_ = "Leader" /\ node'[i].current_term_ = node[i].current_term_ /\ IsLeader(i) /\ Only(i)
        /\ cth[i].pc = "none" /\ cth'[i].pc = "gap" /\ cth'[i].entry = e /\ e.term = node[i].current_term_
        /\ UNCHANGED acked
    BY <1>10 DEF Appends
  <2>4. VoteInv'
    <3>1. \A j \in Server : node[j].current_term_ \in Nat BY DEF TypeInv, TypeOK, Node
    <3>2. \A j \in Server : node'[j].current_term_ = node[j].current_term_ BY <2>3 DEF Only
    <3>3. \A j \in Server : node'[j].role_ = "Candidate" => node'[j] = node[j] BY <2>3 DEF Only
    <3>4. CandidatesKept BY <3>1, <3>2, <3>3 DEF CandidatesKept
    <3> QED BY <1>2, <1>5, <3>4, AskingSame, VoteInvKept
  <2>5. ASSUME NEW j \in Server, j # i, cth[j].pc \in {"send", "ack"}, SureSent(M, cth[j].req)
        PROVE  SureSent(N, cth[j].req)
    <3>1. PICK r : r = cth[j].req OBVIOUS
    <3>2. r \in AppendReq /\ r.term \in Nat BY <2>5, <3>1, ClientTypes DEF AppendReq
    <3>3. Majority(Voters(r.term, j)) BY <2>5, <3>1 DEF LastInv, Proposal
    <3>4. r.term # node[i].current_term_
      <4>1. Majority(Voters(node[i].current_term_, i)) BY <1>1, <2>3 DEF LeaderElected
      <4> QED BY <2>5, <3>2, <3>3, <4>1, OneElected
    <3>5. SUFFICES ASSUME r.entries # <<>> PROVE SureSent(N, r) BY <3>1 DEF SureSent
    <3>6. PICK x \in M : /\ x.term = r.term /\ Carries(r, x.log)
                         /\ \A z \in M : z.term = x.term => Begins(x.log, z.log)
      BY <2>5, <3>1, <3>5 DEF SureSent
    <3>7. \A z \in N : z.term = x.term => Begins(x.log, z.log)
      <4>1. Now(i)'.term = node[i].current_term_ BY <2>3 DEF Now
      <4> QED BY <2>1, <3>4, <3>6, <4>1
    <3> QED BY <2>1, <3>6, <3>7 DEF SureSent
  <2>6. Proposal(N, i)' BY <2>3 DEF Proposal
  <2>7. Claim(N, i)' BY <2>3 DEF Claim
  <2> QED BY <1>6, <2>2, <2>3, <2>4, <2>5, <2>6, <2>7
<1>11. CASE Reads(i)
  <2>1. /\ cth[i].pc = "gap" /\ UNCHANGED <<node, acked>>
        /\ cth'[i].pc = IF Peers(i) = {} THEN "commit" ELSE "send"
        /\ cth'[i].entry = cth[i].entry /\ cth'[i].acks = {i}
        /\ cth'[i].req = AppendEntriesReq(node[i].current_term_, i, LastLogIndex(node[i]) - 1,
                              TermAt(node[i], LastLogIndex(node[i]) - 1), <<cth[i].entry>>, 0)
    BY <1>11 DEF Reads
  <2>2. PICK e \in Entry : e = cth[i].entry BY <2>1, ClientTypes
  <2>3. /\ IsLeader(i) /\ Len(node[i].log_) > 0 /\ node[i].log_[Len(node[i].log_)] = e
        /\ e.term = node[i].current_term_
    BY <1>5, <2>1, <2>2 DEF GapInv, Claim
  <2>4. PICK r : r = cth'[i].req OBVIOUS
  <2>5. r.term = node[i].current_term_ /\ Now(i) \in M /\ Carries(r, node[i].log_)
    BY <1>5, <2>1, <2>2, <2>3, <2>4, ReadCarried
  <2>6. r.prev_log_index = Len(node[i].log_) - 1 /\ r.entries = <<e>>
    BY <2>1, <2>2, <2>4 DEF AppendEntriesReq, LastLogIndex
  <2>7. PICK k : k = Len(node[i].log_) OBVIOUS
  <2>8. k \in Nat /\ k > 0 /\ r.prev_log_index + 1 = k
    <3>1. node[i].log_ \in Seq(Entry) BY DEF TypeInv, TypeOK, Node
    <3>2. Len(node[i].log_) \in Nat BY <3>1
    <3> QED BY <2>3, <2>6, <2>7, <3>2
  <2>9. Has(node[i].log_, k, e) BY <2>3, <2>7, <2>8 DEF Has
  <2>10. Guarded(M, k, e, {i}) BY <1>5, <2>3, <2>9, GuardedNew
  <2>11. Kept(M, N) /\ SentKept(M, N) /\ VoteInv' BY <1>7, <1>8, <2>1
  <2>12. Guarded(N, k, e, {i})' BY <2>10, <2>11 DEF Kept
  <2>13. Proposal(N, i)'
    <3>1. SureSent(M, r)
      <4>1. Now(i).term = r.term /\ Now(i).log = node[i].log_ BY <2>5 DEF Now
      <4>2. \A z \in M : z.term = r.term => Begins(node[i].log_, z.log) BY <1>5, <2>3, <2>5 DEF LeaderLogs
      <4> QED BY <2>5, <4>1, <4>2 DEF SureSent
    <3>2. SureSent(N, r) BY <2>11, <3>1 DEF SentKept
    <3>3. Majority(Voters(r.term, i)) BY <1>1, <2>3, <2>5 DEF LeaderElected
    <3>4. Majority(Voters(r.term, i))' BY <1>2, <3>3 DEF Voters, Majority
    <3>5. r.entries = <<e>> /\ e.term = r.term /\ cth'[i].pc \in {"send", "commit"} BY <2>1, <2>3, <2>5, <2>6
    <3> QED BY <2>1, <2>2, <2>4, <3>2, <3>4, <3>5 DEF Proposal
  <2>14. Claim(N, i)'
    <3>1. CASE Peers(i) = {}
      <4>1. Majority({i}) BY <3>1, AloneMajority
      <4>2. Sure(N, k, e)' BY <2>12, <4>1 DEF Sure
      <4> QED BY <2>1, <2>2, <2>8, <3>1, <4>2 DEF Claim
    <3>2. CASE Peers(i) # {}
      <4>1. cth'[i].pc = "send" BY <2>1, <3>2
      <4>2. Counted(cth'[i]) = {i} BY <2>1, <4>1 DEF Counted
      <4> QED BY <2>1, <2>2, <2>4, <2>8, <2>12, <4>1, <4>2 DEF Claim
    <3> QED BY <3>1, <3>2
  <2> QED BY <1>9, <2>1, <2>11, <2>13, <2>14
<1>12. CASE Calls(i, "send", "ack")
  <2>1. /\ cth[i].pc = "send" /\ cth'[i].pc = "ack" /\ UNCHANGED acked /\ cth[i].todo \in ToCall(i)
        /\ cth[i].req \in AppendReq /\ cth'[i].todo = cth[i].todo /\ cth'[i].entry = cth[i].entry
        /\ cth'[i].req = cth[i].req /\ cth'[i].acks = cth[i].acks
        /\ Delivered(Min(cth[i].todo), cth[i].req, cth'[i].resp)
    BY <1>12 DEF Calls
  <2>2. PICK p \in Server : p = Min(cth[i].todo) BY <2>1, NextPeer
  <2>3. PICK r \in AppendReq : r = cth[i].req BY <2>1
  <2>4. PICK e \in Entry : e = cth[i].entry BY <2>1, ClientTypes
  <2>5. PICK A \in SUBSET Server : A = cth[i].acks BY <2>1, ClientTypes
  <2>6. Majority(Voters(r.term, i)) /\ SureSent(M, r) /\ r.entries = <<e>> /\ e.term = r.term
    BY <1>5, <2>1, <2>3, <2>4 DEF Proposal
  <2>7. Delivered(p, r, cth'[i].resp) BY <2>1, <2>2, <2>3
  <2>8. Kept(M, N) /\ SentKept(M, N) /\ VoteInv' BY <1>2, <1>5, <2>6, <2>7, DeliveredKept
  <2>9. Guarded(M, r.prev_log_index + 1, e, A)
    BY <1>5, <2>1, <2>3, <2>4, <2>5 DEF Claim, Counted
  <2>10. Guarded(N, r.prev_log_index + 1, e, A)' BY <2>8, <2>9 DEF Kept
  <2>11. Proposal(N, i)'
    <3>1. Majority(Voters(r.term, i))' BY <1>2, <2>6 DEF Voters, Majority
    <3>2. SureSent(N, r) BY <2>6, <2>8 DEF SentKept
    <3> QED BY <2>1, <2>3, <2>4, <2>6, <3>1, <3>2 DEF Proposal
  <2>12. Claim(N, i)'
    <3>1. CASE cth'[i].resp.ok
      <4>1. Accepts(node[p], r, node'[p]) BY <2>7, <3>1 DEF Delivered
      <4>2. Carried(M, r) BY <2>6 DEF SureSent, Carried
      <4>3. Guarded(N, r.prev_log_index + 1, e, A \cup {p})'
        BY <1>5, <2>6, <2>10, <4>1, <4>2, AcceptedCounts
      <4>4. Counted(cth'[i]) = A \cup {p} BY <2>1, <2>2, <2>5, <3>1 DEF Counted
      <4> QED BY <2>1, <2>3, <2>4, <4>3, <4>4 DEF Claim
    <3>2. CASE ~cth'[i].resp.ok
      <4>1. Counted(cth'[i]) = A BY <2>1, <2>5, <3>2 DEF Counted
      <4> QED BY <2>1, <2>3, <2>4, <2>10, <4>1 DEF Claim
    <3> QED BY <3>1, <3>2
  <2> QED BY <1>9, <2>1, <2>8, <2>11, <2>12
<1>13. CASE Counts(i)
  <2>1. /\ cth[i].pc = "ack" /\ AllRetire /\ UNCHANGED acked
        /\ \/ cth'[i].pc = "none"
           \/ /\ cth'[i].pc = IF Majority(Counted(cth[i])) THEN "commit" ELSE "send"
              /\ cth'[i].entry = cth[i].entry /\ cth'[i].req = cth[i].req /\ cth'[i].acks = Counted(cth[i])
    BY <1>13 DEF Counts, Counted
  <2>2. AllCalm BY <2>1 DEF AllRetire, AllCalm, Retires
  <2>3. Kept(M, N) /\ SentKept(M, N) /\ VoteInv' BY <1>7, <2>2
  <2>4. PICK e \in Entry : e = cth[i].entry BY <2>1, ClientTypes
  <2>5. PICK r \in AppendReq : r = cth[i].req BY <2>1, ClientTypes
  <2>6. PICK A \in SUBSET Server : A = Counted(cth[i]) BY <2>1, ClientTypes, NextPeer DEF Counted
  <2>7. Guarded(M, r.prev_log_index + 1, e, A) BY <1>5, <2>1, <2>4, <2>5, <2>6 DEF Claim
  <2>8. Guarded(N, r.prev_log_index + 1, e, A)' BY <2>3, <2>7 DEF Kept
  <2>9. Proposal(N, i)'
    <3>1. Majority(Voters(r.term, i)) /\ SureSent(M, r) /\ r.entries = <<e>> /\ e.term = r.term
      BY <1>5, <2>1, <2>4, <2>5 DEF Proposal
    <3>2. Majority(Voters(r.term, i))' BY <1>2, <3>1 DEF Voters, Majority
    <3>3. SureSent(N, r) BY <2>3, <3>1 DEF SentKept
    <3>4. cth'[i].pc \in {"none", "commit"} \/ (cth'[i].pc = "send" /\ cth'[i].req = r /\ cth'[i].entry = e)
      BY <2>1, <2>4, <2>5
    <3> QED BY <3>1, <3>2, <3>3, <3>4 DEF Proposal
  <2>10. Claim(N, i)'
    <3>1. CASE cth'[i].pc = "none" BY <3>1 DEF Claim
    <3>2. CASE cth'[i].pc = "commit" /\ Majority(A) /\ cth'[i].entry = e
      <4>1. Sure(N, r.prev_log_index + 1, e)' BY <2>8, <3>2 DEF Sure
      <4>2. r.prev_log_index + 1 \in Nat BY DEF AppendReq
      <4> QED BY <3>2, <4>1, <4>2 DEF Claim
    <3>3. CASE cth'[i].pc = "send" /\ cth'[i].entry = e /\ cth'[i].req = r /\ cth'[i].acks = A
      <4>1. Counted(cth'[i]) = A BY <3>3 DEF Counted
      <4> QED BY <2>8, <3>3, <4>1 DEF Claim
    <3> QED BY <2>1, <2>4, <2>5, <2>6, <3>1, <3>2, <3>3
  <2> QED BY <1>9, <2>1, <2>3, <2>9, <2>10
<1>14. ASSUME cth[i].pc \in {"commit", "notify", "notify_ack"}, cth'[i].pc \in {"notify", "notify_ack"},
              cth'[i].entry = cth[i].entry, cth'[i].req.entries = <<>>, Kept(M, N)
       PROVE  Proposal(N, i)' /\ Claim(N, i)'
  <2>1. Proposal(N, i)' BY <1>14 DEF Proposal
  <2>2. PICK e \in Entry : e = cth[i].entry BY <1>14, ClientTypes
  <2>3. \E k \in Nat : Sure(M, k, e) BY <1>5, <1>14, <2>2 DEF Claim
  <2>4. \E k \in Nat : Sure(N, k, e)' BY <1>14, <2>3, SureKept
  <2> QED BY <1>14, <2>1, <2>2, <2>4 DEF Claim
<1>15. CASE Closes(i)
  <2>1. /\ cth[i].pc = "commit" /\ UNCHANGED <<node, acked>> /\ cth'[i].pc = "notify"
        /\ cth'[i].entry = cth[i].entry /\ cth'[i].req.entries = <<>>
    BY <1>15 DEF Closes, AppendEntriesReq
  <2>2. Kept(M, N) /\ SentKept(M, N) /\ VoteInv' BY <1>7, <1>8, <2>1
  <2> QED BY <1>9, <1>14, <2>1, <2>2
<1>16. CASE Calls(i, "notify", "notify_ack")
  <2>1. /\ cth[i].pc = "notify" /\ cth'[i].pc = "notify_ack" /\ UNCHANGED acked /\ cth[i].todo \in ToCall(i)
        /\ cth[i].req \in AppendReq /\ cth'[i].entry = cth[i].entry /\ cth'[i].req = cth[i].req
        /\ Delivered(Min(cth[i].todo), cth[i].req, cth'[i].resp)
    BY <1>16 DEF Calls
  <2>2. cth[i].req.entries = <<>> BY <1>5, <2>1 DEF Proposal
  <2>3. SureSent(M, cth[i].req) BY <2>2 DEF SureSent
  <2>4. Min(cth[i].todo) \in Server BY <2>1, NextPeer
  <2>5. Kept(M, N) /\ SentKept(M, N) /\ VoteInv' BY <1>2, <1>5, <2>1, <2>3, <2>4, DeliveredKept
  <2> QED BY <1>9, <1>14, <2>1, <2>2, <2>5
<1>17. CASE GoesOn(i)
  <2>1. /\ cth[i].pc = "notify_ack" /\ cth'[i].pc = "notify" /\ UNCHANGED acked /\ AllRetire
        /\ cth'[i].entry = cth[i].entry /\ cth'[i].req = cth[i].req
    BY <1>17 DEF GoesOn
  <2>2. AllCalm BY <2>1 DEF AllRetire, AllCalm, Retires
  <2>3. cth[i].req.entries = <<>> BY <1>5, <2>1 DEF Proposal
  <2> QED BY <1>7, <1>9, <1>14, <2>1, <2>2, <2>3
<1>18. CASE Returns(i)
  <2>1. /\ cth[i].pc = "notify" /\ cth'[i].pc = "none" /\ UNCHANGED node
        /\ acked' = acked \cup {cth[i].entry}
    BY <1>18 DEF Returns
  <2>2. Kept(M, N) /\ SentKept(M, N) /\ VoteInv' BY <1>7, <1>8, <2>1
  <2>3. Proposal(N, i)' /\ Claim(N, i)' BY <2>1 DEF Proposal, Claim
  <2> QED BY <1>6, <2>1, <2>2, <2>3 DEF SentKept
<1> QED BY <1>2, <1>10, <1>11, <1>12, <1>13, <1>15, <1>16, <1>17, <1>18 DEF ClientEffect
\* Every step.
LEMMA LastNext ==
    ASSUME "gap" \notin Preemptible, "hb_send" \notin Preemptible, TypeInv, TypeInv', ElectionInv, ElectionInv',
           [Next]_vars, NEW M, MatchInv(M), LastInv(M), NEW N, Extends(M, N)
    PROVE  LastInv(N)' /\ Kept(M, N)
<1>1. VoteInv /\ BeatInv /\ AllUp BY DEF LastInv, ElectionInv
<1>2. ASSUME NEW i \in Server, ElectionThread(i) PROVE LastInv(N)' /\ Kept(M, N)
  <2>1. Turn("e", i) /\ UNCHANGED <<hth, cth, acked>> BY <1>1, <1>2, ElectionMoves
  <2>2. \A j \in Server : cth[j].pc # "gap" /\ hth[j].pc # "hb_send" BY <2>1, GapAlone, BeatAlone
  <2>3. BeatInv' BY <2>1, <2>2 DEF BeatInv
  <2> QED BY <1>1, <1>2, <2>1, <2>2, <2>3, ElectionKept, ProposalsRest
<1>3. ASSUME NEW i \in Server, HeartbeatThread(i) PROVE LastInv(N)' /\ Kept(M, N)
  <2>1. Turn("h", i) /\ UNCHANGED <<cth, acked, ballots>> BY <1>1, <1>3, HeartbeatMoves
  <2>2. \A j \in Server : cth[j].pc # "gap" BY <2>1, GapAlone
  <2> QED BY <1>1, <1>3, <2>1, <2>2, HeartbeatKept, ProposalsRest
<1>4. ASSUME NEW i \in Server, Apply(i) PROVE LastInv(N)' /\ Kept(M, N)
  <2>1. Applies(i) /\ Urgent = {} /\ UNCHANGED <<eth, hth, cth, ballots, acked>> BY <1>4, ApplyMoves
  <2>2. Turn("e", i) BY <2>1 DEF Turn
  <2>3. \A j \in Server : cth[j].pc # "gap" /\ hth[j].pc # "hb_send" BY <2>2, GapAlone, BeatAlone
  <2>4. AllCalm BY <2>1, OthersCalm DEF Applies, AllCalm
  <2>5. BeatInv' BY <2>1, <2>3 DEF BeatInv
  <2> QED BY <1>1, <2>1, <2>3, <2>4, <2>5, CalmKept, ProposalsRest
<1>5. CASE UNCHANGED <<node, eth, hth, cth, ballots, applied, acked>>
  <2>1. AllCalm BY <1>5, NoneRetires DEF AllRetire, AllCalm, Retires
  <2>2. BeatInv' BY <1>1, <1>5 DEF BeatInv, IsLeader
  <2> QED BY <1>1, <1>5, <2>1, <2>2, CalmKept, ProposalsRest
<1> QED BY <1>2, <1>3, <1>4, <1>5, NextSteps, ClientLast

\* Nobody asks, sends or has proposed anything.
LEMMA LastInit == Init => LastInv(Before)
<1> SUFFICES ASSUME Init PROVE LastInv(Before) OBVIOUS
<1>1. /\ \A j \in Server : eth[j].pc = "sleep" /\ hth[j].pc = "sleep" /\ cth[j].pc = "none"
      /\ acked = {} /\ ballots = {}
  BY DEF Init, Asleep, NoCall
<1>2. VoteInv BY <1>1 DEF VoteInv, AskInv, BallotTerms
<1>3. BeatInv /\ AckInv(Before) BY <1>1 DEF BeatInv, AckInv
<1>4. \A i \in Server : Proposal(Before, i) /\ Claim(Before, i) BY <1>1 DEF Proposal, Claim
<1> QED BY <1>2, <1>3, <1>4 DEF LastInv

\* What a majority can be counted for is in the log of every later leader.
LEMMA SureLeader ==
    ASSUME TypeInv, NEW M, LeaderLogs(M), NEW k, NEW e \in Entry, Sure(M, k, e),
           NEW i \in Server, IsLeader(i), node[i].current_term_ > e.term
    PROVE  Has(node[i].log_, k, e)
<1>1. PICK A \in SUBSET Server : Majority(A) /\ Guarded(M, k, e, A) BY DEF Sure
<1>2. LaterHave(M, k, e) BY <1>1, MajorityFirm DEF Firm
<1>3. PICK x : x = [term |-> node[i].current_term_, log |-> node[i].log_] OBVIOUS
<1>4. x \in M /\ x.term = node[i].current_term_ /\ x.log = node[i].log_ BY <1>3 DEF LeaderLogs
<1> QED BY <1>2, <1>4 DEF LaterHave

\* A majority can be counted for what was acknowledged.
LEMMA AckedSafe == ASSUME TypeInv, NEW M, MatchInv(M), LastInv(M) PROVE AckedSurvives
<1> SUFFICES ASSUME NEW e \in acked, NEW i \in Server, IsLeader(i), node[i].current_term_ > e.term
             PROVE  e \in Entries(i)
  BY DEF AckedSurvives
<1>1. e \in Entry BY DEF TypeInv, TypeOK
<1>2. PICK k \in Nat : Sure(M, k, e) BY DEF LastInv, AckInv
<1>3. Has(node[i].log_, k, e) BY <1>1, <1>2, SureLeader DEF MatchInv, CoreInv
<1>4. node[i].log_ \in Seq(Entry) BY DEF TypeInv, TypeOK, Node
<1> QED BY <1>3, <1>4 DEF Has, Entries

\* An operation that ProposePut or ProposeDel answered true for is in the log of
\* every leader of a later term: for any number of nodes, operations and
\* elections, as long as nobody restarts, no thread runs between the append of
\* a proposal and the reading of its position, and none between the building of
\* a heartbeat and its sending.  The first forgets its vote, the second may
\* build a request in a term the node does not lead, and the last sends an old
\* log that cuts off what was acknowledged since, because OnAppendEntries
\* truncates without a conflict.
THEOREM AckedInLaterLogs ==
    ASSUME MaxStops = 0, "gap" \notin Preemptible, "hb_send" \notin Preemptible
    PROVE  Spec => []AckedSurvives
<1> DEFINE Inv == Unstopped /\ \E M : MatchInv(M) /\ LastInv(M)
<1>1. Init => Inv
  BY UnstoppedInit, MatchInit, LastInit
<1>2. Inv /\ [Next]_vars => Inv'
  <2> SUFFICES ASSUME Inv, [Next]_vars PROVE Inv'
    OBVIOUS
  <2>1. Unstopped' BY UnstoppedNext
  <2>2. PICK M : MatchInv(M) /\ LastInv(M) OBVIOUS
  <2>3. PICK N : Extends(M, N) BY DEF Extends
  <2>4. MatchInv(N)' /\ LastInv(N)' BY <2>1, <2>2, <2>3, MatchNext, LastNext DEF Unstopped
  <2> QED BY <2>1, <2>4
<1>3. Inv => AckedSurvives BY AckedSafe DEF Unstopped
<1> QED BY <1>1, <1>2, <1>3, PTL DEF Spec
-----------------------------------------------------------------------------
(* What leaders take for committed.                                         *)

\* The nodes that leader i with fields n counts for position k.
MatchedBy(n, i, k) == {i} \cup {p \in Peers(i) : n.match_index_[p] >= k}

\* The position that MajorityMatch picks is stored by a majority, as far as the
\* leader knows.  With an even number of nodes half of them would be enough.
LEMMA MajorityMatched ==
    ASSUME Cardinality(Server) % 2 = 1, NEW i \in Server, NEW n \in Node(i)
    PROVE  Majority(MatchedBy(n, i, MajorityMatch(n, i)))
<1> DEFINE match(j) == IF j = i THEN LastLogIndex(n) ELSE n.match_index_[j]
           size == Cardinality(Server)
           above(v) == {l \in Server : match(l) >= v}
           K == {k \in Server : Cardinality(above(match(k))) >= size - size \div 2}
           S == {match(j) : j \in K}
           T == {match(j) : j \in Server}
<1>1. \A j \in Server : match(j) \in Nat
  BY DEF LastLogIndex, Node, Peers
<1>2. IsFiniteSet(Server) /\ size \in Nat /\ Server # {}
  BY RaftAssumption, FS_CardinalityType
<1> HIDE DEF match
<1>3. PICK k \in Server : \A l \in Server : match(k) <= match(l)
  <2>1. T \in SUBSET Nat /\ T # {} BY <1>1, <1>2
  <2>2. PICK x \in T : \A y \in T : x <= y
    <3> HIDE DEF T
    <3> QED BY <2>1, LeastExists
  <2> QED BY <2>2
<1>4. above(match(k)) = Server BY <1>1, <1>3
<1>5. k \in K
  <2>1. size >= size - size \div 2 BY <1>2
  <2>2. Cardinality(above(match(k))) = size BY <1>4
  <2> HIDE DEF above
  <2> QED BY <2>1, <2>2
<1>6. S \in SUBSET Nat /\ S # {} BY <1>1, <1>5
<1>7. IsFiniteSet(S)
  <2>1. K \in SUBSET Server OBVIOUS
  <2>2. IsFiniteSet(K)
    <3> HIDE DEF K
    <3> QED BY <1>2, <2>1, FS_Subset
  <2> DEFINE f == [j \in K |-> match(j)]
  <2>3. f \in Surjection(K, S)
    <3> HIDE DEF K
    <3> QED BY DEF Surjection
  <2> HIDE DEF f, K, S
  <2> QED BY <2>2, <2>3, FS_Surjection
<1>8. Max(S) \in S
  <2> HIDE DEF S
  <2> QED BY <1>6, <1>7, MaxIsGreatest
<1>9. PICK j \in K : Max(S) = match(j) BY <1>8
<1>10. MajorityMatch(n, i) = Max(S)
  BY DEF MajorityMatch, match
<1>11. PICK B : B = above(match(j)) OBVIOUS
<1>12. B \in SUBSET Server /\ Cardinality(B) >= size - size \div 2 BY <1>9, <1>11
<1>13. Majority(B) BY <1>2, <1>12 DEF Majority
<1>14. B \in SUBSET MatchedBy(n, i, match(j)) /\ MatchedBy(n, i, match(j)) \in SUBSET Server
  BY <1>11 DEF MatchedBy, match, Peers
<1>15. Majority(MatchedBy(n, i, match(j))) BY <1>13, <1>14, MajorityGrows
<1> QED BY <1>9, <1>10, <1>15

\* A node that leads after a step led before, with the same log and the same
\* knowledge of its peers.
LeadKept(j) == node'[j].role_ = "Leader" =>
    /\ node[j].role_ = "Leader" /\ node'[j].current_term_ = node[j].current_term_
    /\ node'[j].log_ = node[j].log_ /\ node'[j].match_index_ = node[j].match_index_

\* What a leader knows of its peers does not exceed its log, and the nodes it
\* counts for an entry of its term can be counted.
LeadClaim(M, i) == IsLeader(i) =>
    /\ \A p \in Peers(i) : node[i].match_index_[p] <= Len(node[i].log_)
    /\ \A k \in Nat : \A e \in Entry : \A A \in SUBSET Server :
         /\ Has(node[i].log_, k, e) /\ e.term = node[i].current_term_ /\ A = MatchedBy(node[i], i, k)
         => Guarded(M, k, e, A)

\* A leader that goes on.
LEMMA LeadRests ==
    ASSUME TypeInv, NEW M, NEW N, Kept(M, N), NEW j \in Server, LeadClaim(M, j), LeadKept(j)
    PROVE  LeadClaim(N, j)'
<1>1. CASE node'[j].role_ # "Leader" BY <1>1 DEF LeadClaim, IsLeader
<1>2. CASE node'[j].role_ = "Leader"
  <2>1. /\ IsLeader(j) /\ node'[j].current_term_ = node[j].current_term_
        /\ node'[j].log_ = node[j].log_ /\ node'[j].match_index_ = node[j].match_index_
    BY <1>2 DEF LeadKept, IsLeader
  <2>2. \A p \in Peers(j) : node'[j].match_index_[p] <= Len(node'[j].log_) BY <2>1 DEF LeadClaim
  <2>3. ASSUME NEW k \in Nat, NEW e \in Entry, NEW A \in SUBSET Server,
               Has(node'[j].log_, k, e), e.term = node'[j].current_term_, A = MatchedBy(node'[j], j, k)
        PROVE  Guarded(N, k, e, A)'
    <3>1. A = MatchedBy(node[j], j, k) BY <2>1, <2>3 DEF MatchedBy
    <3>2. Guarded(M, k, e, A) BY <2>1, <2>3, <3>1 DEF LeadClaim
    <3> QED BY <3>2 DEF Kept
  <2> QED BY <2>2, <2>3 DEF LeadClaim
<1> QED BY <1>1, <1>2
\* A new leader has no entry of its term yet.
LEMMA LeadWins ==
    ASSUME TypeInv, TypeInv', NEW M, CoreInv(M), NEW i \in Server, Wins(i),
           \A x \in M : x.term # node[i].current_term_, NEW N
    PROVE  LeadClaim(N, i)'
<1>1. /\ node'[i].current_term_ = node[i].current_term_ /\ node'[i].log_ = node[i].log_
      /\ \A p \in Peers(i) : node'[i].match_index_[p] = 0
  BY DEF Wins
<1>2. node[i].log_ \in Seq(Entry) BY DEF TypeInv, TypeOK, Node
<1>3. \A p \in Peers(i) : node'[i].match_index_[p] <= Len(node'[i].log_) BY <1>1, <1>2
<1>4. ASSUME NEW k, NEW e, Has(node[i].log_, k, e), e.term = node[i].current_term_ PROVE FALSE
  <2>1. PICK y \in M : y.log = node[i].log_ BY DEF CoreInv, NodeLogs, Sourced
  <2>2. k \in 1..Len(y.log) /\ y.log[k].term = node[i].current_term_ BY <1>4, <2>1 DEF Has
  <2>3. \E z \in M : z.term = node[i].current_term_ BY <2>2 DEF CoreInv, Lineage, Cuts
  <2> QED BY <2>3
<1> QED BY <1>1, <1>3, <1>4 DEF LeadClaim

\* GuardedNew as a formula, to be used of the state after a step.
Starting == \A M : \A i \in Server : \A k : \A e \in Entry :
    /\ TypeInv /\ ElectionInv /\ CoreInv(M)
    /\ node[i].current_term_ = e.term /\ Has(node[i].log_, k, e)
    => Guarded(M, k, e, {i})

\* GuardedNew holds in every state,
LEMMA StartingHolds == Starting
  BY GuardedNew DEF Starting

\* hence after every step.
LEMMA StartingNext == Starting'
  BY StartingHolds, PTL

\* A leader appends: nobody else is counted for the new entry.
LEMMA LeadAppends ==
    ASSUME TypeInv, TypeInv', ElectionInv', NEW M, NEW N, CoreInv(N)', Kept(M, N), NEW i \in Server,
           LeadClaim(M, i), NEW f \in Entry, Appends(i, f)
    PROVE  LeadClaim(N, i)'
<1>1. PICK g \in Seq(Entry) : g = node[i].log_ BY DEF TypeInv, TypeOK, Node
<1>2. /\ IsLeader(i) /\ node'[i].current_term_ = node[i].current_term_ /\ node'[i].log_ = Append(g, f)
      /\ node'[i].match_index_ = node[i].match_index_ /\ f.term = node[i].current_term_
  BY <1>1 DEF Appends, SameIndexes
<1>3. PICK h : h = Append(g, f) OBVIOUS
<1>4. Len(h) = Len(g) + 1 /\ h[Len(g) + 1] = f /\ (\A k \in 1..Len(g) : h[k] = g[k]) /\ Len(g) \in Nat
  BY <1>3
<1>5. \A p \in Peers(i) : node[i].match_index_[p] \in Nat /\ node[i].match_index_[p] <= Len(g)
  BY <1>1, <1>2 DEF LeadClaim, TypeInv, TypeOK, Node
<1>6. \A p \in Peers(i) : node'[i].match_index_[p] <= Len(node'[i].log_)
  BY <1>2, <1>3, <1>4, <1>5
<1>7. ASSUME NEW k \in Nat, NEW e \in Entry, NEW A \in SUBSET Server,
             Has(node'[i].log_, k, e), e.term = node'[i].current_term_, A = MatchedBy(node'[i], i, k)
      PROVE  Guarded(N, k, e, A)'
  <2>1. A = MatchedBy(node[i], i, k) BY <1>2, <1>7 DEF MatchedBy
  <2>2. k \in 1..(Len(g) + 1) /\ h[k] = e BY <1>2, <1>3, <1>4, <1>7 DEF Has
  <2>3. CASE k \in 1..Len(g)
    <3>1. Has(node[i].log_, k, e) BY <1>1, <1>4, <2>2, <2>3 DEF Has
    <3>2. Guarded(M, k, e, A) BY <1>2, <1>7, <2>1, <3>1 DEF LeadClaim
    <3> QED BY <3>2 DEF Kept
  <2>4. CASE k = Len(g) + 1
    <3>1. A = {i} BY <1>4, <1>5, <2>1, <2>4 DEF MatchedBy
    <3>2. Guarded(N, k, e, {i})' BY <1>7, StartingNext DEF Starting
    <3> QED BY <3>1, <3>2
  <2> QED BY <1>4, <2>2, <2>3, <2>4
<1> QED BY <1>6, <1>7 DEF LeadClaim

\* The answer to a heartbeat is handled by a node that still leads and whose
\* log is what it sent, and the peer that took entries still has them.
Replied(i) == hth[i].pc = "hb_reply" =>
    /\ IsLeader(i) /\ hth[i].req = BuildAppendEntries(node[i], i, Min(hth[i].todo))
    /\ hth[i].resp.ok /\ hth[i].req.entries # <<>> =>
         /\ node[Min(hth[i].todo)].current_term_ = node[i].current_term_
         /\ node[Min(hth[i].todo)].log_ = node[i].log_

\* AfterReply moves the match index of the peer that took entries, and the
\* commit index to an entry of the term that a majority has.
LEMMA AfterReplyIndexes ==
    ASSUME Cardinality(Server) % 2 = 1, NEW i \in Server, NEW n \in Node(i), NEW p \in Peers(i),
           NEW req \in AppendReq, NEW resp, NEW m, m = AfterReply(n, i, p, req, resp)
    PROVE  /\ \/ m.match_index_ = n.match_index_
              \/ /\ resp.ok /\ req.entries # <<>>
                 /\ m.match_index_ = [n.match_index_ EXCEPT ![p] = req.prev_log_index + Len(req.entries)]
           /\ \/ m.commit_index_ = n.commit_index_
              \/ /\ m.commit_index_ > n.commit_index_ /\ TermAt(n, m.commit_index_) = n.current_term_
                 /\ Majority(MatchedBy(m, i, m.commit_index_))
<1>1. PICK last : last = req.prev_log_index + Len(req.entries) OBVIOUS
<1>2. last \in Nat /\ last + 1 \in Nat \ {0}
  <2>1. req.prev_log_index \in Nat /\ req.entries \in Seq(Entry) BY DEF AppendReq
  <2> QED BY <1>1, <2>1
<1>3. CASE ~resp.ok
  <2>1. m = [n EXCEPT !.next_index_[p] = Backtrack(@)] BY <1>3 DEF AfterReply
  <2> QED BY <2>1 DEF Node
<1>4. CASE resp.ok
  <2>1. PICK q : q = IF req.entries = <<>> THEN n
                     ELSE [n EXCEPT !.match_index_[p] = last, !.next_index_[p] = last + 1]
    OBVIOUS
  <2>2. /\ q \in Node(i) /\ q.log_ = n.log_ /\ q.commit_index_ = n.commit_index_ /\ q.current_term_ = n.current_term_
        /\ \/ q.match_index_ = n.match_index_
           \/ req.entries # <<>> /\ q.match_index_ = [n.match_index_ EXCEPT ![p] = last]
    <3>1. CASE req.entries = <<>> BY <2>1, <3>1
    <3>2. CASE req.entries # <<>>
      <4>1. q = [n EXCEPT !.match_index_[p] = last, !.next_index_[p] = last + 1] BY <2>1, <3>2
      <4>2. q \in Node(i) BY <1>2, <4>1 DEF Node
      <4>3. /\ q.log_ = n.log_ /\ q.commit_index_ = n.commit_index_ /\ q.current_term_ = n.current_term_
            /\ q.match_index_ = [n.match_index_ EXCEPT ![p] = last]
        BY <4>1 DEF Node
      <4> QED BY <3>2, <4>2, <4>3
    <3> QED BY <3>1, <3>2
  <2>3. m = AdvanceCommitIndex(q, i) BY <1>1, <1>4, <2>1 DEF AfterReply
  <2>4. PICK v : v = MajorityMatch(q, i) OBVIOUS
  <2>5. Majority(MatchedBy(q, i, v)) BY <2>2, <2>4, MajorityMatched
  <2>6. m = IF v > q.commit_index_ /\ TermAt(q, v) = q.current_term_ THEN [q EXCEPT !.commit_index_ = v] ELSE q
    BY <2>3, <2>4 DEF AdvanceCommitIndex
  <2>7. m.match_index_ = q.match_index_ BY <2>2, <2>6 DEF Node
  <2>8. m.commit_index_ = q.commit_index_ \/ (m.commit_index_ = v /\ v > q.commit_index_ /\ TermAt(q, v) = q.current_term_)
    BY <2>2, <2>6 DEF Node
  <2>9. MatchedBy(m, i, v) = MatchedBy(q, i, v) /\ TermAt(q, v) = TermAt(n, v)
    BY <2>2, <2>7 DEF MatchedBy, TermAt
  <2> QED BY <1>1, <1>4, <2>2, <2>5, <2>7, <2>8, <2>9
<1> QED BY <1>3, <1>4
\* What a leader claims once it has handled an answer, and what it commits.
LEMMA RepliedClaims ==
    ASSUME Cardinality(Server) % 2 = 1, TypeInv, ElectionInv, NEW M, NEW i \in Server, hth[i].pc = "hb_reply",
           Replied(i), LeadClaim(M, i), NEW m, m = AfterReply(node[i], i, Min(hth[i].todo), hth[i].req, hth[i].resp)
    PROVE  /\ \A p \in Peers(i) : m.match_index_[p] <= Len(node[i].log_)
           /\ \A k \in Nat : \A e \in Entry : \A A \in SUBSET Server :
                /\ Has(node[i].log_, k, e) /\ e.term = node[i].current_term_ /\ A = MatchedBy(m, i, k)
                => Guarded(M, k, e, A)
           /\ \/ m.commit_index_ = node[i].commit_index_
              \/ /\ m.commit_index_ > node[i].commit_index_
                 /\ \E e \in Entry : Has(node[i].log_, m.commit_index_, e) /\ Sure(M, m.commit_index_, e)
<1>1. PICK n \in Node(i) : n = node[i] BY DEF TypeInv, TypeOK
<1>2. hth[i].todo \in ToCall(i) /\ hth[i].req \in AppendReq
  BY DEF TypeInv, TypeOK, HeartbeatThreadState, Asleep
<1>3. PICK p \in Peers(i) : p = Min(hth[i].todo) BY <1>2, NextPeer DEF Peers
<1>4. PICK r \in AppendReq : r = hth[i].req BY <1>2
<1>5. PICK resp : resp = hth[i].resp OBVIOUS
<1>6. p \in Server /\ m = AfterReply(n, i, p, r, resp) BY <1>1, <1>3, <1>4, <1>5 DEF Peers
<1>7. /\ \/ m.match_index_ = n.match_index_
         \/ /\ resp.ok /\ r.entries # <<>>
            /\ m.match_index_ = [n.match_index_ EXCEPT ![p] = r.prev_log_index + Len(r.entries)]
      /\ \/ m.commit_index_ = n.commit_index_
         \/ /\ m.commit_index_ > n.commit_index_ /\ TermAt(n, m.commit_index_) = n.current_term_
            /\ Majority(MatchedBy(m, i, m.commit_index_))
  BY <1>6, AfterReplyIndexes
<1>8. n.log_ \in Seq(Entry) /\ n.current_term_ \in Nat /\ n.match_index_ \in [Peers(i) -> Nat] BY DEF Node
<1>9. /\ IsLeader(i) /\ r = BuildAppendEntries(node[i], i, p)
      /\ resp.ok /\ r.entries # <<>> => node[p].current_term_ = n.current_term_ /\ node[p].log_ = n.log_
  BY <1>1, <1>3, <1>4, <1>5 DEF Replied
<1>10. r.entries # <<>> => Len(n.log_) = r.prev_log_index + Len(r.entries)
  BY <1>1, <1>9, BuiltSent DEF Carries
<1>11. \A q \in Peers(i) : n.match_index_[q] <= Len(n.log_) BY <1>1, <1>9 DEF LeadClaim
<1>12. \A q \in Peers(i) : m.match_index_[q] <= Len(n.log_)
  <2>1. Len(n.log_) \in Nat BY <1>8
  <2> QED BY <1>7, <1>8, <1>10, <1>11, <2>1
<1>13. ASSUME NEW k \in Nat, NEW e \in Entry, NEW A \in SUBSET Server,
              Has(n.log_, k, e), e.term = n.current_term_, A = MatchedBy(m, i, k)
       PROVE  Guarded(M, k, e, A)
  <2>1. PICK B \in SUBSET Server : B = MatchedBy(n, i, k) BY DEF MatchedBy, Peers
  <2>2. Guarded(M, k, e, B) BY <1>1, <1>9, <1>13, <2>1 DEF LeadClaim
  <2>3. CASE m.match_index_ = n.match_index_
    BY <1>13, <2>1, <2>2, <2>3 DEF MatchedBy
  <2>4. CASE /\ resp.ok /\ r.entries # <<>>
             /\ m.match_index_ = [n.match_index_ EXCEPT ![p] = r.prev_log_index + Len(r.entries)]
    <3>1. k <= Len(n.log_) BY <1>8, <1>13 DEF Has
    <3>2. m.match_index_[p] >= k /\ \A q \in Peers(i) : q # p => m.match_index_[q] = n.match_index_[q]
      BY <1>8, <1>10, <2>4, <3>1
    <3>3. A = B \cup {p} BY <1>13, <2>1, <3>2 DEF MatchedBy
    <3>4. node[p].current_term_ = e.term /\ Has(node[p].log_, k, e) BY <1>9, <1>13, <2>4
    <3> QED BY <1>6, <2>2, <3>3, <3>4, GuardedGrows
  <2> QED BY <1>7, <2>3, <2>4
<1>14. CASE m.commit_index_ = n.commit_index_
  BY <1>1, <1>12, <1>13, <1>14
<1>15. CASE /\ m.commit_index_ > n.commit_index_ /\ TermAt(n, m.commit_index_) = n.current_term_
            /\ Majority(MatchedBy(m, i, m.commit_index_))
  <2>1. PICK k : k = m.commit_index_ OBVIOUS
  <2>2. n.current_term_ > 0 BY <1>1, <1>9 DEF TypeInv, Elected, IsLeader
  <2>3. k \in DOMAIN n.log_ /\ n.log_[k].term = n.current_term_ BY <1>8, <1>15, <2>1, <2>2, SMTT(30) DEF TermAt
  <2>4. k \in 1..Len(n.log_) /\ k \in Nat /\ n.log_[k] \in Entry BY <1>8, <2>3
  <2>5. PICK e \in Entry : e = n.log_[k] BY <2>4
  <2>6. Has(n.log_, k, e) /\ e.term = n.current_term_ BY <2>3, <2>4, <2>5 DEF Has
  <2>7. PICK A \in SUBSET Server : A = MatchedBy(m, i, k) BY DEF MatchedBy, Peers
  <2>8. Guarded(M, k, e, A) BY <1>13, <2>4, <2>6, <2>7
  <2>9. Sure(M, k, e) BY <1>15, <2>1, <2>7, <2>8 DEF Sure
  <2> QED BY <1>1, <1>12, <1>13, <1>15, <2>1, <2>6, <2>9
<1> QED BY <1>7, <1>14, <1>15

\* What a node takes for committed ends at or before an entry that a majority
\* can be counted for.
CommitClaim(M, i) == node[i].commit_index_ > 0 =>
    \E m \in Nat : \E e \in Entry :
        node[i].commit_index_ <= m /\ Has(node[i].log_, m, e) /\ Sure(M, m, e)

\* A step does not take back what node j took for committed.
CommitStays(j) ==
    /\ node'[j].commit_index_ >= node[j].commit_index_
    /\ \A k \in 1..node[j].commit_index_ : k \in 1..Len(node'[j].log_) /\ node'[j].log_[k] = node[j].log_[k]

\* The commit index stays and the log does not lose an entry.
LogStays(j) == node'[j].commit_index_ = node[j].commit_index_ /\ Begins(node'[j].log_, node[j].log_)

\* A node whose log only grows.
LEMMA CommitRests ==
    ASSUME TypeInv, TypeInv', NEW M, NEW N, Kept(M, N), NEW j \in Server, CommitClaim(M, j), LogStays(j)
    PROVE  CommitClaim(N, j)' /\ CommitStays(j)
<1>1. PICK g \in Seq(Entry) : g = node[j].log_ BY DEF TypeInv, TypeOK, Node
<1>2. PICK h \in Seq(Entry) : h = node'[j].log_ BY DEF TypeInv, TypeOK, Node
<1>3. PICK c \in Nat : c = node[j].commit_index_ BY DEF TypeInv, TypeOK, Node
<1>4. node'[j].commit_index_ = c /\ Begins(h, g) BY <1>1, <1>2, <1>3 DEF LogStays
<1>5. CASE c = 0
  BY <1>3, <1>4, <1>5 DEF CommitClaim, CommitStays
<1>6. CASE c > 0
  <2>1. PICK m \in Nat, e \in Entry : c <= m /\ Has(g, m, e) /\ Sure(M, m, e)
    BY <1>1, <1>3, <1>6 DEF CommitClaim
  <2>2. Has(h, m, e) BY <1>4, <2>1, BeginsHas
  <2>3. Sure(N, m, e)' BY <2>1, SureKept
  <2>4. CommitClaim(N, j)' BY <1>2, <1>4, <2>1, <2>2, <2>3 DEF CommitClaim
  <2>5. Len(g) \in Nat /\ Len(h) \in Nat /\ m <= Len(g) BY <2>1 DEF Has
  <2>6. \A k \in 1..c : k \in 1..Len(h) /\ h[k] = g[k] BY <1>4, <2>1, <2>5 DEF Begins
  <2> QED BY <1>1, <1>2, <1>3, <1>4, <2>4, <2>6 DEF CommitStays
<1> QED BY <1>3, <1>5, <1>6
\* A log with an entry of a later term than e, or of the same term and no
\* earlier position, has all of a log up to e, if the leaders of later terms
\* have e.
LEMMA SurePrefix ==
    ASSUME NEW M, Lineage(M), NEW x \in M, NEW y \in M, NEW a \in Nat, NEW e \in Entry, Has(x.log, a, e),
           LaterHave(M, a, e), NEW b \in 1..Len(y.log),
           y.log[b].term > e.term \/ (y.log[b].term = e.term /\ a <= b)
    PROVE  \A k \in 1..a : k \in 1..Len(y.log) /\ x.log[k] = y.log[k]
<1>1. a \in 1..Len(x.log) /\ x.log[a] = e BY DEF Has
<1>2. CASE y.log[b].term = e.term /\ a <= b
  BY <1>1, <1>2, LineageMatch
<1>3. CASE y.log[b].term > e.term
  <2>1. PICK z \in M : z.term = y.log[b].term /\ Begins(y.log, z.log) BY DEF Lineage, Cuts
  <2>2. Has(z.log, a, e) BY <1>3, <2>1 DEF LaterHave
  <2>3. y.log \in Seq(Entry) /\ z.log \in Seq(Entry) BY DEF Lineage, Tenure
  <2>4. Has(y.log, a, e) BY <2>1, <2>2, <2>3, BeginsHas
  <2>5. a \in 1..Len(y.log) /\ x.log[a].term = y.log[a].term /\ a <= a BY <1>1, <2>4 DEF Has
  <2> QED BY <1>1, <2>5, LineageMatch
<1> QED BY <1>2, <1>3

\* The commit index that a request tells, if any log can accept the request,
\* ends at or before an entry that a majority can be counted for and that the
\* log then has.
Told(M, r) ==
    \/ r.leader_commit = 0 \/ (r.prev_log_index > 0 /\ r.prev_log_term = 0)
    \/ \E m \in Nat : \E f \in Entry :
         /\ r.leader_commit <= m /\ Sure(M, m, f)
         /\ r.entries = <<>> => m <= r.prev_log_index /\ f.term <= r.prev_log_term
         /\ r.entries # <<>> => \E x \in M : Carries(r, x.log) /\ Has(x.log, m, f)

\* A majority has somebody who has the entry.
LEMMA SureHeld ==
    ASSUME NEW M, NodeLogs(M), NEW k, NEW e, Sure(M, k, e)
    PROVE  LaterHave(M, k, e) /\ \E x \in M : Has(x.log, k, e)
<1>1. PICK A \in SUBSET Server : Majority(A) /\ Guarded(M, k, e, A) BY DEF Sure
<1>2. LaterHave(M, k, e) /\ Held(k, e, A) BY <1>1, MajorityFirm DEF Firm
<1>3. PICK q \in Server : q \in A BY <1>1, MajoritiesMeet
<1>4. Has(node[q].log_, k, e) BY <1>2, <1>3 DEF Held
<1>5. PICK x \in M : x.log = node[q].log_ BY DEF NodeLogs, Sourced
<1> QED BY <1>2, <1>4, <1>5

\* A node accepts a request: what it took for committed stays.
LEMMA AcceptedKeeps ==
    ASSUME TypeInv, TypeInv', NEW M, CoreInv(M), NEW p \in Server, NEW req \in AppendReq, SureSent(M, req),
           Accepts(node[p], req, node'[p]), CommitClaim(M, p), node[p].commit_index_ > 0
    PROVE  \E m \in Nat : \E e \in Entry :
             /\ node[p].commit_index_ <= m /\ Has(node'[p].log_, m, e) /\ Sure(M, m, e)
             /\ \A k \in 1..m : k \in 1..Len(node'[p].log_) /\ node'[p].log_[k] = node[p].log_[k]
<1>1. PICK m \in Nat, e \in Entry : node[p].commit_index_ <= m /\ Has(node[p].log_, m, e) /\ Sure(M, m, e)
  BY DEF CommitClaim
<1>2. PICK y \in M : y.term <= node[p].current_term_ /\ y.log = node[p].log_ BY DEF CoreInv, NodeLogs, Sourced
<1>3. m \in 1..Len(y.log) /\ y.log[m] = e BY <1>1, <1>2 DEF Has
<1>4. CASE req.entries = <<>>
  <2>1. node'[p].log_ = node[p].log_ BY <1>4 DEF Accepts, LogAfter
  <2>2. node[p].log_ \in Seq(Entry) BY DEF TypeInv, TypeOK, Node
  <2>3. \A k \in 1..m : k \in 1..Len(node[p].log_) BY <1>2, <1>3, <2>2
  <2> QED BY <1>1, <2>1, <2>3
<1>5. CASE req.entries # <<>>
  <2>1. PICK x \in M : x.term = req.term /\ Carries(req, x.log) BY <1>5 DEF SureSent
  <2>2. node'[p].log_ = x.log BY <1>5, <2>1, TakenWhole DEF Accepts
  <2>3. LaterHave(M, m, e) BY <1>1, SureHeld DEF CoreInv
  <2>4. req.term >= e.term
    <3>1. e.term <= y.term BY <1>3 DEF CoreInv, Lineage, Cuts
    <3>2. y.term \in Nat /\ e.term \in Nat /\ req.term \in Nat /\ node[p].current_term_ \in Nat
      BY DEF CoreInv, Lineage, Tenure, Entry, AppendReq, TypeInv, TypeOK, Node
    <3>3. node[p].current_term_ <= req.term BY DEF Accepts
    <3> QED BY <1>2, <3>1, <3>2, <3>3
  <2>5. Has(x.log, m, e) BY <1>1, <2>2, <2>3, <2>4, AcceptedHas
  <2>6. m \in 1..Len(x.log) /\ x.log[m].term = y.log[m].term /\ m <= m BY <1>3, <2>5 DEF Has
  <2>7. \A k \in 1..m : k \in 1..Len(y.log) /\ x.log[k] = y.log[k]
    BY <1>3, <2>6, LineageMatch DEF CoreInv
  <2>8. \A k \in 1..m : k \in 1..Len(x.log)
    <3>1. x.log \in Seq(Entry) BY DEF CoreInv, Lineage, Tenure
    <3> QED BY <2>6, <3>1
  <2> QED BY <1>1, <1>2, <2>2, <2>5, <2>7, <2>8
<1> QED BY <1>4, <1>5

\* A node accepts a request: it has what the request tells it to commit.
LEMMA AcceptedTold ==
    ASSUME TypeInv, TypeInv', NEW M, CoreInv(M), NEW p \in Server, NEW req \in AppendReq, Told(M, req),
           Accepts(node[p], req, node'[p]), req.leader_commit > 0
    PROVE  \E m \in Nat : \E f \in Entry :
             req.leader_commit <= m /\ Has(node'[p].log_, m, f) /\ Sure(M, m, f)
<1>1. PICK g \in Seq(Entry) : g = node[p].log_ BY DEF TypeInv, TypeOK, Node
<1>2. PICK y \in M : y.log = g BY <1>1 DEF CoreInv, NodeLogs, Sourced
<1>3. /\ req.prev_log_index \in Nat /\ req.leader_commit \in Nat /\ DOMAIN g = 1..Len(g) /\ Len(g) \in Nat
      /\ req.prev_log_term \in Nat
  BY DEF AppendReq
<1>4. req.prev_log_index <= Len(g) /\ (req.prev_log_index > 0 => g[req.prev_log_index].term = req.prev_log_term)
  <2>1. req.prev_log_index <= Len(g) BY <1>1 DEF Accepts, PrevMatches, LastLogIndex
  <2>2. TermAt(node[p], req.prev_log_index) = req.prev_log_term BY DEF Accepts, PrevMatches
  <2> QED BY <1>1, <1>3, <2>1, <2>2 DEF TermAt
<1>5. \A k \in 1..Len(g) : 1 <= g[k].term BY <1>2 DEF CoreInv, Lineage, Cuts
<1>6. ~(req.prev_log_index > 0 /\ req.prev_log_term = 0) BY <1>3, <1>4, <1>5
<1>7. PICK m \in Nat, f \in Entry :
         /\ req.leader_commit <= m /\ Sure(M, m, f)
         /\ req.entries = <<>> => m <= req.prev_log_index /\ f.term <= req.prev_log_term
         /\ req.entries # <<>> => \E x \in M : Carries(req, x.log) /\ Has(x.log, m, f)
  BY <1>3, <1>6 DEF Told
<1>8. CASE req.entries = <<>>
  <2>1. node'[p].log_ = g BY <1>1, <1>8 DEF Accepts, LogAfter
  <2>2. PICK x \in M : Has(x.log, m, f) /\ LaterHave(M, m, f) BY <1>7, SureHeld DEF CoreInv
  <2>3. PICK b \in 1..Len(g) : b = req.prev_log_index BY <1>3, <1>4, <1>7, <1>8
  <2>4. m > 0 /\ m <= b BY <1>3, <1>7, <1>8, <2>3
  <2>5. f.term \in Nat /\ y.log[b].term = req.prev_log_term /\ f.term <= req.prev_log_term
    BY <1>2, <1>4, <1>7, <1>8, <2>3 DEF Entry
  <2>6. y.log[b].term > f.term \/ (y.log[b].term = f.term /\ m <= b) BY <1>3, <2>4, <2>5
  <2>7. \A k \in 1..m : k \in 1..Len(y.log) /\ x.log[k] = y.log[k]
    BY <1>2, <2>2, <2>6, SurePrefix DEF CoreInv
  <2>8. Has(g, m, f) BY <1>2, <2>2, <2>4, <2>7 DEF Has
  <2> QED BY <1>7, <2>1, <2>8
<1>9. CASE req.entries # <<>>
  <2>1. PICK x \in M : Carries(req, x.log) /\ Has(x.log, m, f) BY <1>7, <1>9
  <2>2. node'[p].log_ = x.log BY <1>9, <2>1, TakenWhole DEF Accepts
  <2> QED BY <1>7, <2>1, <2>2
<1> QED BY <1>8, <1>9

\* A call of AppendEntries.
LEMMA CommitDelivered ==
    ASSUME TypeInv, TypeInv', NEW M, CoreInv(M), NEW N, Kept(M, N), NEW p \in Server, NEW req \in AppendReq,
           NEW resp, SureSent(M, req), Told(M, req), Delivered(p, req, resp), CommitClaim(M, p)
    PROVE  CommitClaim(N, p)' /\ CommitStays(p)
<1>1. CASE Retires(node[p], node'[p])
  <2>1. node[p].log_ \in Seq(Entry) BY DEF TypeInv, TypeOK, Node
  <2>2. LogStays(p) BY <1>1, <2>1, BeginsItself DEF LogStays, Retires, Calm, SameIndexes
  <2> QED BY <2>2, CommitRests
<1>2. CASE Accepts(node[p], req, node'[p])
  <2>1. PICK c \in Nat : c = node[p].commit_index_ BY DEF TypeInv, TypeOK, Node
  <2>2. PICK d \in Nat : d = node'[p].commit_index_ BY DEF TypeInv, TypeOK, Node
  <2>3. PICK h \in Seq(Entry) : h = node'[p].log_ BY DEF TypeInv, TypeOK, Node
  <2>4. PICK lc \in Nat : lc = req.leader_commit BY DEF AppendReq
  <2>5. PICK len \in Nat : len = Len(h) OBVIOUS
  <2>6. d = (IF lc > c THEN Min({lc, len}) ELSE c)
    BY <1>2, <2>1, <2>2, <2>3, <2>4, <2>5 DEF Accepts, CommitAfter
  <2>7. Min({lc, len}) \in {lc, len} /\ Min({lc, len}) <= lc
    <3>1. {lc, len} \in SUBSET Nat /\ {lc, len} # {} OBVIOUS
    <3> QED BY <3>1, MinIsLeast
  <2>8. c > 0 => \E m \in Nat : \E e \in Entry :
             /\ c <= m /\ Has(h, m, e) /\ Sure(M, m, e)
             /\ \A k \in 1..m : k \in 1..Len(h) /\ h[k] = node[p].log_[k]
    BY <1>2, <2>1, <2>3, AcceptedKeeps
  <2>9. c <= len
    <3>1. CASE c = 0 BY <3>1
    <3>2. CASE c > 0
      <4>1. PICK m \in Nat, e \in Entry : c <= m /\ Has(h, m, e) BY <2>8, <3>2
      <4> QED BY <2>5, <4>1 DEF Has
    <3> QED BY <3>1, <3>2
  <2>10. d >= c BY <2>6, <2>7, <2>9
  <2>11. CommitStays(p)
    <3>1. CASE c = 0 BY <2>1, <2>2, <2>10, <3>1 DEF CommitStays
    <3>2. CASE c > 0
      <4>1. \A k \in 1..c : k \in 1..Len(h) /\ h[k] = node[p].log_[k] BY <2>8, <3>2
      <4> QED BY <2>1, <2>2, <2>3, <2>10, <4>1 DEF CommitStays
    <3> QED BY <3>1, <3>2
  <2>12. d > 0 => \E m \in Nat : \E e \in Entry : d <= m /\ Has(h, m, e) /\ Sure(M, m, e)
    <3>1. CASE lc > c
      <4>1. PICK m \in Nat, f \in Entry : lc <= m /\ Has(h, m, f) /\ Sure(M, m, f)
        <5>1. req.leader_commit > 0 BY <2>4, <3>1
        <5> QED BY <1>2, <2>3, <2>4, <5>1, AcceptedTold
      <4>2. d <= m BY <2>6, <2>7, <3>1, <4>1
      <4> QED BY <4>1, <4>2
    <3>2. CASE ~(lc > c)
      BY <2>6, <2>8, <3>2
    <3> QED BY <3>1, <3>2
  <2>13. d > 0 => \E m \in Nat : \E e \in Entry : d <= m /\ Has(h, m, e) /\ Sure(N, m, e)'
    BY <2>12, SureKept
  <2> QED BY <2>2, <2>3, <2>11, <2>13 DEF CommitClaim
<1> QED BY <1>1, <1>2 DEF Delivered
\* What a step does for node j.
Advances(N, j) ==
    /\ LeadClaim(N, j)' /\ CommitClaim(N, j)' /\ CommitStays(j)
    /\ node'[j].last_applied_ = node[j].last_applied_

\* A node retires.
LEMMA RetiresAdvances ==
    ASSUME TypeInv, TypeInv', NEW M, NEW N, Kept(M, N), NEW j \in Server, LeadClaim(M, j), CommitClaim(M, j),
           Retires(node[j], node'[j])
    PROVE  Advances(N, j)
<1>1. /\ node[j].log_ \in Seq(Entry) /\ node[j].current_term_ \in Nat /\ node'[j].current_term_ \in Nat
  BY DEF TypeInv, TypeOK, Node
<1>2. LeadKept(j) BY <1>1 DEF LeadKept, Retires, Calm, SameIndexes
<1>3. LogStays(j) BY <1>1, BeginsItself DEF LogStays, Retires, Calm, SameIndexes
<1>4. node'[j].last_applied_ = node[j].last_applied_ BY DEF Retires, SameIndexes
<1> QED BY <1>2, <1>3, <1>4, LeadRests, CommitRests DEF Advances

\* The nodes that do not change.
LEMMA OthersAdvance ==
    ASSUME TypeInv, TypeInv', NEW M, NEW N, Kept(M, N), NEW p \in Server, Only(p),
           \A j \in Server : LeadClaim(M, j) /\ CommitClaim(M, j)
    PROVE  \A j \in Server : j # p => Advances(N, j)
<1> SUFFICES ASSUME NEW j \in Server, j # p PROVE Advances(N, j) OBVIOUS
<1>1. node'[j] = node[j] /\ node[j] \in Node(j) BY DEF Only, TypeInv, TypeOK
<1>2. Retires(node[j], node'[j]) BY <1>1, RetiresItself
<1> QED BY <1>2, RetiresAdvances

\* The log of a node stays or grows, and it does not come to lead.
LEMMA GrowsAdvances ==
    ASSUME TypeInv, TypeInv', NEW M, NEW N, Kept(M, N), NEW j \in Server, CommitClaim(M, j), LeadClaim(N, j)',
           LogStays(j), node'[j].last_applied_ = node[j].last_applied_
    PROVE  Advances(N, j)
  BY CommitRests DEF Advances

\* A call of AppendEntries.
LEMMA DeliveredAdvances ==
    ASSUME TypeInv, TypeInv', NEW M, CoreInv(M), NEW N, Kept(M, N), NEW p \in Server, NEW req \in AppendReq,
           NEW resp, SureSent(M, req), Told(M, req), Delivered(p, req, resp),
           \A j \in Server : LeadClaim(M, j) /\ CommitClaim(M, j)
    PROVE  \A j \in Server : Advances(N, j)
<1>1. \A j \in Server : j # p => Advances(N, j) BY OthersAdvance DEF Delivered
<1>2. CASE Retires(node[p], node'[p])
  BY <1>1, <1>2, RetiresAdvances
<1>3. CASE Accepts(node[p], req, node'[p])
  <2>1. node'[p].role_ = "Follower" /\ node'[p].last_applied_ = node[p].last_applied_ BY <1>3 DEF Accepts
  <2>2. LeadClaim(N, p)' BY <2>1 DEF LeadClaim, IsLeader
  <2>3. CommitClaim(N, p)' /\ CommitStays(p) BY CommitDelivered
  <2> QED BY <1>1, <2>1, <2>2, <2>3 DEF Advances
<1> QED BY <1>2, <1>3 DEF Delivered

\* The election thread.
LEMMA ElectionAdvances ==
    ASSUME TypeInv, TypeInv', ElectionInv, ElectionInv', VoteInv, NEW M, MatchInv(M), NEW N, Extends(M, N),
           NEW i \in Server, ElectionThread(i), \A j \in Server : LeadClaim(M, j) /\ CommitClaim(M, j)
    PROVE  \A j \in Server : Advances(N, j)
<1>1. AllUp BY DEF ElectionInv
<1>2. ElectionEffect(i) BY <1>1, ElectionMoves
<1>3. Kept(M, N) BY ElectionKept
<1>4. node[i].log_ \in Seq(Entry) BY DEF TypeInv, TypeOK, Node
<1>5. CASE Stands(i)
  <2>1. LogStays(i) BY <1>4, <1>5, BeginsItself DEF Stands, LogStays, SameIndexes
  <2>2. LeadClaim(N, i)' BY <1>5 DEF Stands, LeadClaim, IsLeader
  <2>3. node'[i].last_applied_ = node[i].last_applied_ BY <1>5 DEF Stands, SameIndexes
  <2>4. Advances(N, i) BY <1>3, <2>1, <2>2, <2>3, GrowsAdvances
  <2> QED BY <1>3, <1>5, <2>4, OthersAdvance DEF Stands
<1>6. CASE Votes(i)
  <2>1. PICK p \in Server : Only(p) /\ Retires(node[p], node'[p]) BY <1>6 DEF Votes
  <2> QED BY <1>3, <2>1, OthersAdvance, RetiresAdvances
<1>7. CASE Wins(i)
  <2>1. N = M \cup {Now(i)'} BY <1>7, OneExtends DEF Wins, MatchInv, CoreInv
  <2>2. Now(i)' = Now(i) BY <1>7 DEF Wins, Now
  <2>3. \A x \in M : x.term # node[i].current_term_ BY <1>7, <2>1, <2>2, WinsCore DEF MatchInv
  <2>4. LeadClaim(N, i)' BY <1>7, <2>3, LeadWins DEF MatchInv
  <2>5. LogStays(i) BY <1>4, <1>7, BeginsItself DEF Wins, LogStays
  <2>6. node'[i].last_applied_ = node[i].last_applied_ BY <1>7 DEF Wins
  <2>7. Advances(N, i) BY <1>3, <2>4, <2>5, <2>6, GrowsAdvances
  <2> QED BY <1>3, <1>7, <2>7, OthersAdvance DEF Wins
<1>8. CASE AllRetire
  BY <1>3, <1>8, RetiresAdvances DEF AllRetire
<1> QED BY <1>2, <1>5, <1>6, <1>7, <1>8 DEF ElectionEffect

\* A request without entries that ends where the sender's log ends tells what
\* the sender takes for committed.
LEMMA LastTold ==
    ASSUME TypeInv, NEW M, CoreInv(M), NEW i \in Server, CommitClaim(M, i), NEW r, r.entries = <<>>,
           r.leader_commit = node[i].commit_index_, r.prev_log_index = Len(node[i].log_),
           r.prev_log_term = TermOf(node[i].log_, Len(node[i].log_))
    PROVE  Told(M, r)
<1>1. PICK c \in Nat : c = node[i].commit_index_ BY DEF TypeInv, TypeOK, Node
<1>2. PICK g \in Seq(Entry) : g = node[i].log_ BY DEF TypeInv, TypeOK, Node
<1>3. CASE c = 0 BY <1>1, <1>3 DEF Told
<1>4. CASE c > 0
  <2>1. PICK m \in Nat, e \in Entry : c <= m /\ Has(g, m, e) /\ Sure(M, m, e)
    BY <1>1, <1>2, <1>4 DEF CommitClaim
  <2>2. PICK y \in M : y.log = g BY <1>2 DEF CoreInv, NodeLogs, Sourced
  <2>3. m \in 1..Len(g) /\ g[m] = e /\ Len(g) \in 1..Len(g) /\ m <= Len(g)
    <3>1. m \in 1..Len(g) /\ g[m] = e /\ Len(g) \in Nat BY <2>1 DEF Has
    <3> QED BY <3>1
  <2>4. y.log[m].term <= y.log[Len(g)].term BY <2>2, <2>3, TermsRise DEF CoreInv
  <2>5. r.prev_log_term = g[Len(g)].term BY <1>2, <2>3 DEF TermOf
  <2> QED BY <1>1, <1>2, <2>1, <2>2, <2>3, <2>4, <2>5 DEF Told
<1> QED BY <1>3, <1>4

\* A heartbeat tells what its leader takes for committed.
LEMMA BuiltTold ==
    ASSUME TypeInv, NEW M, CoreInv(M), NEW i \in Server, IsLeader(i), CommitClaim(M, i), NEW p \in Peers(i)
    PROVE  Told(M, BuildAppendEntries(node[i], i, p))
<1>1. PICK r : r = BuildAppendEntries(node[i], i, p) OBVIOUS
<1>2. PICK c \in Nat : c = node[i].commit_index_ BY DEF TypeInv, TypeOK, Node
<1>3. PICK g \in Seq(Entry) : g = node[i].log_ BY DEF TypeInv, TypeOK, Node
<1>4. /\ r.entries # <<>> => Carries(r, g)
      /\ r.entries = <<>> => r.prev_log_index >= Len(g)
      /\ r.prev_log_term = TermOf(g, r.prev_log_index) /\ r.prev_log_index \in Nat /\ r.leader_commit = c
  BY <1>1, <1>2, <1>3, BuiltSent
<1>5. Len(g) \in Nat BY <1>3
<1>6. CASE c = 0 BY <1>1, <1>4, <1>6 DEF Told
<1>7. CASE c > 0 /\ r.entries # <<>>
  <2>1. PICK m \in Nat, e \in Entry : c <= m /\ Has(g, m, e) /\ Sure(M, m, e)
    BY <1>2, <1>3, <1>7 DEF CommitClaim
  <2>2. PICK y \in M : y.log = g BY <1>3 DEF CoreInv, NodeLogs, Sourced
  <2> QED BY <1>1, <1>4, <1>7, <2>1, <2>2 DEF Told
<1>8. CASE r.entries = <<>> /\ r.prev_log_index > Len(g)
  <2>1. r.prev_log_term = 0 /\ r.prev_log_index > 0 BY <1>4, <1>5, <1>8 DEF TermOf
  <2> QED BY <1>1, <2>1 DEF Told
<1>9. CASE r.entries = <<>> /\ r.prev_log_index = Len(g)
  BY <1>1, <1>2, <1>3, <1>4, <1>9, LastTold
<1> QED BY <1>2, <1>4, <1>5, <1>6, <1>7, <1>8, <1>9
\* While the answer to a heartbeat waits only its own thread takes steps.
LEMMA ReplyAlone ==
    ASSUME "hb_reply" \notin Preemptible, NEW i \in Server, hth[i].pc = "hb_reply", NEW t, NEW j, Turn(t, j)
    PROVE  t = "h" /\ j = i
<1>1. Holds(hth[i]) BY DEF Holds, Windows
<1>2. <<"h", i>> \in Urgent BY <1>1 DEF Urgent
<1> QED BY <1>2 DEF Turn

\* The heartbeat thread.
LEMMA HeartbeatAdvances ==
    ASSUME Cardinality(Server) % 2 = 1, "hb_send" \notin Preemptible, "hb_reply" \notin Preemptible,
           TypeInv, TypeInv', ElectionInv, VoteInv, BeatInv, NEW M, MatchInv(M), NEW N, Extends(M, N),
           NEW i \in Server, HeartbeatThread(i), \A j \in Server : LeadClaim(M, j) /\ CommitClaim(M, j),
           \A j \in Server : Replied(j)
    PROVE  \A j \in Server : Advances(N, j) /\ Replied(j)'
<1>1. AllUp BY DEF ElectionInv
<1>2. /\ Beats(i) \/ Sends(i) \/ Handles(i)
      /\ Turn("h", i) /\ \A j \in Server : j # i => hth'[j] = hth[j]
  BY <1>1, HeartbeatMoves
<1>3. Kept(M, N) BY HeartbeatKept
<1>4. \A j \in Server : j # i => hth[j].pc # "hb_reply" BY <1>2, ReplyAlone
<1>5. \A j \in Server : j # i => Replied(j)' BY <1>2, <1>4 DEF Replied
<1>6. hth'[i].pc # "hb_reply" => Replied(i)' BY DEF Replied
<1>7. CASE Beats(i)
  <2>1. UNCHANGED node /\ hth'[i].pc # "hb_reply" BY <1>7 DEF Beats
  <2>2. AllRetire BY <2>1, NoneRetires
  <2> QED BY <1>3, <1>5, <1>6, <2>1, <2>2, RetiresAdvances DEF AllRetire
<1>8. CASE Sends(i)
  <2>1. /\ hth[i].pc = "hb_send" /\ hth'[i].pc = "hb_reply" /\ hth[i].todo \in ToCall(i)
        /\ hth[i].req \in AppendReq /\ hth'[i].todo = hth[i].todo /\ hth'[i].req = hth[i].req
        /\ Delivered(Min(hth[i].todo), hth[i].req, hth'[i].resp)
    BY <1>8 DEF Sends
  <2>2. PICK p \in Server : p = Min(hth[i].todo) /\ p # i /\ p \in Peers(i) BY <2>1, NextPeer DEF Peers
  <2>3. PICK r \in AppendReq : r = hth[i].req BY <2>1
  <2>4. IsLeader(i) /\ r = BuildAppendEntries(node[i], i, p) BY <2>1, <2>2, <2>3 DEF BeatInv
  <2>5. Delivered(p, r, hth'[i].resp) BY <2>1, <2>2, <2>3
  <2>6. SureSent(M, r) /\ Told(M, r) BY <2>2, <2>4, BuiltSure, BuiltTold DEF MatchInv, CoreInv
  <2>7. \A j \in Server : Advances(N, j) BY <1>3, <2>5, <2>6, DeliveredAdvances DEF MatchInv
  <2>8. node'[i] = node[i] BY <2>2, <2>5 DEF Delivered, Only
  <2>9. ASSUME hth'[i].resp.ok, r.entries # <<>>
        PROVE  node'[p].current_term_ = node[i].current_term_ /\ node'[p].log_ = node[i].log_
    <3>1. Accepts(node[p], r, node'[p]) BY <2>5, <2>9 DEF Delivered
    <3>2. r.term = node[i].current_term_ /\ Carries(r, node[i].log_) BY <2>2, <2>4, <2>9, BuiltSent
    <3>3. PICK x \in M : x.log = node[i].log_ BY DEF MatchInv, CoreInv, NodeLogs, Sourced
    <3>4. LogAfter(node[p], r) = x.log BY <2>9, <3>1, <3>2, <3>3, TakenWhole DEF Accepts, MatchInv
    <3> QED BY <3>1, <3>2, <3>3, <3>4 DEF Accepts
  <2>10. Replied(i)'
    <3>1. hth'[i].req = r /\ Min(hth'[i].todo) = p BY <2>1, <2>2, <2>3
    <3>2. r = BuildAppendEntries(node'[i], i, p) /\ IsLeader(i)' BY <2>4, <2>8 DEF IsLeader
    <3>3. hth'[i].resp.ok /\ r.entries # <<>> =>
            node'[p].current_term_ = node'[i].current_term_ /\ node'[p].log_ = node'[i].log_
      BY <2>8, <2>9
    <3> QED BY <3>1, <3>2, <3>3 DEF Replied
  <2> QED BY <1>5, <2>7, <2>10
<1>9. CASE Handles(i)
  <2>1. hth[i].pc = "hb_reply" /\ Only(i) /\ hth'[i].pc # "hb_reply" BY <1>9 DEF Handles
  <2>2. \A j \in Server : j # i => Advances(N, j) BY <1>3, <2>1, OthersAdvance
  <2>3. CASE Retires(node[i], node'[i])
    BY <1>3, <1>5, <1>6, <2>1, <2>2, <2>3, RetiresAdvances
  <2>4. CASE node'[i] = AfterReply(node[i], i, Min(hth[i].todo), hth[i].req, hth[i].resp)
    <3>1. PICK m : m = node'[i] OBVIOUS
    <3>2. node[i] \in Node(i) BY DEF TypeInv, TypeOK
    <3>3. /\ m.log_ = node[i].log_ /\ m.role_ = node[i].role_ /\ m.current_term_ = node[i].current_term_
          /\ m.last_applied_ = node[i].last_applied_
      BY <2>4, <3>1, <3>2, AfterReplyCalm DEF Calm
    <3>4. /\ \A p \in Peers(i) : m.match_index_[p] <= Len(node[i].log_)
          /\ \A k \in Nat : \A e \in Entry : \A A \in SUBSET Server :
                /\ Has(node[i].log_, k, e) /\ e.term = node[i].current_term_ /\ A = MatchedBy(m, i, k)
                => Guarded(M, k, e, A)
          /\ \/ m.commit_index_ = node[i].commit_index_
             \/ /\ m.commit_index_ > node[i].commit_index_
                /\ \E e \in Entry : Has(node[i].log_, m.commit_index_, e) /\ Sure(M, m.commit_index_, e)
      BY <2>1, <2>4, <3>1, RepliedClaims
    <3>5. LeadClaim(N, i)'
      <4>1. \A p \in Peers(i) : node'[i].match_index_[p] <= Len(node'[i].log_) BY <3>1, <3>3, <3>4
      <4>2. ASSUME NEW k \in Nat, NEW e \in Entry, NEW A \in SUBSET Server,
                   Has(node'[i].log_, k, e), e.term = node'[i].current_term_, A = MatchedBy(node'[i], i, k)
            PROVE  Guarded(N, k, e, A)'
        <5>1. Guarded(M, k, e, A) BY <3>1, <3>3, <3>4, <4>2
        <5> QED BY <1>3, <5>1 DEF Kept
      <4> QED BY <4>1, <4>2 DEF LeadClaim
    <3>6. CASE m.commit_index_ = node[i].commit_index_
      <4>1. node[i].log_ \in Seq(Entry) BY <3>2 DEF Node
      <4>2. LogStays(i) BY <3>1, <3>3, <3>6, <4>1, BeginsItself DEF LogStays
      <4>3. Advances(N, i) BY <1>3, <3>1, <3>3, <3>5, <4>2, GrowsAdvances
      <4> QED BY <1>5, <1>6, <2>1, <2>2, <4>3
    <3>7. CASE /\ m.commit_index_ > node[i].commit_index_
               /\ \E e \in Entry : Has(node[i].log_, m.commit_index_, e) /\ Sure(M, m.commit_index_, e)
      <4>1. PICK d \in Nat : d = m.commit_index_ BY <3>1 DEF TypeInv, TypeOK, Node
      <4>2. PICK e \in Entry : Has(node[i].log_, d, e) /\ Sure(M, d, e) BY <3>7, <4>1
      <4>3. Sure(N, d, e)' BY <1>3, <4>2, SureKept
      <4>4. Has(node'[i].log_, d, e) /\ node'[i].commit_index_ = d /\ d <= d BY <3>1, <3>3, <4>1, <4>2
      <4>5. CommitClaim(N, i)' BY <4>3, <4>4 DEF CommitClaim
      <4>6. CommitStays(i)
        <5>1. PICK c \in Nat : c = node[i].commit_index_ BY <3>2 DEF Node
        <5>2. c < d /\ d \in 1..Len(node[i].log_) BY <3>7, <4>1, <4>2, <5>1 DEF Has
        <5>3. Len(node[i].log_) \in Nat BY <3>2 DEF Node
        <5>4. \A k \in 1..c : k \in 1..Len(node[i].log_) BY <5>2, <5>3
        <5> QED BY <3>1, <3>3, <4>1, <5>1, <5>2, <5>4 DEF CommitStays
      <4>7. Advances(N, i) BY <3>1, <3>3, <3>5, <4>5, <4>6 DEF Advances
      <4> QED BY <1>5, <1>6, <2>1, <2>2, <4>7
    <3> QED BY <3>4, <3>6, <3>7
  <2> QED BY <1>9, <2>3, <2>4 DEF Handles
<1> QED BY <1>2, <1>7, <1>8, <1>9

\* The requests of a proposal tell nothing, or what its node took for committed.
Note(M, i) ==
    /\ cth[i].pc \in {"send", "ack"} => cth[i].req.leader_commit = 0
    /\ cth[i].pc \in {"notify", "notify_ack"} => Told(M, cth[i].req)

\* A request goes on telling what is sure.
LEMMA ToldKept ==
    ASSUME NEW M, NEW N, M \in SUBSET N, Kept(M, N), NEW r, Told(M, r) PROVE Told(N, r)'
<1>1. CASE r.leader_commit = 0 \/ (r.prev_log_index > 0 /\ r.prev_log_term = 0)
  BY <1>1 DEF Told
<1>2. CASE \E m \in Nat : \E f \in Entry :
             /\ r.leader_commit <= m /\ Sure(M, m, f)
             /\ r.entries = <<>> => m <= r.prev_log_index /\ f.term <= r.prev_log_term
             /\ r.entries # <<>> => \E x \in M : Carries(r, x.log) /\ Has(x.log, m, f)
  <2>1. PICK m \in Nat, f \in Entry :
             /\ r.leader_commit <= m /\ Sure(M, m, f)
             /\ r.entries = <<>> => m <= r.prev_log_index /\ f.term <= r.prev_log_term
             /\ r.entries # <<>> => \E x \in M : Carries(r, x.log) /\ Has(x.log, m, f)
    BY <1>2
  <2>2. Sure(N, m, f)' BY <2>1, SureKept
  <2>3. r.entries # <<>> => \E x \in N : Carries(r, x.log) /\ Has(x.log, m, f) BY <2>1
  <2> QED BY <2>1, <2>2, <2>3 DEF Told
<1> QED BY <1>1, <1>2 DEF Told

\* A proposal that does not move.
LEMMA NoteRests ==
    ASSUME NEW M, NEW N, M \in SUBSET N, Kept(M, N), NEW j \in Server, Note(M, j), cth'[j] = cth[j]
    PROVE  Note(N, j)'
<1>1. PICK t : t = cth[j] OBVIOUS
<1>2. cth'[j] = t BY <1>1
<1>3. t.pc \in {"send", "ack"} => t.req.leader_commit = 0 BY <1>1 DEF Note
<1>4. t.pc \in {"notify", "notify_ack"} => Told(N, t.req)' BY <1>1, ToldKept DEF Note
<1> QED BY <1>2, <1>3, <1>4 DEF Note
\* The client thread.
LEMMA ClientAdvances ==
    ASSUME TypeInv, TypeInv', ElectionInv, ElectionInv', NEW M, MatchInv(M), LastInv(M),
           NEW N, Extends(M, N), MatchInv(N)', Kept(M, N), NEW i \in Server, ClientThread(i),
           \A j \in Server : LeadClaim(M, j) /\ CommitClaim(M, j) /\ Note(M, j)
    PROVE  \A j \in Server : Advances(N, j) /\ Note(N, j)'
<1>0. M \in SUBSET N BY DEF Extends
<1>1. AllUp BY DEF ElectionInv
<1>2. ClientEffect(i) /\ \A j \in Server : j # i => cth'[j] = cth[j] BY <1>1, ClientMoves
<1>3. \A j \in Server : j # i => Note(N, j)' BY <1>0, <1>2, NoteRests
<1>4. AllRetire => \A j \in Server : Advances(N, j) BY RetiresAdvances DEF AllRetire
<1>5. UNCHANGED node => AllRetire BY NoneRetires
<1>6. cth'[i].pc \in {"none", "gap", "commit"} => Note(N, i)' BY DEF Note
<1>7. Note(M, i) /\ Proposal(M, i) /\ CommitClaim(M, i) /\ LeadClaim(M, i) BY DEF LastInv
<1>8. ASSUME NEW e \in Entry, Appends(i, e) PROVE \A j \in Server : Advances(N, j) /\ Note(N, j)'
  <2>1. Only(i) /\ cth'[i].pc = "gap" /\ SameIndexes(node[i], node'[i]) /\ node'[i].log_ = Append(node[i].log_, e)
    BY <1>8 DEF Appends
  <2>2. node[i].log_ \in Seq(Entry) BY DEF TypeInv, TypeOK, Node
  <2>3. LogStays(i) BY <2>1, <2>2, BeginsItself, BeginsAppend DEF LogStays, SameIndexes
  <2>4. LeadClaim(N, i)' BY <1>7, <1>8, LeadAppends DEF MatchInv
  <2>5. Advances(N, i) BY <1>7, <2>1, <2>3, <2>4, GrowsAdvances DEF SameIndexes
  <2>6. \A j \in Server : j # i => Advances(N, j) BY <2>1, OthersAdvance
  <2> QED BY <1>3, <1>6, <2>1, <2>5, <2>6
<1>9. CASE Reads(i)
  <2>1. UNCHANGED node /\ cth'[i].pc \in {"commit", "send"} /\ cth'[i].req.leader_commit = 0
    BY <1>9 DEF Reads, AppendEntriesReq
  <2>2. Note(N, i)' BY <2>1 DEF Note
  <2> QED BY <1>3, <1>4, <1>5, <2>1, <2>2
<1>10. ASSUME NEW from \in {"send", "notify"}, NEW to \in {"ack", "notify_ack"}, Calls(i, from, to),
              from = "send" <=> to = "ack"
       PROVE  \A j \in Server : Advances(N, j) /\ Note(N, j)'
  <2>1. /\ cth[i].pc = from /\ cth'[i].pc = to /\ cth[i].todo \in ToCall(i) /\ cth[i].req \in AppendReq
        /\ cth'[i].req = cth[i].req /\ Delivered(Min(cth[i].todo), cth[i].req, cth'[i].resp)
    BY <1>10 DEF Calls
  <2>2. PICK r \in AppendReq : r = cth[i].req BY <2>1
  <2>3. SureSent(M, r)
    <3>1. CASE from = "send" BY <1>7, <2>1, <2>2, <3>1 DEF Proposal
    <3>2. CASE from = "notify" BY <1>7, <2>1, <2>2, <3>2 DEF Proposal, SureSent
    <3> QED BY <3>1, <3>2
  <2>4. (from = "send" => r.leader_commit = 0) /\ (from = "notify" => Told(M, r))
    BY <1>7, <2>1, <2>2 DEF Note
  <2>5. Told(M, r) BY <2>4 DEF Told
  <2>6. Min(cth[i].todo) \in Server BY <2>1, NextPeer
  <2>7. \A j \in Server : Advances(N, j) BY <2>1, <2>2, <2>3, <2>5, <2>6, DeliveredAdvances DEF MatchInv
  <2>8. Told(N, r)' BY <1>0, <2>5, ToldKept
  <2>9. Note(N, i)' BY <1>10, <2>1, <2>2, <2>4, <2>8 DEF Note
  <2> QED BY <1>3, <2>7, <2>9
<1>11. CASE Counts(i)
  <2>1. AllRetire /\ cth[i].pc = "ack" BY <1>11 DEF Counts
  <2>2. cth'[i].pc \in {"none", "commit"} \/ (cth'[i].pc = "send" /\ cth'[i].req = cth[i].req)
    BY <1>11 DEF Counts
  <2>3. cth[i].req.leader_commit = 0 BY <1>7, <2>1 DEF Note
  <2>4. Note(N, i)' BY <2>2, <2>3 DEF Note
  <2> QED BY <1>3, <1>4, <2>1, <2>4
<1>12. CASE Closes(i)
  <2>1. PICK r : r = cth'[i].req OBVIOUS
  <2>2. /\ UNCHANGED node /\ cth'[i].pc = "notify" /\ r.entries = <<>> /\ r.prev_log_index = Len(node[i].log_)
        /\ r.prev_log_term = TermAt(node[i], Len(node[i].log_)) /\ r.leader_commit = node[i].commit_index_
    BY <1>12, <2>1 DEF Closes, AppendEntriesReq, LastLogIndex
  <2>3. TermAt(node[i], Len(node[i].log_)) = TermOf(node[i].log_, Len(node[i].log_))
    <3>1. node[i].log_ \in Seq(Entry) BY DEF TypeInv, TypeOK, Node
    <3>2. DOMAIN node[i].log_ = 1..Len(node[i].log_) BY <3>1
    <3> QED BY <3>2 DEF TermAt, TermOf
  <2>4. Told(M, r) BY <1>7, <2>2, <2>3, LastTold DEF MatchInv
  <2>5. Told(N, r)' BY <1>0, <2>4, ToldKept
  <2>6. Note(N, i)' BY <2>1, <2>2, <2>5 DEF Note
  <2> QED BY <1>3, <1>4, <1>5, <2>2, <2>6
<1>13. CASE GoesOn(i)
  <2>1. AllRetire /\ cth[i].pc = "notify_ack" /\ cth'[i].pc = "notify" /\ cth'[i].req = cth[i].req
    BY <1>13 DEF GoesOn
  <2>2. PICK r : r = cth[i].req OBVIOUS
  <2>3. Told(M, r) BY <1>7, <2>1, <2>2 DEF Note
  <2>4. Told(N, r)' BY <1>0, <2>3, ToldKept
  <2>5. Note(N, i)' BY <2>1, <2>2, <2>4 DEF Note
  <2> QED BY <1>3, <1>4, <2>1, <2>5
<1>14. CASE Returns(i)
  BY <1>3, <1>4, <1>5, <1>6, <1>14 DEF Returns
<1> QED BY <1>2, <1>8, <1>9, <1>10, <1>11, <1>12, <1>13, <1>14 DEF ClientEffect

\* The state machine of node i was given the log up to last_applied_, which is
\* not beyond what the node takes for committed.
AppliedClaim(i) ==
    /\ Len(applied[i]) = node[i].last_applied_ /\ node[i].last_applied_ <= node[i].commit_index_
    /\ \A k \in 1..Len(applied[i]) : k \in 1..Len(node[i].log_) /\ applied[i][k] = node[i].log_[k]

\* Nothing is applied at node j.
LEMMA AppliedRests ==
    ASSUME TypeInv, TypeInv', NEW j \in Server, AppliedClaim(j), CommitStays(j), applied'[j] = applied[j],
           node'[j].last_applied_ = node[j].last_applied_
    PROVE  AppliedClaim(j)'
<1>1. /\ node[j].last_applied_ \in Nat /\ node[j].commit_index_ \in Nat /\ node'[j].commit_index_ \in Nat
  BY DEF TypeInv, TypeOK, Node
<1>2. PICK a : a = applied[j] OBVIOUS
<1>3. Len(a) = node[j].last_applied_ /\ node[j].last_applied_ <= node[j].commit_index_ /\ applied'[j] = a
  BY <1>2 DEF AppliedClaim
<1>4. \A k \in 1..Len(a) : k \in 1..Len(node'[j].log_) /\ a[k] = node'[j].log_[k]
  <2> SUFFICES ASSUME NEW k \in 1..Len(a) PROVE k \in 1..Len(node'[j].log_) /\ a[k] = node'[j].log_[k]
    OBVIOUS
  <2>1. k \in 1..node[j].commit_index_ BY <1>1, <1>3
  <2>2. a[k] = node[j].log_[k] BY <1>2 DEF AppliedClaim
  <2> QED BY <2>1, <2>2 DEF CommitStays
<1>5. node[j].last_applied_ <= node'[j].commit_index_ BY <1>1, <1>3 DEF CommitStays
<1> QED BY <1>3, <1>4, <1>5 DEF AppliedClaim

\* ApplyLoop gives the next entry, which the log has.
LEMMA AppliesClaim ==
    ASSUME TypeInv, TypeInv', NEW M, NEW i \in Server, AppliedClaim(i), CommitClaim(M, i), Applies(i)
    PROVE  AppliedClaim(i)' /\ \A j \in Server : j # i => applied'[j] = applied[j]
<1>1. PICK a : a = applied[i] OBVIOUS
<1>2. PICK g \in Seq(Entry) : g = node[i].log_ BY DEF TypeInv, TypeOK, Node
<1>3. PICK l \in Nat : l = node[i].last_applied_ BY DEF TypeInv, TypeOK, Node
<1>4. PICK c \in Nat : c = node[i].commit_index_ BY DEF TypeInv, TypeOK, Node
<1>5. a \in Seq(Entry \cup {Garbage}) /\ DOMAIN applied = Server BY <1>1 DEF TypeInv, TypeOK
<1>6. Len(a) = l /\ \A k \in 1..l : k \in 1..Len(g) /\ a[k] = g[k] BY <1>1, <1>2, <1>3 DEF AppliedClaim
<1>7. /\ l < c /\ node'[i].last_applied_ = l + 1 /\ node'[i].commit_index_ = c /\ node'[i].log_ = g
      /\ applied' = [applied EXCEPT ![i] = Append(a, IF l + 1 \in DOMAIN g THEN g[l + 1] ELSE Garbage)]
  BY <1>1, <1>2, <1>3, <1>4, <1>5 DEF Applies, Calm
<1>8. l + 1 \in 1..Len(g)
  <2>1. PICK m \in Nat : c <= m /\ m \in 1..Len(g) BY <1>2, <1>4, <1>7 DEF CommitClaim, Has
  <2> QED BY <1>7, <2>1
<1>9. DOMAIN g = 1..Len(g) /\ g[l + 1] \in Entry BY <1>2, <1>8
<1>10. PICK b : b = Append(a, g[l + 1]) OBVIOUS
<1>11. applied'[i] = b /\ \A j \in Server : j # i => applied'[j] = applied[j] BY <1>5, <1>7, <1>8, <1>9, <1>10
<1>12. Len(b) = l + 1 /\ b[l + 1] = g[l + 1] /\ \A k \in 1..l : b[k] = a[k] BY <1>5, <1>6, <1>9, <1>10
<1>13. \A k \in 1..(l + 1) : k \in 1..Len(g) /\ b[k] = g[k]
  <2> SUFFICES ASSUME NEW k \in 1..(l + 1) PROVE k \in 1..Len(g) /\ b[k] = g[k] OBVIOUS
  <2>1. CASE k = l + 1 BY <1>8, <1>12, <2>1
  <2>2. CASE k \in 1..l BY <1>6, <1>12, <2>2
  <2> QED BY <2>1, <2>2
<1> QED BY <1>7, <1>11, <1>12, <1>13 DEF AppliedClaim
-----------------------------------------------------------------------------
(* What is committed.                                                       *)

TopInv(M) == \A i \in Server :
    LeadClaim(M, i) /\ CommitClaim(M, i) /\ Replied(i) /\ Note(M, i) /\ AppliedClaim(i)

\* What is left to see of a step that does not apply anything.
LEMMA TopAdvances ==
    ASSUME TypeInv, TypeInv', NEW M, TopInv(M), NEW N, UNCHANGED applied,
           \A j \in Server : Advances(N, j) /\ Replied(j)' /\ Note(N, j)'
    PROVE  TopInv(N)' /\ \A j \in Server : CommitStays(j)
<1>1. ASSUME NEW j \in Server PROVE AppliedClaim(j)' /\ CommitStays(j)
  <2>1. CommitStays(j) /\ node'[j].last_applied_ = node[j].last_applied_ BY DEF Advances
  <2> QED BY <2>1, AppliedRests DEF TopInv
<1> QED BY <1>1 DEF TopInv, Advances

\* Every step.
LEMMA TopNext ==
    ASSUME Cardinality(Server) % 2 = 1, "hb_send" \notin Preemptible, "hb_reply" \notin Preemptible,
           TypeInv, TypeInv', ElectionInv, ElectionInv', [Next]_vars,
           NEW M, MatchInv(M), LastInv(M), TopInv(M),
           NEW N, Extends(M, N), MatchInv(N)', Kept(M, N)
    PROVE  TopInv(N)' /\ \A j \in Server : CommitStays(j)
<1>1. VoteInv /\ BeatInv /\ AllUp BY DEF LastInv, ElectionInv
<1>2. M \in SUBSET N BY DEF Extends
<1>3. \A j \in Server : LeadClaim(M, j) /\ CommitClaim(M, j) /\ Replied(j) /\ Note(M, j) BY DEF TopInv
<1>4. UNCHANGED cth => \A j \in Server : Note(N, j)' BY <1>2, <1>3, NoteRests
<1>5. ASSUME NEW i \in Server, ElectionThread(i) PROVE TopInv(N)' /\ \A j \in Server : CommitStays(j)
  <2>1. Turn("e", i) /\ UNCHANGED <<hth, cth, applied>> BY <1>1, <1>5, ElectionMoves
  <2>2. \A j \in Server : hth[j].pc # "hb_reply" BY <2>1, ReplyAlone
  <2>3. \A j \in Server : Replied(j)' BY <2>1, <2>2 DEF Replied
  <2>4. \A j \in Server : Advances(N, j) BY <1>1, <1>3, <1>5, ElectionAdvances
  <2> QED BY <1>4, <2>1, <2>3, <2>4, TopAdvances
<1>6. ASSUME NEW i \in Server, HeartbeatThread(i) PROVE TopInv(N)' /\ \A j \in Server : CommitStays(j)
  <2>1. UNCHANGED <<cth, applied>> BY <1>1, <1>6, HeartbeatMoves
  <2>2. \A j \in Server : Advances(N, j) /\ Replied(j)' BY <1>1, <1>3, <1>6, HeartbeatAdvances
  <2> QED BY <1>4, <2>1, <2>2, TopAdvances
<1>7. ASSUME NEW i \in Server, ClientThread(i) PROVE TopInv(N)' /\ \A j \in Server : CommitStays(j)
  <2>1. Turn("c", i) /\ UNCHANGED <<hth, applied>> BY <1>1, <1>7, ClientMoves
  <2>2. \A j \in Server : hth[j].pc # "hb_reply" BY <2>1, ReplyAlone
  <2>3. \A j \in Server : Replied(j)' BY <2>1, <2>2 DEF Replied
  <2>4. \A j \in Server : Advances(N, j) /\ Note(N, j)' BY <1>3, <1>7, ClientAdvances
  <2> QED BY <2>1, <2>3, <2>4, TopAdvances
<1>8. ASSUME NEW i \in Server, Apply(i) PROVE TopInv(N)' /\ \A j \in Server : CommitStays(j)
  <2>1. Applies(i) /\ Urgent = {} /\ UNCHANGED <<eth, hth, cth>> BY <1>8, ApplyMoves
  <2>2. Turn("e", i) BY <2>1 DEF Turn
  <2>3. \A j \in Server : hth[j].pc # "hb_reply" BY <2>2, ReplyAlone
  <2>4. \A j \in Server : Replied(j)' BY <2>1, <2>3 DEF Replied
  <2>5. Only(i) BY <2>1 DEF Applies
  <2>6. \A j \in Server : j # i => Advances(N, j) BY <1>3, <2>5, OthersAdvance
  <2>7. LeadKept(i) BY <2>1 DEF LeadKept, Applies, Calm
  <2>8. node[i].log_ \in Seq(Entry) BY DEF TypeInv, TypeOK, Node
  <2>9. LogStays(i) BY <2>1, <2>8, BeginsItself DEF LogStays, Applies, Calm
  <2>10. LeadClaim(N, i)' /\ CommitClaim(N, i)' /\ CommitStays(i) BY <1>3, <2>7, <2>9, LeadRests, CommitRests
  <2>11. AppliedClaim(i)' /\ \A j \in Server : j # i => applied'[j] = applied[j]
    BY <1>3, <2>1, AppliesClaim DEF TopInv
  <2>12. ASSUME NEW j \in Server, j # i PROVE AppliedClaim(j)'
    <3>1. CommitStays(j) /\ node'[j].last_applied_ = node[j].last_applied_ BY <2>6, <2>12 DEF Advances
    <3> QED BY <2>11, <2>12, <3>1, AppliedRests DEF TopInv
  <2> QED BY <1>4, <2>1, <2>4, <2>6, <2>10, <2>11, <2>12 DEF TopInv, Advances
<1>9. CASE UNCHANGED <<node, eth, hth, cth, ballots, applied, acked>>
  <2>1. \A j \in Server : Replied(j)' BY <1>3, <1>9 DEF Replied, IsLeader
  <2>2. \A j \in Server : Retires(node[j], node'[j]) BY <1>9, NoneRetires DEF AllRetire
  <2>3. \A j \in Server : Advances(N, j) BY <1>3, <2>2, RetiresAdvances
  <2> QED BY <1>4, <1>9, <2>1, <2>3, TopAdvances
<1> QED BY <1>5, <1>6, <1>7, <1>8, <1>9, NextSteps

\* Nobody leads, has committed anything or has applied anything.
LEMMA TopInit == Init => TopInv(Before)
<1> SUFFICES ASSUME Init, NEW i \in Server
             PROVE  /\ LeadClaim(Before, i) /\ CommitClaim(Before, i) /\ Replied(i)
                    /\ Note(Before, i) /\ AppliedClaim(i)
  BY DEF TopInv
<1>1. /\ node[i].role_ = "Follower" /\ node[i].commit_index_ = 0 /\ node[i].last_applied_ = 0
      /\ hth[i].pc = "sleep" /\ cth[i].pc = "none" /\ applied[i] = <<>>
  BY DEF Init, NewNode, Asleep, NoCall
<1>2. LeadClaim(Before, i) /\ CommitClaim(Before, i) /\ Replied(i) /\ Note(Before, i)
  BY <1>1 DEF LeadClaim, CommitClaim, Replied, Note, IsLeader
<1>3. AppliedClaim(i) BY <1>1 DEF AppliedClaim
<1> QED BY <1>2, <1>3
CommitInv == \E M : MatchInv(M) /\ LastInv(M) /\ TopInv(M)

\* The schedules in which commitment is safe.
Orderly == "gap" \notin Preemptible /\ "hb_send" \notin Preemptible /\ "hb_reply" \notin Preemptible

\* The invariant holds at first,
LEMMA CommitInit == Init => CommitInv
  BY MatchInit, LastInit, TopInit DEF CommitInv

\* and every step keeps it and what was committed.
LEMMA CommitNext ==
    ASSUME Orderly, Cardinality(Server) % 2 = 1, TypeInv, TypeInv', ElectionInv, ElectionInv',
           CommitInv, [Next]_vars
    PROVE  CommitInv' /\ \A j \in Server : CommitStays(j)
<1>1. PICK M : MatchInv(M) /\ LastInv(M) /\ TopInv(M) BY DEF CommitInv
<1>2. PICK N : Extends(M, N) BY DEF Extends
<1>3. MatchInv(N)' BY <1>1, <1>2, MatchNext DEF Orderly
<1>4. LastInv(N)' /\ Kept(M, N) BY <1>1, <1>2, LastNext DEF Orderly
<1>5. TopInv(N)' /\ \A j \in Server : CommitStays(j) BY <1>1, <1>2, <1>3, <1>4, TopNext DEF Orderly
<1> QED BY <1>3, <1>4, <1>5 DEF CommitInv

\* The logs of two nodes agree on what both take for committed.
LEMMA CommittedAgree ==
    ASSUME TypeInv, CommitInv, NEW i \in Server, NEW j \in Server,
           NEW k \in 1..node[i].commit_index_, k \in 1..node[j].commit_index_
    PROVE  node[i].log_[k] = node[j].log_[k]
<1>2. PICK M : CoreInv(M) /\ TopInv(M) BY DEF CommitInv, MatchInv
<1>3. PICK c \in Nat : c = node[i].commit_index_ BY DEF TypeInv, TypeOK, Node
<1>4. PICK d \in Nat : d = node[j].commit_index_ BY DEF TypeInv, TypeOK, Node
<1>5. k \in 1..c /\ k \in 1..d BY <1>3, <1>4
<1>6. PICK a \in Nat, e \in Entry : c <= a /\ Has(node[i].log_, a, e) /\ Sure(M, a, e)
  BY <1>2, <1>3, <1>5 DEF TopInv, CommitClaim
<1>7. PICK b \in Nat, f \in Entry : d <= b /\ Has(node[j].log_, b, f) /\ Sure(M, b, f)
  BY <1>2, <1>4, <1>5 DEF TopInv, CommitClaim
<1>8. PICK x \in M : x.log = node[i].log_ BY <1>2 DEF CoreInv, NodeLogs, Sourced
<1>9. PICK y \in M : y.log = node[j].log_ BY <1>2 DEF CoreInv, NodeLogs, Sourced
<1>10. Lineage(M) /\ LaterHave(M, a, e) /\ LaterHave(M, b, f) BY <1>2, <1>6, <1>7, SureHeld DEF CoreInv
<1>11. Has(x.log, a, e) /\ Has(y.log, b, f) BY <1>6, <1>7, <1>8, <1>9
<1>12. a \in 1..Len(x.log) /\ x.log[a] = e /\ b \in 1..Len(y.log) /\ y.log[b] = f BY <1>11 DEF Has
<1>13. k \in 1..a /\ k \in 1..b BY <1>5, <1>6, <1>7
<1>14. e.term \in Nat /\ f.term \in Nat BY DEF Entry
<1>15. CASE f.term > e.term \/ (f.term = e.term /\ a <= b)
  <2>1. y.log[b].term > e.term \/ (y.log[b].term = e.term /\ a <= b) BY <1>12, <1>15
  <2>2. \A l \in 1..a : l \in 1..Len(y.log) /\ x.log[l] = y.log[l] BY <1>10, <1>11, <1>12, <2>1, SurePrefix
  <2> QED BY <1>8, <1>9, <1>13, <2>2
<1>16. CASE e.term > f.term \/ (e.term = f.term /\ b <= a)
  <2>1. x.log[a].term > f.term \/ (x.log[a].term = f.term /\ b <= a) BY <1>12, <1>16
  <2>2. \A l \in 1..b : l \in 1..Len(x.log) /\ y.log[l] = x.log[l] BY <1>10, <1>11, <1>12, <2>1, SurePrefix
  <2> QED BY <1>8, <1>9, <1>13, <2>2
<1> QED BY <1>14, <1>15, <1>16

\* ApplyLoop never reads past the end of the log.
LEMMA CommitsWithin == ASSUME TypeInv, CommitInv PROVE CommitWithinLog
<1> SUFFICES ASSUME NEW i \in Server PROVE node[i].commit_index_ <= Len(node[i].log_)
  BY DEF CommitWithinLog
<1>1. PICK c \in Nat : c = node[i].commit_index_ BY DEF TypeInv, TypeOK, Node
<1>2. PICK g \in Seq(Entry) : g = node[i].log_ BY DEF TypeInv, TypeOK, Node
<1>3. Len(g) \in Nat BY <1>2
<1>4. CASE c > 0
  <2>1. PICK M : TopInv(M) BY DEF CommitInv
  <2>2. PICK m \in Nat, e \in Entry : c <= m /\ Has(g, m, e)
    BY <1>1, <1>2, <1>4, <2>1 DEF TopInv, CommitClaim
  <2> QED BY <1>1, <1>2, <1>3, <2>2 DEF Has
<1> QED BY <1>1, <1>2, <1>3, <1>4

\* The state machines were given what the logs agree on.
LEMMA AppliedAgree == ASSUME TypeInv, CommitInv PROVE StateMachineSafety
<1> SUFFICES ASSUME NEW i \in Server, NEW j \in Server,
                    NEW k \in DOMAIN applied[i] \cap DOMAIN applied[j]
             PROVE  applied[i][k] = applied[j][k]
  BY DEF StateMachineSafety
<1>1. AppliedClaim(i) /\ AppliedClaim(j) BY DEF CommitInv, TopInv
<1>2. applied[i] \in Seq(Entry \cup {Garbage}) /\ applied[j] \in Seq(Entry \cup {Garbage})
  BY DEF TypeInv, TypeOK
<1>3. k \in 1..Len(applied[i]) /\ k \in 1..Len(applied[j]) BY <1>2
<1>4. applied[i][k] = node[i].log_[k] /\ applied[j][k] = node[j].log_[k] BY <1>1, <1>3 DEF AppliedClaim
<1>5. \A l \in Server : node[l].commit_index_ \in Nat /\ node[l].last_applied_ \in Nat
  BY DEF TypeInv, TypeOK, Node
<1>6. k \in 1..node[i].commit_index_ /\ k \in 1..node[j].commit_index_ BY <1>1, <1>3, <1>5 DEF AppliedClaim
<1> QED BY <1>4, <1>6, CommittedAgree

\* The majority that can be counted for an entry has all that is before it.
LEMMA MajorityHolds == ASSUME TypeInv, CommitInv PROVE CommittedByMajority
<1> SUFFICES ASSUME NEW i \in Server, IsLeader(i), node[i].commit_index_ > 0,
                    NEW e, e = node[i].log_[node[i].commit_index_]
             PROVE  Majority({j \in Server : e \in Entries(j)})
  BY DEF CommittedByMajority
<1>1. PICK M : CoreInv(M) /\ TopInv(M) BY DEF CommitInv, MatchInv
<1>2. PICK c \in Nat : c = node[i].commit_index_ BY DEF TypeInv, TypeOK, Node
<1>3. PICK m \in Nat, f \in Entry : c <= m /\ Has(node[i].log_, m, f) /\ Sure(M, m, f)
  BY <1>1, <1>2 DEF TopInv, CommitClaim
<1>4. PICK A \in SUBSET Server : Majority(A) /\ Guarded(M, m, f, A) BY <1>3 DEF Sure
<1>5. Held(m, f, A) BY <1>4, MajorityFirm DEF Firm
<1>6. PICK x \in M : x.log = node[i].log_ BY <1>1 DEF CoreInv, NodeLogs, Sourced
<1>7. ASSUME NEW j \in A PROVE e \in Entries(j)
  <2>1. PICK y \in M : y.log = node[j].log_ BY <1>1 DEF CoreInv, NodeLogs, Sourced
  <2>2. /\ m \in 1..Len(x.log) /\ m \in 1..Len(y.log) /\ m <= m
        /\ x.log[m].term = y.log[m].term
    BY <1>3, <1>5, <1>6, <1>7, <2>1 DEF Held, Has
  <2>3. \A k \in 1..m : k \in 1..Len(y.log) /\ x.log[k] = y.log[k] BY <1>1, <2>2, LineageMatch DEF CoreInv
  <2>4. c \in 1..m BY <1>2, <1>3
  <2>5. c \in 1..Len(node[j].log_) /\ e = node[j].log_[c] BY <1>2, <1>6, <2>1, <2>3, <2>4
  <2>6. node[j].log_ \in Seq(Entry) BY <1>7 DEF TypeInv, TypeOK, Node
  <2> QED BY <2>5, <2>6 DEF Entries
<1>8. A \in SUBSET {j \in Server : e \in Entries(j)} BY <1>7
<1> QED BY <1>4, <1>8, MajorityGrows

\* What CommitFinal says of one step.
StepFinal == \A i \in Server :
    LET c == node[i].commit_index_
    IN  i \in registered =>
          /\ node'[i].commit_index_ >= c
          /\ \A k \in 1..c : /\ k \in DOMAIN node'[i].log_
                             /\ node'[i].log_[k] = node[i].log_[k]

\* Every step keeps what was committed.
LEMMA NothingTakenBack == ASSUME TypeInv', \A j \in Server : CommitStays(j) PROVE StepFinal
<1> SUFFICES ASSUME NEW i \in Server
             PROVE  /\ node'[i].commit_index_ >= node[i].commit_index_
                    /\ \A k \in 1..node[i].commit_index_ : /\ k \in DOMAIN node'[i].log_
                                                           /\ node'[i].log_[k] = node[i].log_[k]
  BY DEF StepFinal
<1>1. node'[i].log_ \in Seq(Entry) BY DEF TypeInv, TypeOK, Node
<1> QED BY <1>1 DEF CommitStays

\* A node never takes for committed more entries than its log has, so ApplyLoop
\* never reads past the end of log_: for any odd number of nodes and any number
\* of operations and elections, in the schedules of Orderly and without
\* restarts.  With an even number AdvanceCommitIndexLocked is content with half
\* of the nodes; a restart forgets votes and entries; a heartbeat that was built
\* earlier cuts off what was committed since; and the late answer to a heartbeat
\* counts for whatever the log holds by then.
THEOREM CommitsAreStored ==
    ASSUME MaxStops = 0, Orderly, Cardinality(Server) % 2 = 1
    PROVE  Spec => []CommitWithinLog
<1> DEFINE Inv == Unstopped /\ CommitInv
<1>1. Init => Inv BY UnstoppedInit, CommitInit
<1>2. Inv /\ [Next]_vars => Inv' BY UnstoppedNext, CommitNext DEF Unstopped
<1>3. Inv => CommitWithinLog BY CommitsWithin DEF Unstopped
<1> QED BY <1>1, <1>2, <1>3, PTL DEF Spec

\* ApplyLoop gives the stores of two nodes the same operations in the same
\* order, under the hypotheses of CommitsAreStored.
THEOREM SameOperations ==
    ASSUME MaxStops = 0, Orderly, Cardinality(Server) % 2 = 1
    PROVE  Spec => []StateMachineSafety
<1> DEFINE Inv == Unstopped /\ CommitInv
<1>1. Init => Inv BY UnstoppedInit, CommitInit
<1>2. Inv /\ [Next]_vars => Inv' BY UnstoppedNext, CommitNext DEF Unstopped
<1>3. Inv => StateMachineSafety BY AppliedAgree DEF Unstopped
<1> QED BY <1>1, <1>2, <1>3, PTL DEF Spec

\* What a leader takes for committed is in the logs of a majority, under the
\* hypotheses of CommitsAreStored.
THEOREM MajorityCommits ==
    ASSUME MaxStops = 0, Orderly, Cardinality(Server) % 2 = 1
    PROVE  Spec => []CommittedByMajority
<1> DEFINE Inv == Unstopped /\ CommitInv
<1>1. Init => Inv BY UnstoppedInit, CommitInit
<1>2. Inv /\ [Next]_vars => Inv' BY UnstoppedNext, CommitNext DEF Unstopped
<1>3. Inv => CommittedByMajority BY MajorityHolds DEF Unstopped
<1> QED BY <1>1, <1>2, <1>3, PTL DEF Spec

\* No step moves commit_index_ back or changes an entry below it, although
\* OnAppendEntries truncates: under the hypotheses of CommitsAreStored.
THEOREM CommitmentIsFinal ==
    ASSUME MaxStops = 0, Orderly, Cardinality(Server) % 2 = 1
    PROVE  Spec => CommitFinal
<1> DEFINE Inv == Unstopped /\ CommitInv
<1>1. Init => Inv BY UnstoppedInit, CommitInit
<1>2. Inv /\ [Next]_vars => Inv' /\ StepFinal
  BY UnstoppedNext, CommitNext, NothingTakenBack DEF Unstopped
<1> QED BY <1>1, <1>2, PTL DEF Spec, CommitFinal, StepFinal
-----------------------------------------------------------------------------
(* One log: the cluster implements ReplicatedLog.                           *)

\* In all the logs that leaders had, an operation was proposed and has one
\* position.
OnceInv(M) == \A x, y \in M : \A k \in 1..Len(x.log), l \in 1..Len(y.log) :
    x.log[k].cmd \in proposed /\ (x.log[k].cmd = y.log[l].cmd => k = l)

\* The leaders after a step have the logs they had before.
LeadersKeep == \A j \in Server : node'[j].role_ = "Leader" => node'[j].log_ = node[j].log_

\* What is left of CommitInv and OnceInv when the set of tenures is forgotten.
LogInv == \E M : MatchInv(M) /\ LastInv(M) /\ TopInv(M) /\ OnceInv(M)

\* Logs that only one node changes.
LEMMA CalmLeadersKeep ==
    ASSUME NEW p \in Server, Only(p), Calm(node[p], node'[p]) \/ node'[p].role_ = "Follower"
    PROVE  LeadersKeep
  BY DEF LeadersKeep, Only, Calm

\* A call makes the receiver follow or leaves its log alone.
LEMMA DeliveredLeadersKeep ==
    ASSUME NEW p \in Server, NEW req, NEW resp, Delivered(p, req, resp) PROVE LeadersKeep
  BY CalmLeadersKeep DEF Delivered, Retires, Accepts

\* The peer that a thread calls.
LEMMA CalledPeer == ASSUME NEW i \in Server, NEW S \in ToCall(i) PROVE Min(S) \in Server
<1>1. S \in SUBSET Nat /\ S # {} /\ S \in SUBSET Server BY RaftAssumption DEF ToCall, Peers
<1> QED BY <1>1, MinIsLeast

\* The election threads change no log.
LEMMA ElectionLeadersKeep ==
    ASSUME TypeInv, AllUp, NEW i \in Server, ElectionThread(i) PROVE LeadersKeep /\ UNCHANGED <<proposed, applied>>
<1>1. ElectionEffect(i) BY ElectionMoves
<1>2. UNCHANGED <<proposed, applied>>
  BY DEF ElectionThread, ElectionTimeout, ElectionAsk, ElectionReply, history
<1>3. LeadersKeep
  BY <1>1 DEF ElectionEffect, Stands, Votes, Wins, AllRetire, Retires, Calm, Only, LeadersKeep
<1> QED BY <1>2, <1>3

\* The heartbeat threads change the logs of followers.
LEMMA HeartbeatLeadersKeep ==
    ASSUME TypeInv, AllUp, NEW i \in Server, HeartbeatThread(i) PROVE LeadersKeep /\ UNCHANGED <<proposed, applied>>
<1>1. Beats(i) \/ Sends(i) \/ Handles(i) BY HeartbeatMoves
<1>2. UNCHANGED <<proposed, applied>>
  BY DEF HeartbeatThread, HeartbeatTick, HeartbeatBuild, HeartbeatSend, HeartbeatReply, history
<1>3. CASE Beats(i) BY <1>2, <1>3 DEF Beats, LeadersKeep
<1>4. CASE Sends(i) BY <1>2, <1>4, CalledPeer, DeliveredLeadersKeep DEF Sends
<1>5. CASE Handles(i)
  <2>1. node[i] \in Node(i) BY DEF TypeInv, TypeOK
  <2>2. Only(i) /\ Calm(node[i], node'[i])
    BY <1>5, <2>1, AfterReplyCalm DEF Handles, Retires
  <2> QED BY <1>2, <2>2, CalmLeadersKeep
<1> QED BY <1>1, <1>3, <1>4, <1>5

\* A proposal adds one operation that was not proposed before to its own log.
Adds(i, c) ==
    /\ Only(i) /\ SameIndexes(node[i], node'[i]) /\ IsLeader(i) /\ node'[i].role_ = "Leader"
    /\ node'[i].log_ = Append(node[i].log_, [term |-> node[i].current_term_, cmd |-> c])
    /\ c \notin proposed /\ proposed' = proposed \cup {c} /\ UNCHANGED applied

\* The first step of a proposal.
LEMMA ProposeAdds ==
    ASSUME TypeInv, NEW i \in Server, NEW c \in Cmd, Propose(i, c) PROVE Adds(i, c)
<1> DEFINE n == node[i]  m == [n EXCEPT !.log_ = Append(@, [term |-> n.current_term_, cmd |-> c])]
<1>1. n \in Node(i) /\ DOMAIN node = Server BY DEF TypeInv, TypeOK
<1>2. /\ node' = [node EXCEPT ![i] = m] /\ c \notin proposed /\ proposed' = proposed \cup {c}
      /\ UNCHANGED applied /\ IsLeader(i)
  BY DEF Propose, IsLeader
<1>3. /\ SameIndexes(n, m) /\ m.role_ = n.role_
      /\ m.log_ = Append(n.log_, [term |-> n.current_term_, cmd |-> c])
  BY <1>1 DEF SameIndexes, Node
<1> HIDE DEF m
<1>4. node'[i] = m /\ Only(i) BY <1>1, <1>2 DEF Only
<1> QED BY <1>2, <1>3, <1>4 DEF Adds, IsLeader

\* The other steps of a proposal change the logs of followers.
LEMMA ClientLeadersKeep ==
    ASSUME TypeInv, AllUp, NEW i \in Server, ClientStep(i) PROVE LeadersKeep /\ UNCHANGED <<proposed, applied>>
<1>1. UNCHANGED <<proposed, applied>>
  BY DEF ClientStep, ProposeRead, ProposeSend, ProposeCall, ProposeAck, ProposeCommit,
         ProposeNotify, ProposeNotifyAck, ProposeReturn, history
<1>2. cth[i].pc # "none"
  BY DEF ClientStep, ProposeRead, ProposeSend, ProposeCall, ProposeAck, ProposeCommit,
         ProposeNotify, ProposeNotifyAck, ProposeReturn
<1>3. ClientEffect(i) BY ClientMoves DEF ClientThread
<1>4. ~\E e \in Entry : Appends(i, e) BY <1>2 DEF Appends
<1>5. CASE Calls(i, "send", "ack") \/ Calls(i, "notify", "notify_ack")
  BY <1>1, <1>5, CalledPeer, DeliveredLeadersKeep DEF Calls
<1>6. CASE Counts(i) \/ GoesOn(i)
  BY <1>1, <1>6 DEF Counts, GoesOn, AllRetire, Retires, Calm, LeadersKeep
<1>7. CASE Reads(i) \/ Closes(i) \/ Returns(i)
  BY <1>1, <1>7 DEF Reads, Closes, Returns, LeadersKeep
<1> QED BY <1>3, <1>4, <1>5, <1>6, <1>7 DEF ClientEffect

\* The kinds of steps, for the operations and the logs they are in.
LEMMA LogSteps ==
    ASSUME TypeInv, ElectionInv, ElectionInv', [Next]_vars
    PROVE  \/ \E i \in Server, c \in Cmd : Adds(i, c)
           \/ \E i \in Server : Applies(i) /\ LeadersKeep /\ UNCHANGED proposed
           \/ LeadersKeep /\ UNCHANGED <<proposed, applied>>
<1>0. AllUp BY DEF ElectionInv
<1>1. ASSUME NEW i \in Server, ClientThread(i)
      PROVE  (\E c \in Cmd : Adds(i, c)) \/ (LeadersKeep /\ UNCHANGED <<proposed, applied>>)
  BY <1>0, <1>1, ProposeAdds, ClientLeadersKeep DEF ClientThread, ProposePut, ProposeDel
<1>2. ASSUME NEW i \in Server, Apply(i) PROVE Applies(i) /\ LeadersKeep /\ UNCHANGED proposed
  <2>1. Applies(i) BY <1>2, ApplyMoves
  <2>2. LeadersKeep BY <2>1, CalmLeadersKeep DEF Applies
  <2> QED BY <1>2, <2>1, <2>2 DEF Apply
<1>3. ASSUME NEW i \in Server, Unregister(i) \/ Restart(i) PROVE FALSE
  BY <1>3 DEF Unregister, Restart, ElectionInv, AllUp
<1>4. ASSUME NEW i \in Server, Stop(i) PROVE LeadersKeep /\ UNCHANGED <<proposed, applied>>
  BY <1>4 DEF Stop, threads, history, LeadersKeep
<1>5. CASE UNCHANGED vars
  BY <1>5 DEF vars, LeadersKeep
<1> QED BY <1>0, <1>1, <1>2, <1>3, <1>4, <1>5, ElectionLeadersKeep, HeartbeatLeadersKeep DEF Next

\* No operation is in a log at first.
LEMMA OnceInit == OnceInv(Before)
<1> DEFINE x == [term |-> 0, log |-> <<>>]
<1>1. x.log = <<>> /\ Len(x.log) = 0 /\ Before = {x} BY DEF Before
<1> HIDE DEF x
<1> QED BY <1>1 DEF OnceInv

\* A step that adds no operation.
LEMMA OnceRests ==
    ASSUME NEW M, NodeLogs(M), OnceInv(M), LeadersKeep, UNCHANGED proposed, NEW N, Extends(M, N)
    PROVE  OnceInv(N)'
<1>1. ASSUME NEW x \in N PROVE \E y \in M : y.log = x.log
  <2>1. CASE x \in M BY <2>1
  <2>2. ASSUME NEW j \in Server, node'[j].role_ = "Leader", x = Now(j)' PROVE \E y \in M : y.log = x.log
    <3>1. x.log = node[j].log_ BY <2>2 DEF Now, LeadersKeep
    <3> QED BY <3>1 DEF NodeLogs, Sourced
  <2> QED BY <2>1, <2>2 DEF Extends
<1> QED BY <1>1 DEF OnceInv

\* A step that adds one.
LEMMA OnceAdds ==
    ASSUME TypeInv, NEW M, CoreInv(M), OnceInv(M), NEW i \in Server, NEW c \in Cmd, Adds(i, c),
           NEW N, Extends(M, N)
    PROVE  OnceInv(N)'
<1>1. N = M \cup {Now(i)'} BY OneExtends DEF Adds, CoreInv
<1>2. PICK g \in Seq(Entry) : g = node[i].log_ BY DEF TypeInv, TypeOK, Node
<1>3. PICK z \in M : z.log = g BY <1>2 DEF CoreInv, NodeLogs, Sourced
<1>4. PICK e \in Entry : e = [term |-> node[i].current_term_, cmd |-> c] BY DEF TypeInv, TypeOK, Node, Entry
<1>5. PICK h : h = Append(g, e) OBVIOUS
<1>6. /\ Len(h) = Len(g) + 1 /\ Len(g) \in Nat /\ h[Len(g) + 1] = e /\ \A k \in 1..Len(g) : h[k] = g[k]
  BY <1>2, <1>4, <1>5
<1>7. e.cmd = c /\ c \notin proposed /\ proposed' = proposed \cup {c} BY <1>4 DEF Adds
<1>8. PICK new : new = Now(i)' OBVIOUS
<1>9. new.log = h BY <1>2, <1>4, <1>5, <1>8 DEF Now, Adds
<1>10. \A x \in M : \A k \in 1..Len(x.log) : x.log[k].cmd \in proposed BY DEF OnceInv
<1>11. \A k \in 1..Len(h) : k \in 1..Len(g) \/ k = Len(g) + 1 BY <1>6
<1>12. \A k \in 1..Len(h) : h[k].cmd \in proposed' BY <1>3, <1>6, <1>7, <1>10, <1>11
<1>13. ASSUME NEW y \in M, NEW k \in 1..Len(h), NEW l \in 1..Len(y.log), h[k].cmd = y.log[l].cmd PROVE k = l
  <2>1. CASE k \in 1..Len(g)
    <3>1. z.log[k].cmd = y.log[l].cmd /\ k \in 1..Len(z.log) BY <1>3, <1>6, <1>13, <2>1
    <3> QED BY <3>1 DEF OnceInv
  <2>2. CASE k = Len(g) + 1 BY <1>6, <1>7, <1>10, <1>13, <2>2
  <2> QED BY <1>11, <2>1, <2>2
<1>14. ASSUME NEW k \in 1..Len(h), NEW l \in 1..Len(h), h[k].cmd = h[l].cmd PROVE k = l
  <2>1. CASE l \in 1..Len(g)
    <3>1. l \in 1..Len(z.log) /\ h[k].cmd = z.log[l].cmd BY <1>3, <1>6, <1>14, <2>1
    <3> QED BY <1>13, <3>1
  <2>2. CASE k \in 1..Len(g)
    <3>1. k \in 1..Len(z.log) /\ h[l].cmd = z.log[k].cmd BY <1>3, <1>6, <1>14, <2>2
    <3> QED BY <1>13, <3>1
  <2> QED BY <1>11, <2>1, <2>2
<1>15. ASSUME NEW x \in N, NEW y \in N, NEW k \in 1..Len(x.log), NEW l \in 1..Len(y.log)
       PROVE  x.log[k].cmd \in proposed' /\ (x.log[k].cmd = y.log[l].cmd => k = l)
  <2>1. x.log[k].cmd \in proposed' BY <1>1, <1>7, <1>8, <1>9, <1>10, <1>12
  <2>2. CASE x \in M /\ y \in M BY <2>1, <2>2 DEF OnceInv
  <2>3. CASE x = new /\ y \in M BY <1>9, <1>13, <2>1, <2>3
  <2>4. CASE x \in M /\ y = new BY <1>9, <1>13, <2>1, <2>4
  <2>5. CASE x = new /\ y = new BY <1>9, <1>14, <2>1, <2>5
  <2> QED BY <1>1, <1>8, <2>2, <2>3, <2>4, <2>5
<1> QED BY <1>15 DEF OnceInv

\* The invariant and every step.
LEMMA LogNext ==
    ASSUME Orderly, Cardinality(Server) % 2 = 1, TypeInv, TypeInv', ElectionInv, ElectionInv',
           LogInv, [Next]_vars
    PROVE  LogInv' /\ \A j \in Server : CommitStays(j)
<1>1. PICK M : MatchInv(M) /\ LastInv(M) /\ TopInv(M) /\ OnceInv(M) BY DEF LogInv
<1>2. PICK N : Extends(M, N) BY DEF Extends
<1>3. MatchInv(N)' BY <1>1, <1>2, MatchNext DEF Orderly
<1>4. LastInv(N)' /\ Kept(M, N) BY <1>1, <1>2, LastNext DEF Orderly
<1>5. TopInv(N)' /\ \A j \in Server : CommitStays(j) BY <1>1, <1>2, <1>3, <1>4, TopNext DEF Orderly
<1>6. CoreInv(M) /\ NodeLogs(M) BY <1>1 DEF MatchInv, CoreInv
<1>7. OnceInv(N)' BY <1>1, <1>2, <1>6, LogSteps, OnceRests, OnceAdds
<1> QED BY <1>3, <1>4, <1>5, <1>7 DEF LogInv

\* The chosen log has what any node takes for committed, and its operations
\* were proposed and have one position each.
ChosenGood ==
    /\ Chosen \in Seq(Cmd) /\ Len(Chosen) \in Nat
    /\ \A j \in Server : /\ node[j].commit_index_ <= Len(Chosen)
                         /\ \A k \in 1..node[j].commit_index_ : Chosen[k] = node[j].log_[k].cmd
    /\ \E j \in Server : node[j].commit_index_ = Len(Chosen)
    /\ \A k, l \in 1..Len(Chosen) : Chosen[k] \in proposed /\ (Chosen[k] = Chosen[l] => k = l)

\* One node is furthest ahead.
LEMMA FurthestExists ==
    ASSUME TypeInv PROVE Furthest \in Server /\ \A j \in Server : node[j].commit_index_ <= node[Furthest].commit_index_
<1> DEFINE S == {node[j].commit_index_ : j \in Server}
<1>0. \A j \in Server : node[j].commit_index_ \in Nat BY DEF TypeInv, TypeOK, Node
<1>1. S \in SUBSET Nat /\ S # {} BY <1>0, RaftAssumption
<1>2. IsFiniteSet(S)
  <2> DEFINE f == [j \in Server |-> node[j].commit_index_]
  <2>1. f \in Surjection(Server, S) BY DEF Surjection
  <2> HIDE DEF f, S
  <2> QED BY <2>1, RaftAssumption, FS_Surjection
<1>3. Max(S) \in S /\ \A y \in S : y <= Max(S)
  <2> HIDE DEF S
  <2> QED BY <1>1, <1>2, MaxIsGreatest
<1>4. \E i \in Server : \A j \in Server : node[j].commit_index_ <= node[i].commit_index_ BY <1>3
<1> QED BY <1>4 DEF Furthest

\* In every state of the invariant the chosen log is as it should be,
LEMMA ChosenHolds == TypeInv /\ LogInv => ChosenGood
<1> SUFFICES ASSUME TypeInv, LogInv PROVE ChosenGood OBVIOUS
<1>1. PICK M : MatchInv(M) /\ LastInv(M) /\ TopInv(M) /\ OnceInv(M) BY DEF LogInv
<1>2. CommitInv BY <1>1 DEF CommitInv
<1>3. PICK f \in Server : f = Furthest BY FurthestExists
<1>4. \A j \in Server : node[j].commit_index_ \in Nat /\ node[j].commit_index_ <= node[f].commit_index_
  BY <1>3, FurthestExists DEF TypeInv, TypeOK, Node
<1>5. PICK n \in Nat : n = node[f].commit_index_ BY <1>4
<1>6. PICK g \in Seq(Entry) : g = node[f].log_ BY DEF TypeInv, TypeOK, Node
<1>7. n <= Len(g) /\ Len(g) \in Nat BY <1>2, <1>5, <1>6, CommitsWithin DEF CommitWithinLog
<1>8. Chosen = [k \in 1..n |-> g[k].cmd] BY <1>3, <1>5, <1>6 DEF Chosen
<1>9. \A k \in 1..n : k \in 1..Len(g) /\ g[k].cmd \in Cmd
  <2>1. \A k \in 1..n : k \in 1..Len(g) BY <1>7
  <2>2. \A k \in 1..Len(g) : g[k] \in Entry BY <1>6
  <2>3. \A e \in Entry : e.cmd \in Cmd BY DEF Entry
  <2> QED BY <2>1, <2>2, <2>3
<1>10. Chosen \in Seq(Cmd) /\ Len(Chosen) = n /\ \A k \in 1..n : Chosen[k] = g[k].cmd BY <1>8, <1>9
<1>11. ASSUME NEW j \in Server, NEW k \in 1..node[j].commit_index_ PROVE Chosen[k] = node[j].log_[k].cmd
  <2>1. k \in 1..n /\ k \in 1..node[f].commit_index_ BY <1>4, <1>5, <1>11
  <2>2. node[j].log_[k] = node[f].log_[k] BY <1>2, <1>11, <2>1, CommittedAgree
  <2> QED BY <1>6, <1>10, <2>1, <2>2
<1>12. PICK x \in M : x.log = g BY <1>1, <1>6 DEF MatchInv, CoreInv, NodeLogs, Sourced
<1>13. \A k, l \in 1..n : g[k].cmd \in proposed /\ (g[k].cmd = g[l].cmd => k = l)
  BY <1>1, <1>9, <1>12 DEF OnceInv
<1> QED BY <1>4, <1>5, <1>10, <1>11, <1>13 DEF ChosenGood

\* hence after every step.
LEMMA ChosenNext == TypeInv' /\ LogInv' => ChosenGood'
  BY ChosenHolds, PTL

\* What was chosen stays.
LEMMA ChosenGrows ==
    ASSUME TypeInv', ChosenGood, ChosenGood', \A j \in Server : CommitStays(j)
    PROVE  Len(Chosen') >= Len(Chosen) /\ \A k \in 1..Len(Chosen) : Chosen'[k] = Chosen[k]
<1>1. PICK j \in Server : node[j].commit_index_ = Len(Chosen) BY DEF ChosenGood
<1>2. PICK n \in Nat : n = Len(Chosen) BY DEF ChosenGood
<1>3. PICK m \in Nat : m = node'[j].commit_index_ BY DEF TypeInv, TypeOK, Node
<1>4. m >= n /\ \A k \in 1..n : node'[j].log_[k] = node[j].log_[k] BY <1>1, <1>2, <1>3 DEF CommitStays
<1>5. m <= Len(Chosen') /\ \A k \in 1..m : Chosen'[k] = node'[j].log_[k].cmd BY <1>3 DEF ChosenGood
<1>6. \A k \in 1..n : Chosen[k] = node[j].log_[k].cmd BY <1>1, <1>2 DEF ChosenGood
<1>7. Len(Chosen') \in Nat BY DEF ChosenGood
<1> QED BY <1>2, <1>4, <1>5, <1>6, <1>7

\* A log that did not become longer did not change.
LEMMA ChosenSame ==
    ASSUME ChosenGood, ChosenGood', Len(Chosen') = Len(Chosen),
           \A k \in 1..Len(Chosen) : Chosen'[k] = Chosen[k]
    PROVE  Chosen' = Chosen
<1>1. PICK a \in Seq(Cmd) : a = Chosen BY DEF ChosenGood
<1>2. PICK b \in Seq(Cmd) : b = Chosen' BY DEF ChosenGood
<1>3. Len(a) = Len(b) /\ \A k \in 1..Len(a) : b[k] = a[k] BY <1>1, <1>2
<1>4. a = b BY <1>3
<1> QED BY <1>1, <1>2, <1>4

\* A step in which no commit index moves.
LEMMA CommitsRest ==
    ASSUME TypeInv', ChosenGood, ChosenGood', \A j \in Server : CommitStays(j),
           NEW i \in Server, Only(i), node'[i].commit_index_ = node[i].commit_index_
    PROVE  Chosen' = Chosen
<1>1. \A j \in Server : node'[j].commit_index_ = node[j].commit_index_ BY DEF Only
<1>2. PICK j \in Server : node'[j].commit_index_ = Len(Chosen') BY DEF ChosenGood
<1>3. Len(Chosen') <= Len(Chosen) /\ Len(Chosen) \in Nat /\ Len(Chosen') \in Nat
  BY <1>1, <1>2 DEF ChosenGood
<1>4. Len(Chosen') >= Len(Chosen) /\ \A k \in 1..Len(Chosen) : Chosen'[k] = Chosen[k] BY ChosenGrows
<1>5. Len(Chosen') = Len(Chosen) BY <1>3, <1>4
<1> QED BY <1>4, <1>5, ChosenSame

\* ApplyLoop gives the store the next operation of the chosen log.
LEMMA PromiseApply ==
    ASSUME TypeInv, NEW i \in Server, Applies(i), AppliedClaim(i), CommitWithinLog,
           ChosenGood, Chosen' = Chosen, UNCHANGED proposed
    PROVE  Promise!Apply(i)
<1>1. PICK a \in Seq(Entry \cup {Garbage}) : a = applied[i] BY DEF TypeInv, TypeOK
<1>2. PICK l \in Nat : l = node[i].last_applied_ BY DEF TypeInv, TypeOK, Node
<1>3. PICK c \in Nat : c = node[i].commit_index_ BY DEF TypeInv, TypeOK, Node
<1>4. PICK g \in Seq(Entry) : g = node[i].log_ BY DEF TypeInv, TypeOK, Node
<1>5. Len(a) = l /\ l < c /\ c <= Len(Chosen) /\ Len(Chosen) \in Nat
  BY <1>1, <1>2, <1>3 DEF AppliedClaim, Applies, ChosenGood
<1>6. l + 1 \in 1..c /\ Chosen[l + 1] = g[l + 1].cmd BY <1>3, <1>4, <1>5 DEF ChosenGood
<1>7. PICK e \in Entry \cup {Garbage} : e = IF l + 1 \in DOMAIN g THEN g[l + 1] ELSE Garbage BY <1>4
<1>8. applied' = [applied EXCEPT ![i] = Append(a, e)] /\ DOMAIN applied = Server
  BY <1>1, <1>2, <1>4, <1>7 DEF Applies, TypeInv, TypeOK
<1> DEFINE ops(s) == [k \in 1..Len(s) |-> s[k].cmd]
<1>9. ops(Append(a, e)) = Append(ops(a), e.cmd)
  <2>1. PICK b : b = Append(a, e) OBVIOUS
  <2>2. Len(b) = l + 1 /\ b[l + 1] = e /\ \A k \in 1..l : b[k] = a[k] BY <1>1, <1>5, <1>7, <2>1
  <2>3. PICK x : x = ops(a) OBVIOUS
  <2>4. PICK V : \A k \in 1..l : a[k].cmd \in V /\ e.cmd \in V
    <3> DEFINE V == {a[k].cmd : k \in 1..l} \cup {e.cmd}
    <3> WITNESS V
    <3> QED OBVIOUS
  <2>5. x = [k \in 1..l |-> a[k].cmd] /\ x \in Seq(V \cup {e.cmd}) /\ Len(x) = l BY <1>5, <2>3, <2>4
  <2>6. PICK y : y = Append(x, e.cmd) OBVIOUS
  <2>7. /\ y \in Seq(V \cup {e.cmd}) /\ Len(y) = l + 1 /\ y[l + 1] = e.cmd
        /\ \A k \in 1..l : y[k] = a[k].cmd
    BY <2>5, <2>6
  <2>8. \A k \in 1..(l + 1) : y[k] = b[k].cmd
    <3> SUFFICES ASSUME NEW k \in 1..(l + 1) PROVE y[k] = b[k].cmd OBVIOUS
    <3>1. k \in 1..l \/ k = l + 1 OBVIOUS
    <3> QED BY <2>2, <2>7, <3>1
  <2>9. y = [k \in 1..(l + 1) |-> b[k].cmd] BY <2>7, <2>8
  <2> QED BY <2>1, <2>2, <2>3, <2>6, <2>9
<1>10. e.cmd = Chosen[l + 1]
  <2>1. c <= Len(g) BY <1>3, <1>4 DEF CommitWithinLog
  <2>2. l + 1 \in DOMAIN g BY <1>4, <1>6, <2>1
  <2> QED BY <1>6, <1>7, <2>2
<1>11. Given = [j \in Server |-> ops(applied[j])] /\ Given' = [j \in Server |-> ops(applied'[j])] BY DEF Given
<1>12. Given[i] = ops(a) /\ Len(Given[i]) = l BY <1>1, <1>5, <1>11
<1> HIDE DEF ops
<1>13. Given' = [Given EXCEPT ![i] = Append(ops(a), e.cmd)] BY <1>8, <1>9, <1>11
<1> QED BY <1>5, <1>10, <1>12, <1>13 DEF Promise!Apply

\* Every step is one of the abstract log or leaves it alone.
LEMMA PromiseStep ==
    ASSUME TypeInv, TypeInv', ElectionInv, ElectionInv', LogInv, LogInv', [Next]_vars,
           \A j \in Server : CommitStays(j)
    PROVE  [Promise!Next]_<<proposed, Chosen, Given>>
<1>1. ChosenGood /\ ChosenGood' BY ChosenHolds, ChosenNext
<1>2. CommitInv /\ \A j \in Server : AppliedClaim(j) BY DEF LogInv, CommitInv, TopInv
<1>3. CommitWithinLog BY <1>2, CommitsWithin
<1>4. ASSUME NEW i \in Server, NEW c \in Cmd, Adds(i, c) PROVE Promise!Propose(c)
  <2>1. Chosen' = Chosen BY <1>1, <1>4, CommitsRest DEF Adds, SameIndexes
  <2>2. UNCHANGED Given BY <1>4 DEF Adds, Given
  <2> QED BY <1>4, <2>1, <2>2 DEF Adds, Promise!Propose
<1>5. ASSUME NEW i \in Server, Applies(i), UNCHANGED proposed PROVE Promise!Apply(i)
  <2>1. Chosen' = Chosen BY <1>1, <1>5, CommitsRest DEF Applies
  <2> QED BY <1>1, <1>2, <1>3, <1>5, <2>1, PromiseApply
<1>6. CASE UNCHANGED <<proposed, applied>>
  <2>1. UNCHANGED <<proposed, Given>> BY <1>6 DEF Given
  <2>2. Len(Chosen') >= Len(Chosen) /\ \A k \in 1..Len(Chosen) : Chosen'[k] = Chosen[k] BY <1>1, ChosenGrows
  <2>3. CASE Len(Chosen') = Len(Chosen)
    <3>1. Chosen' = Chosen BY <1>1, <2>2, <2>3, ChosenSame
    <3> QED BY <2>1, <3>1
  <2>4. CASE Len(Chosen') # Len(Chosen)
    <3>1. Len(Chosen') > Len(Chosen) BY <1>1, <2>2, <2>4 DEF ChosenGood
    <3>2. Promise!Sound(Chosen') BY <1>1, <1>6 DEF ChosenGood, Promise!Sound
    <3>3. Promise!Choose BY <2>1, <2>2, <3>1, <3>2 DEF Promise!Choose
    <3> QED BY <3>3 DEF Promise!Next
  <2> QED BY <2>3, <2>4
<1> QED BY <1>4, <1>5, <1>6, LogSteps DEF Promise!Next

\* No node has committed or applied anything.
LEMMA PromiseInit == Init => Promise!Init
<1> SUFFICES ASSUME Init PROVE Promise!Init OBVIOUS
<1>1. TypeInv BY TypeInvInit
<1>2. node[Furthest].commit_index_ = 0 BY <1>1, FurthestExists DEF Init, NewNode
<1>3. Chosen = <<>> BY <1>2 DEF Chosen
<1>4. Given = [i \in Server |-> <<>>] BY DEF Init, Given
<1> QED BY <1>3, <1>4 DEF Init, Promise!Init

\* The whole cluster, with its elections, truncations and overlapping calls,
\* behaves like one log (AdvanceCommitIndexLocked, OnAppendEntries, ApplyLoop):
\* an operation gets into it only if it was proposed, at most once and for good,
\* and the store of every node is given the log in order and without a gap.
\* Under the hypotheses of CommitsAreStored.
THEOREM ClusterIsOneLog ==
    ASSUME MaxStops = 0, Orderly, Cardinality(Server) % 2 = 1
    PROVE  Spec => ImplementsLog
<1> DEFINE Inv == Unstopped /\ LogInv
<1>1. Init => Inv BY UnstoppedInit, MatchInit, LastInit, TopInit, OnceInit DEF LogInv
<1>2. Inv /\ [Next]_vars => Inv' /\ [Promise!Next]_<<proposed, Chosen, Given>>
  <2> SUFFICES ASSUME Inv, [Next]_vars PROVE Inv' /\ [Promise!Next]_<<proposed, Chosen, Given>>
    OBVIOUS
  <2>1. Unstopped' BY UnstoppedNext
  <2>2. LogInv' /\ \A j \in Server : CommitStays(j) BY <2>1, LogNext DEF Unstopped
  <2> QED BY <2>1, <2>2, PromiseStep DEF Unstopped
<1> QED BY <1>1, <1>2, PromiseInit, PTL DEF Spec, ImplementsLog, Promise!Spec
=============================================================================
