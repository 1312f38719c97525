--------------------------- MODULE RaftNodeProofs ---------------------------
(***************************************************************************)
(* Theorems about RaftNode, for every set of servers, every set of         *)
(* commands and every choice of preemptible windows and bounds.            *)
(***************************************************************************)
EXTENDS RaftNode, Extrema

-----------------------------------------------------------------------------
(* The helpers that run with mu_ held keep a node a node.                   *)

\* TermAtLocked answers 0 outside the log, hence a natural for every argument.
LEMMA TermAtNat ==
    ASSUME NEW i, NEW n \in Node(i), NEW k PROVE TermAt(n, k) \in Nat
<1>1. n.log_ \in Seq(Entry) BY DEF Node
<1>2. \A j \in DOMAIN n.log_ : n.log_[j] \in Entry BY <1>1
<1> QED BY <1>2 DEF TermAt, Entry

\* BecomeFollowerLocked keeps the fields of a node typed.
LEMMA BecomeFollowerType ==
    ASSUME NEW i, NEW n \in Node(i), NEW t \in Nat, NEW l \in Server \cup {None}
    PROVE  LET m == BecomeFollower(n, t, l)
           IN  /\ m \in Node(i) /\ m.current_term_ = t /\ m.voted_for_ = None
               /\ m.role_ = "Follower" /\ m.log_ = n.log_ /\ m.commit_index_ = n.commit_index_
  BY DEF BecomeFollower, Node

\* BecomeCandidateLocked does too, with a vote for itself.
LEMMA BecomeCandidateType ==
    ASSUME NEW i \in Server, NEW n \in Node(i)
    PROVE  LET m == BecomeCandidate(n, i)
           IN  /\ m \in Node(i) /\ m.current_term_ = n.current_term_ + 1 /\ m.voted_for_ = i
               /\ m.role_ = "Candidate" /\ m.log_ = n.log_
<1>1. n.current_term_ + 1 \in Nat BY DEF Node
<1> QED BY <1>1 DEF BecomeCandidate, Node

\* BecomeLeaderLocked does too, with fresh next and match indexes.
LEMMA BecomeLeaderType ==
    ASSUME NEW i \in Server, NEW n \in Node(i)
    PROVE  LET m == BecomeLeader(n, i)
           IN  /\ m \in Node(i) /\ m.current_term_ = n.current_term_
               /\ m.voted_for_ = n.voted_for_ /\ m.role_ = "Leader" /\ m.log_ = n.log_
<1>1. n.log_ \in Seq(Entry) BY DEF Node
<1>2. LastLogIndex(n) + 1 \in Nat \ {0} BY <1>1 DEF LastLogIndex
<1> QED BY <1>2 DEF BecomeLeader, Node

\* Min(todo) is a peer: the one called next.
LEMMA NextPeer ==
    ASSUME NEW i \in Server, NEW S \in ToCall(i)
    PROVE  Min(S) \in S /\ Min(S) \in Server /\ Min(S) # i
<1> S \in SUBSET Nat /\ S # {} BY RaftAssumption DEF ToCall, Peers
<1> QED BY MinIsLeast DEF ToCall, Peers

-----------------------------------------------------------------------------
(* What a step may do to the fields an election depends on.                 *)

\* A node's term grows and it does not lead the new one, or term and vote
\* stay and it leads only if it led.
Yields(n, m) ==
    \/ m.current_term_ > n.current_term_ /\ m.role_ # "Leader"
    \/ /\ m.current_term_ = n.current_term_ /\ m.voted_for_ = n.voted_for_
       /\ m.role_ = "Leader" => n.role_ = "Leader"

\* A node keeps its role or follows, its term does not fall, and a log that
\* has entries still has some.
Keeps(n, m) ==
    /\ m.role_ \in {n.role_, "Follower"}
    /\ m.current_term_ >= n.current_term_
    /\ n.log_ # <<>> => m.log_ # <<>>

\* OnRequestVote answers with a response, leaves a node, and votes for the
\* candidate only in the request's term and only with a vote still free.
LEMMA OnRequestVoteStep ==
    ASSUME NEW i \in Server, NEW n \in Node(i), NEW req \in VoteReq
    PROVE  LET r == OnRequestVote(n, req)
           IN  /\ r.node \in Node(i) /\ r.resp \in Resp /\ Keeps(n, r.node)
               /\ ~r.resp.ok => Yields(n, r.node)
               /\ r.resp.ok => /\ r.node.current_term_ = req.term
                               /\ r.node.voted_for_ = req.candidate_id
                               /\ r.node.role_ = "Leader" => n.role_ = "Leader" /\ n.current_term_ = req.term
                               /\ \/ n.current_term_ < req.term
                                  \/ /\ n.current_term_ = req.term
                                     /\ n.voted_for_ \in {None, req.candidate_id}
<1> DEFINE m == IF req.term > n.current_term_ THEN BecomeFollower(n, req.term, None) ELSE n
           grant == /\ req.term >= n.current_term_
                    /\ CanVote(m, req)
                    /\ IsUpToDate(m, req.last_log_index, req.last_log_term)
           g == [m EXCEPT !.voted_for_ = req.candidate_id]
<1>1. req.term \in Nat /\ n.current_term_ \in Nat /\ req.candidate_id \in Server
  BY DEF VoteReq, Node
<1>2. m \in Node(i) /\ m.log_ = n.log_
      /\ (req.term > n.current_term_ => m.current_term_ = req.term /\ m.voted_for_ = None /\ m.role_ = "Follower")
      /\ (~(req.term > n.current_term_) => m = n)
  BY <1>1 DEF BecomeFollower, Node
<1>3. grant \in BOOLEAN
  OBVIOUS
<1>4. OnRequestVote(n, req) = [node |-> IF grant THEN g ELSE m,
                               resp |-> [term |-> m.current_term_, ok |-> grant]]
  BY DEF OnRequestVote
<1>5. grant => req.term >= n.current_term_ /\ m.voted_for_ \in {None, req.candidate_id}
  BY DEF CanVote
<1> HIDE DEF m, grant
<1>6. g \in Node(i) /\ g.voted_for_ = req.candidate_id /\ g.current_term_ = m.current_term_
      /\ g.role_ = m.role_ /\ g.log_ = m.log_
  BY <1>1, <1>2 DEF Node
<1> HIDE DEF g
<1>7. [term |-> m.current_term_, ok |-> grant] \in Resp
  BY <1>2, <1>3 DEF Resp, Node
<1>8. CASE grant
  BY <1>1, <1>2, <1>4, <1>5, <1>6, <1>7, <1>8 DEF Keeps
<1>9. CASE ~grant
  BY <1>1, <1>2, <1>4, <1>7, <1>9 DEF Keeps, Yields
<1> QED BY <1>8, <1>9

\* OnAppendEntries answers with a response, leaves a node, and never gives a
\* vote or a leadership.
LEMMA OnAppendEntriesStep ==
    ASSUME NEW i \in Server, NEW n \in Node(i), NEW req \in AppendReq
    PROVE  LET r == OnAppendEntries(n, req)
           IN  /\ r.node \in Node(i) /\ r.resp \in Resp
               /\ Keeps(n, r.node) /\ Yields(n, r.node)
<1> DEFINE m == IF req.term > n.current_term_ THEN BecomeFollower(n, req.term, req.leader_id)
                ELSE [n EXCEPT !.role_ = "Follower", !.leader_id_ = req.leader_id]
           match == PrevMatches(m, req)
           u == [m EXCEPT !.log_ = LogAfter(m, req), !.commit_index_ = CommitAfter(m, req)]
<1>1. /\ req.term \in Nat /\ req.leader_id \in Server /\ req.prev_log_index \in Nat
      /\ req.entries \in Seq(Entry) /\ req.leader_commit \in Nat
      /\ n.current_term_ \in Nat /\ n.log_ \in Seq(Entry)
  BY DEF AppendReq, Node
<1>2. /\ m \in Node(i) /\ m.log_ = n.log_ /\ m.role_ = "Follower" /\ m.commit_index_ = n.commit_index_
      /\ req.term > n.current_term_ => m.current_term_ = req.term
      /\ ~(req.term > n.current_term_) => m.current_term_ = n.current_term_ /\ m.voted_for_ = n.voted_for_
  <2>1. CASE req.term > n.current_term_
    BY <1>1, <2>1 DEF BecomeFollower, Node
  <2>2. CASE ~(req.term > n.current_term_)
    BY <1>1, <2>2 DEF Node
  <2> QED BY <2>1, <2>2
<1>3. match \in BOOLEAN
  BY DEF PrevMatches
<1>4. match => req.prev_log_index <= Len(n.log_)
  BY <1>2 DEF PrevMatches, LastLogIndex
<1>5. OnAppendEntries(n, req) =
        IF req.term < n.current_term_
        THEN [node |-> n, resp |-> [term |-> n.current_term_, ok |-> FALSE]]
        ELSE [node |-> IF match THEN u ELSE m, resp |-> [term |-> m.current_term_, ok |-> match]]
  BY DEF OnAppendEntries, FromThePast
<1> HIDE DEF m, match
<1>6. match => LogAfter(m, req) \in Seq(Entry) /\ (n.log_ # <<>> => LogAfter(m, req) # <<>>)
  <2>1. CASE req.entries = <<>>
    BY <1>1, <1>2, <2>1 DEF LogAfter
  <2>2. CASE req.entries # <<>> /\ match
    <3> DEFINE pre == SubSeq(n.log_, 1, req.prev_log_index)
    <3>1. pre \in Seq(Entry)
      BY <1>1, <1>4, <2>2
    <3>2. LogAfter(m, req) = pre \o req.entries
      BY <1>2, <2>2 DEF LogAfter
    <3> HIDE DEF pre
    <3>3. pre \o req.entries \in Seq(Entry) /\ pre \o req.entries # <<>>
      BY <1>1, <2>2, <3>1
    <3> QED BY <3>2, <3>3
  <2> QED BY <2>1, <2>2
<1>7. match => CommitAfter(m, req) \in Nat
  <2> SUFFICES ASSUME match PROVE CommitAfter(m, req) \in Nat
    OBVIOUS
  <2> DEFINE a == req.leader_commit  b == Len(LogAfter(m, req))
  <2>1. a \in Nat /\ b \in Nat /\ m.commit_index_ \in Nat
    BY <1>1, <1>2, <1>6 DEF Node
  <2> HIDE DEF a, b
  <2>2. Min({a, b}) \in {a, b}
    BY <2>1, MinIsLeast, {a, b} \in SUBSET Nat, {a, b} # {}
  <2> QED BY <2>1, <2>2 DEF CommitAfter, a, b
<1>8. match => u \in Node(i) /\ u.role_ = m.role_ /\ u.current_term_ = m.current_term_
               /\ u.voted_for_ = m.voted_for_ /\ u.log_ = LogAfter(m, req)
  BY <1>2, <1>6, <1>7 DEF Node
<1> HIDE DEF u
<1>9. [term |-> n.current_term_, ok |-> FALSE] \in Resp /\ [term |-> m.current_term_, ok |-> match] \in Resp
  BY <1>2, <1>3 DEF Resp, Node
<1>10. CASE req.term < n.current_term_
  BY <1>1, <1>5, <1>9, <1>10 DEF Keeps, Yields
<1>11. CASE ~(req.term < n.current_term_) /\ match
  BY <1>1, <1>2, <1>5, <1>6, <1>8, <1>9, <1>11 DEF Keeps, Yields
<1>12. CASE ~(req.term < n.current_term_) /\ ~match
  BY <1>1, <1>2, <1>5, <1>9, <1>12 DEF Keeps, Yields
<1> QED BY <1>10, <1>11, <1>12

\* A heartbeat is a well-formed request.
LEMMA BuildAppendEntriesType ==
    ASSUME NEW i \in Server, NEW n \in Node(i), NEW p \in Peers(i)
    PROVE  BuildAppendEntries(n, i, p) \in AppendReq
<1> DEFINE next == n.next_index_[p]
           suffix == SubSeq(n.log_, next, Len(n.log_))
<1>1. next \in Nat \ {0} /\ n.current_term_ \in Nat /\ n.commit_index_ \in Nat /\ n.log_ \in Seq(Entry)
  BY DEF Node
<1>2. TermAt(n, next - 1) \in Nat
  BY TermAtNat
<1>3. suffix \in Seq(Entry)
  <2> HIDE DEF next
  <2> QED BY <1>1
<1> HIDE DEF next, suffix
<1>4. BuildAppendEntries(n, i, p) =
        AppendEntriesReq(n.current_term_, i, next - 1, TermAt(n, next - 1), suffix, n.commit_index_)
  BY DEF BuildAppendEntries, next, suffix
<1> QED BY <1>1, <1>2, <1>3, <1>4 DEF AppendEntriesReq, AppendReq

\* The commit index of a node that was elected stays a natural: an index
\* outside the log has term 0, which is not the node's term.
LEMMA AdvanceCommitIndexType ==
    ASSUME NEW i \in Server, NEW n \in Node(i), n.current_term_ > 0
    PROVE  LET m == AdvanceCommitIndex(n, i)
           IN  /\ m \in Node(i) /\ m.current_term_ = n.current_term_
               /\ m.voted_for_ = n.voted_for_ /\ m.role_ = n.role_ /\ m.log_ = n.log_
<1> DEFINE N == MajorityMatch(n, i)
<1>1. n.log_ \in Seq(Entry) /\ n.current_term_ \in Nat
  BY DEF Node
<1>2. TermAt(n, N) = n.current_term_ => N \in Nat
  <2> HIDE DEF N
  <2> QED BY <1>1 DEF TermAt
<1> HIDE DEF N
<1> QED BY <1>2 DEF AdvanceCommitIndex, Node, N

\* The answer to a heartbeat changes indexes alone.
LEMMA AfterReplyType ==
    ASSUME NEW i \in Server, NEW n \in Node(i), NEW p \in Peers(i), n.current_term_ > 0,
           NEW req \in AppendReq, NEW resp \in Resp
    PROVE  LET m == AfterReply(n, i, p, req, resp)
           IN  /\ m \in Node(i) /\ m.current_term_ = n.current_term_
               /\ m.voted_for_ = n.voted_for_ /\ m.role_ = n.role_ /\ m.log_ = n.log_
<1> DEFINE sent_last == req.prev_log_index + Len(req.entries)
           ahead == [n EXCEPT !.match_index_[p] = sent_last, !.next_index_[p] = sent_last + 1]
           moved == IF req.entries = <<>> THEN n ELSE ahead
           back == [n EXCEPT !.next_index_[p] = Backtrack(@)]
<1>1. sent_last \in Nat
  <2> req.prev_log_index \in Nat /\ req.entries \in Seq(Entry) BY DEF AppendReq
  <2> QED OBVIOUS
<1>2. ahead \in Node(i) /\ ahead.current_term_ = n.current_term_ /\ ahead.voted_for_ = n.voted_for_
      /\ ahead.role_ = n.role_ /\ ahead.log_ = n.log_
  <2> HIDE DEF sent_last
  <2>1. sent_last + 1 \in Nat \ {0} BY <1>1
  <2> QED BY <1>1, <2>1 DEF Node
<1>3. back \in Node(i) /\ back.current_term_ = n.current_term_ /\ back.voted_for_ = n.voted_for_
      /\ back.role_ = n.role_ /\ back.log_ = n.log_
  <2>1. n.next_index_[p] \in Nat \ {0} BY DEF Node
  <2>2. Backtrack(n.next_index_[p]) \in Nat \ {0}
    <3> DEFINE a == n.next_index_[p] - 1
    <3>1. {1, a} \in SUBSET Nat /\ {1, a} # {} /\ \A y \in {1, a} : y <= n.next_index_[p] BY <2>1
    <3>2. Max({1, a}) \in {1, a} /\ \A y \in {1, a} : y <= Max({1, a})
      <4> HIDE DEF a
      <4> QED BY <2>1, <3>1, MaxOfBounded
    <3>3. Max({1, a}) >= 1 /\ Max({1, a}) \in Nat
      BY <2>1, <3>2
    <3> QED BY <3>3 DEF Backtrack
  <2> QED BY <2>2 DEF Node
<1>4. moved \in Node(i) /\ moved.current_term_ = n.current_term_ /\ moved.voted_for_ = n.voted_for_
      /\ moved.role_ = n.role_ /\ moved.log_ = n.log_
  <2> HIDE DEF ahead
  <2> QED BY <1>2
<1>5. AfterReply(n, i, p, req, resp) = IF resp.ok THEN AdvanceCommitIndex(moved, i) ELSE back
  BY DEF AfterReply
<1> HIDE DEF moved, back
<1>6. LET m == AdvanceCommitIndex(moved, i)
      IN  /\ m \in Node(i) /\ m.current_term_ = moved.current_term_
          /\ m.voted_for_ = moved.voted_for_ /\ m.role_ = moved.role_ /\ m.log_ = moved.log_
  BY <1>4, AdvanceCommitIndexType
<1> QED BY <1>3, <1>4, <1>5, <1>6

-----------------------------------------------------------------------------
(* Types, and the position a proposal reads.                                *)

\* A node that does not just follow, or whose heartbeat thread is in its
\* loop, has seen an election; a node off the transport has no thread in a
\* loop, so that a restart, which resets the term, disturbs nobody.
Elected == \A i \in Server :
    /\ node[i].role_ # "Follower" => node[i].current_term_ > 0
    /\ hth[i].pc # "sleep" => node[i].current_term_ > 0
    /\ i \notin registered => eth[i] = Asleep /\ hth[i] = Asleep

TypeInv == TypeOK /\ NoUnderflow /\ Elected

\* What TypeInv needs of the change from n to m of node j.
Sound(j, n, m) ==
    /\ m \in Node(j) /\ m.current_term_ >= n.current_term_
    /\ n.log_ # <<>> => m.log_ # <<>>
    /\ m.role_ # "Follower" => m.current_term_ > 0

ThreadsOK ==
    /\ DOMAIN eth = Server /\ DOMAIN hth = Server /\ DOMAIN cth = Server
    /\ \A i \in Server : /\ eth[i] \in ElectionThreadState(i)
                         /\ hth[i] \in HeartbeatThreadState(i)
                         /\ cth[i] \in ClientThreadState(i)

HistoryOK ==
    /\ applied \in [Server -> Seq(Entry \cup {Garbage})]
    /\ proposed \subseteq Cmd /\ acked \subseteq Entry
    /\ ballots \subseteq Server \X Nat \X Server

\* TypeOK, node by node.
LEMMA TypeOKParts ==
    TypeOK <=> /\ DOMAIN node = Server /\ \A i \in Server : node[i] \in Node(i)
               /\ ThreadsOK /\ HistoryOK
               /\ running \subseteq registered /\ registered \subseteq Server
               /\ stops \in 0..MaxStops
  BY DEF TypeOK, ThreadsOK, HistoryOK

\* A step that leaves the set of nodes alone keeps TypeInv if what it does
\* to each node is sound and it wakes no thread that should sleep.
LEMMA SoundStep ==
    ASSUME TypeInv, UNCHANGED service, ThreadsOK', HistoryOK',
           DOMAIN node' = Server,
           \A j \in Server : Sound(j, node[j], node'[j]),
           \A j \in Server : hth'[j].pc # "sleep"
                               => hth[j].pc # "sleep" \/ node'[j].current_term_ > 0,
           \A j \in Server : cth'[j].pc = "gap" => cth[j].pc = "gap" \/ node'[j].log_ # <<>>,
           \A j \in Server : j \notin registered => eth'[j] = Asleep /\ hth'[j] = Asleep
    PROVE  TypeInv'
<1>1. TypeOK'
  BY TypeOKParts DEF TypeInv, TypeOK, Sound, service, ThreadsOK, HistoryOK
<1>2. NoUnderflow'
  BY DEF TypeInv, NoUnderflow, Sound
<1>3. Elected'
  <2> SUFFICES ASSUME NEW j \in Server
               PROVE  /\ node'[j].role_ # "Follower" => node'[j].current_term_ > 0
                      /\ hth'[j].pc # "sleep" => node'[j].current_term_ > 0
                      /\ j \notin registered' => eth'[j] = Asleep /\ hth'[j] = Asleep
    BY DEF Elected
  <2>1. node[j].current_term_ \in Nat /\ node'[j].current_term_ \in Nat
    BY DEF TypeInv, TypeOK, Sound, Node
  <2> QED BY <2>1 DEF TypeInv, Elected, Sound, service
<1> QED BY <1>1, <1>2, <1>3 DEF TypeInv

\* A node that is left alone, or that a handler changed, changed soundly.
LEMMA KeptIsSound ==
    ASSUME TypeInv, NEW j \in Server, NEW m \in Node(j), Keeps(node[j], m)
    PROVE  Sound(j, node[j], m)
<1>1. node[j].current_term_ \in Nat /\ m.current_term_ \in Nat
  BY DEF TypeInv, TypeOK, Node
<1> QED BY <1>1 DEF TypeInv, Elected, Sound, Keeps

\* Stepping down to a higher term is sound.
LEMMA DeposedIsSound ==
    ASSUME TypeInv, NEW i \in Server, NEW t \in Nat, t > node[i].current_term_
    PROVE  Sound(i, node[i], BecomeFollower(node[i], t, None))
<1>1. node[i] \in Node(i) /\ node[i].current_term_ \in Nat
  BY DEF TypeInv, TypeOK, Node
<1> DEFINE m == BecomeFollower(node[i], t, None)
<1>2. /\ m \in Node(i) /\ m.current_term_ = t
      /\ m.role_ = "Follower" /\ m.log_ = node[i].log_
  BY <1>1, BecomeFollowerType
<1> HIDE DEF m
<1>3. Sound(i, node[i], m)
  BY <1>1, <1>2 DEF Sound
<1> QED BY <1>3 DEF m

\* A step that changes one node to a well-typed one keeps the nodes typed.
LEMMA OneSound ==
    ASSUME TypeInv, NEW i \in Server, NEW m, Sound(i, node[i], m),
           node' = [node EXCEPT ![i] = m]
    PROVE  DOMAIN node' = Server /\ \A j \in Server : Sound(j, node[j], node'[j])
<1>1. DOMAIN node = Server /\ \A j \in Server : node[j] \in Node(j) /\ node[j].current_term_ \in Nat
  BY DEF TypeInv, TypeOK, Node
<1>2. \A j \in Server : Sound(j, node[j], node[j])
  BY <1>1, KeptIsSound DEF Keeps
<1> QED BY <1>1, <1>2

\* A step that changes no node keeps the nodes typed.
LEMMA NoneSound ==
    ASSUME TypeInv, UNCHANGED node
    PROVE  DOMAIN node' = Server /\ \A j \in Server : Sound(j, node[j], node'[j])
<1>1. DOMAIN node = Server /\ \A j \in Server : node[j] \in Node(j) /\ node[j].current_term_ \in Nat
  BY DEF TypeInv, TypeOK, Node
<1>2. \A j \in Server : Sound(j, node[j], node[j])
  BY <1>1, KeptIsSound DEF Keeps
<1> QED BY <1>1, <1>2

\* The initial states satisfy TypeInv.
LEMMA TypeInvInit == Init => TypeInv
<1> SUFFICES ASSUME Init PROVE TypeInv OBVIOUS
<1>1. \A i \in Server : NewNode(i) \in Node(i)
  BY DEF NewNode, Node, None
<1>2. TypeOK
  <2>1. DOMAIN node = Server /\ \A i \in Server : node[i] \in Node(i)
    BY <1>1 DEF Init
  <2>2. ThreadsOK
    BY DEF Init, ThreadsOK, ElectionThreadState, HeartbeatThreadState, ClientThreadState
  <2>3. HistoryOK
    BY DEF Init, HistoryOK
  <2>4. running \subseteq registered /\ registered \subseteq Server /\ stops \in 0..MaxStops
    BY RaftAssumption DEF Init
  <2> QED BY <2>1, <2>2, <2>3, <2>4, TypeOKParts
<1>3. NoUnderflow
  BY DEF Init, NoUnderflow, NoCall
<1>4. Elected
  BY DEF Init, Elected, NewNode, Asleep
<1> QED BY <1>2, <1>3, <1>4 DEF TypeInv

\* What the transport's calls return.
LEMMA RequestVoteStep ==
    ASSUME TypeInv, NEW p \in Server, NEW req \in VoteReq
    PROVE  LET r == RequestVote(p, req)
           IN  r.node \in Node(p) /\ r.resp \in Resp /\ Keeps(node[p], r.node)
<1>1. node[p] \in Node(p) BY DEF TypeInv, TypeOK
<1>2. CASE p \in registered
  BY <1>1, <1>2, OnRequestVoteStep DEF RequestVote
<1>3. CASE p \notin registered
  BY <1>1, <1>3 DEF RequestVote, Unavailable, Keeps, Resp, VoteReq, Node
<1> QED BY <1>2, <1>3

\* And for AppendEntries, whose callee moreover gives no vote and does not
\* come to lead.
LEMMA AppendEntriesStep ==
    ASSUME TypeInv, NEW p \in Server, NEW req \in AppendReq
    PROVE  LET r == AppendEntries(p, req)
           IN  /\ r.node \in Node(p) /\ r.resp \in Resp
               /\ Keeps(node[p], r.node) /\ Yields(node[p], r.node)
<1>1. node[p] \in Node(p) BY DEF TypeInv, TypeOK
<1>2. CASE p \in registered
  BY <1>1, <1>2, OnAppendEntriesStep DEF AppendEntries
<1>3. CASE p \notin registered
  BY <1>1, <1>3 DEF AppendEntries, Unavailable, Keeps, Yields, Resp, AppendReq, Node
<1> QED BY <1>2, <1>3

\* The election thread.
LEMMA ElectionThreadType ==
    ASSUME TypeInv, NEW i \in Server, ElectionThread(i) PROVE TypeInv'
<1> USE DEF TypeInv
<1>0. /\ node[i] \in Node(i) /\ node[i].current_term_ \in Nat
      /\ eth[i] \in ElectionThreadState(i) /\ ThreadsOK /\ HistoryOK
  BY TypeOKParts DEF TypeOK, Node
<1>1. CASE ElectionTimeout(i)
  <2> DEFINE n == BecomeCandidate(node[i], i)
             req == [term |-> n.current_term_, candidate_id |-> i,
                     last_log_index |-> LastLogIndex(n), last_log_term |-> LastLogTerm(n)]
             asking == [pc |-> "ask", todo |-> Peers(i), req |-> req, votes |-> {i},
                        resp |-> [term |-> 0, ok |-> FALSE]]
  <2>1. n \in Node(i) /\ n.current_term_ = node[i].current_term_ + 1 /\ n.log_ = node[i].log_
    BY <1>0, BecomeCandidateType
  <2>2. Sound(i, node[i], n)
    BY <1>0, <2>1 DEF Sound
  <2> HIDE DEF n
  <2>3. req \in VoteReq
    <3>1. n.current_term_ \in Nat /\ n.log_ \in Seq(Entry) BY <2>1 DEF Node
    <3>2. LastLogTerm(n) \in Nat BY <2>1, TermAtNat DEF LastLogTerm
    <3> QED BY <3>1, <3>2 DEF VoteReq, LastLogIndex
  <2> HIDE DEF req
  <2>4. EthNext(asking, Peers(i)) \in ElectionThreadState(i)
    BY <2>3 DEF EthNext, ElectionThreadState, ToCall, Resp
  <2>5. /\ node' = [node EXCEPT ![i] = n] /\ eth' = [eth EXCEPT ![i] = EthNext(asking, Peers(i))]
        /\ ballots' = ballots \cup {<<i, n.current_term_, i>>} /\ i \in running
        /\ UNCHANGED <<hth, cth, applied, proposed, acked>> /\ UNCHANGED service
    BY <1>1 DEF ElectionTimeout, n, req
  <2>6. ThreadsOK'
    BY <1>0, <2>4, <2>5 DEF ThreadsOK
  <2>7. HistoryOK'
    <3>1. n.current_term_ \in Nat BY <2>1 DEF Node
    <3> QED BY <1>0, <2>5, <3>1 DEF HistoryOK
  <2>8. \A j \in Server : j \notin registered => eth'[j] = Asleep /\ hth'[j] = Asleep
    BY <2>5 DEF Elected, TypeOK
  <2>9. DOMAIN node' = Server /\ \A j \in Server : Sound(j, node[j], node'[j])
    BY <2>2, <2>5, OneSound
  <2> QED BY <2>5, <2>6, <2>7, <2>8, <2>9, SoundStep
<1>2. CASE ElectionAsk(i)
  <2> DEFINE p == Min(eth[i].todo)
             r == RequestVote(p, eth[i].req)
  <2>1. eth[i].pc = "ask" /\ eth[i] \in [pc : {"ask", "vote_reply"}, todo : ToCall(i), req : VoteReq,
                                         votes : SUBSET Server, resp : Resp]
    BY <1>0, <1>2 DEF ElectionAsk, ElectionThreadState, Asleep
  <2>2. p \in Server
    BY <2>1, NextPeer
  <2>3. r.node \in Node(p) /\ r.resp \in Resp /\ Keeps(node[p], r.node)
    <3> HIDE DEF p
    <3> QED BY <2>1, <2>2, RequestVoteStep
  <2>4. /\ node' = [node EXCEPT ![p] = r.node]
        /\ eth' = [eth EXCEPT ![i].pc = "vote_reply", ![i].resp = r.resp]
        /\ ballots' = IF r.resp.ok THEN ballots \cup {<<p, eth[i].req.term, i>>} ELSE ballots
        /\ UNCHANGED <<hth, cth, applied, proposed, acked>> /\ UNCHANGED service
    BY <1>2 DEF ElectionAsk
  <2> HIDE DEF p, r
  <2>5. ThreadsOK'
    <3>1. eth'[i] = [eth[i] EXCEPT !.pc = "vote_reply", !.resp = r.resp]
      BY <1>0, <2>4 DEF ThreadsOK
    <3>2. eth'[i] \in ElectionThreadState(i)
      BY <2>1, <2>3, <3>1 DEF ElectionThreadState
    <3> QED BY <1>0, <2>4, <3>2 DEF ThreadsOK
  <2>6. HistoryOK'
    <3>1. eth[i].req.term \in Nat BY <2>1 DEF VoteReq
    <3> QED BY <1>0, <2>2, <2>4, <3>1 DEF HistoryOK
  <2>7. \A j \in Server : j \notin registered => eth'[j] = Asleep /\ hth'[j] = Asleep
    <3>1. i \in registered BY <2>1 DEF Elected, Asleep
    <3> QED BY <2>4, <3>1 DEF Elected, TypeOK
  <2>8. DOMAIN node' = Server /\ \A j \in Server : Sound(j, node[j], node'[j])
    BY <2>2, <2>3, <2>4, KeptIsSound, OneSound
  <2> QED BY <2>4, <2>5, <2>6, <2>7, <2>8, SoundStep
<1>3. CASE ElectionReply(i)
  <2> DEFINE n == node[i]  t == eth[i]  p == Min(t.todo)
             votes == IF t.resp.ok THEN t.votes \cup {p} ELSE t.votes
             on == EthNext([t EXCEPT !.votes = votes], t.todo \ {p})
  <2>1. t.pc = "vote_reply" /\ t \in [pc : {"ask", "vote_reply"}, todo : ToCall(i), req : VoteReq,
                                      votes : SUBSET Server, resp : Resp]
    BY <1>0, <1>3 DEF ElectionReply, ElectionThreadState, Asleep
  <2>2. p \in Server
    BY <2>1, NextPeer
  <2>3. on \in ElectionThreadState(i)
    <3>1. [t EXCEPT !.votes = votes] \in [pc : {"ask", "vote_reply"}, todo : ToCall(i), req : VoteReq,
                                          votes : SUBSET Server, resp : Resp]
      BY <2>1, <2>2
    <3>2. t.todo \ {p} = {} \/ t.todo \ {p} \in ToCall(i)
      BY <2>1 DEF ToCall
    <3> QED BY <3>1, <3>2 DEF EthNext, ElectionThreadState
  <2>4. /\ \/ UNCHANGED node
           \/ node' = [node EXCEPT ![i] = BecomeFollower(n, t.resp.term, None)] /\ t.resp.term > n.current_term_
           \/ node' = [node EXCEPT ![i] = BecomeLeader(n, i)] /\ n.role_ = "Candidate"
        /\ eth' = [eth EXCEPT ![i] = Asleep] \/ eth' = [eth EXCEPT ![i] = on]
        /\ UNCHANGED <<hth, cth>> /\ UNCHANGED service /\ UNCHANGED history
    BY <1>3 DEF ElectionReply
  <2>5. DOMAIN node' = Server /\ \A j \in Server : Sound(j, node[j], node'[j])
    <3>1. CASE UNCHANGED node
      BY <3>1, NoneSound
    <3>2. CASE node' = [node EXCEPT ![i] = BecomeFollower(n, t.resp.term, None)] /\ t.resp.term > n.current_term_
      <4>1. t.resp.term \in Nat BY <2>1 DEF Resp
      <4>2. Sound(i, node[i], BecomeFollower(n, t.resp.term, None))
        BY <3>2, <4>1, DeposedIsSound
      <4> QED BY <3>2, <4>2, OneSound
    <3>3. CASE node' = [node EXCEPT ![i] = BecomeLeader(n, i)] /\ n.role_ = "Candidate"
      <4>1. Sound(i, node[i], BecomeLeader(n, i))
        BY <1>0, <3>3, BecomeLeaderType DEF Sound, Elected
      <4> QED BY <3>3, <4>1, OneSound
    <3> QED BY <2>4, <3>1, <3>2, <3>3
  <2>6. ThreadsOK'
    <3> HIDE DEF on
    <3> QED BY <1>0, <2>3, <2>4 DEF ThreadsOK, ElectionThreadState
  <2>7. HistoryOK'
    BY <1>0, <2>4 DEF HistoryOK, history
  <2>8. \A j \in Server : j \notin registered => eth'[j] = Asleep /\ hth'[j] = Asleep
    <3>1. i \in registered BY <2>1 DEF Elected, Asleep
    <3> HIDE DEF on
    <3> QED BY <2>4, <3>1 DEF Elected, TypeOK
  <2> QED BY <2>4, <2>5, <2>6, <2>7, <2>8, SoundStep
<1> QED BY <1>1, <1>2, <1>3 DEF ElectionThread

\* The heartbeat thread.
LEMMA HeartbeatThreadType ==
    ASSUME TypeInv, NEW i \in Server, HeartbeatThread(i) PROVE TypeInv'
<1> USE DEF TypeInv
<1>0. /\ node[i] \in Node(i) /\ node[i].current_term_ \in Nat
      /\ hth[i] \in HeartbeatThreadState(i) /\ ThreadsOK /\ HistoryOK
  BY TypeOKParts DEF TypeOK, Node
<1>1. CASE HeartbeatTick(i)
  <2> DEFINE t == HthNext(Asleep, Peers(i))
  <2>1. t \in HeartbeatThreadState(i)
    BY DEF HthNext, HeartbeatThreadState, ToCall, Asleep
  <2>2. /\ hth' = [hth EXCEPT ![i] = t] /\ i \in running /\ node[i].role_ = "Leader"
        /\ UNCHANGED <<node, eth, cth>> /\ UNCHANGED service /\ UNCHANGED history
    BY <1>1 DEF HeartbeatTick
  <2> HIDE DEF t
  <2>3. ThreadsOK'
    BY <1>0, <2>1, <2>2 DEF ThreadsOK
  <2>4. HistoryOK'
    BY <1>0, <2>2 DEF HistoryOK, history
  <2>5. \A j \in Server : hth'[j].pc # "sleep" => hth[j].pc # "sleep" \/ node'[j].current_term_ > 0
    BY <2>2 DEF Elected
  <2>6. \A j \in Server : j \notin registered => eth'[j] = Asleep /\ hth'[j] = Asleep
    BY <2>2 DEF Elected, TypeOK
  <2> QED BY <2>2, <2>3, <2>4, <2>5, <2>6, NoneSound, SoundStep
<1>2. CASE HeartbeatBuild(i)
  <2> DEFINE todo == hth[i].todo
             req == BuildAppendEntries(node[i], i, Min(todo))
             t == IF node[i].role_ # "Leader" THEN Asleep
                  ELSE [pc |-> "hb_send", todo |-> todo, req |-> req]
  <2>1. hth[i].pc = "build" /\ todo \in ToCall(i)
    BY <1>0, <1>2 DEF HeartbeatBuild, HeartbeatThreadState, Asleep
  <2>2. req \in AppendReq
    BY <1>0, <2>1, NextPeer, BuildAppendEntriesType DEF Peers
  <2>3. /\ hth' = [hth EXCEPT ![i] = t]
        /\ UNCHANGED <<node, eth, cth>> /\ UNCHANGED service /\ UNCHANGED history
    BY <1>2 DEF HeartbeatBuild
  <2> HIDE DEF req, todo
  <2>4. t \in HeartbeatThreadState(i)
    BY <2>1, <2>2 DEF HeartbeatThreadState
  <2> HIDE DEF t
  <2>5. ThreadsOK'
    BY <1>0, <2>3, <2>4 DEF ThreadsOK
  <2>6. HistoryOK'
    BY <1>0, <2>3 DEF HistoryOK, history
  <2>7. i \in registered
    BY <2>1 DEF Elected, Asleep
  <2>8. \A j \in Server : hth'[j].pc # "sleep" => hth[j].pc # "sleep"
    BY <2>1, <2>3
  <2>9. \A j \in Server : j \notin registered => eth'[j] = Asleep /\ hth'[j] = Asleep
    BY <2>3, <2>7 DEF Elected, TypeOK
  <2> QED BY <2>3, <2>5, <2>6, <2>8, <2>9, NoneSound, SoundStep
<1>3. CASE HeartbeatSend(i)
  <2> DEFINE p == Min(hth[i].todo)
             r == AppendEntries(p, hth[i].req)
             t == [pc |-> "hb_reply", todo |-> hth[i].todo, req |-> hth[i].req, resp |-> r.resp]
  <2>1. hth[i].pc = "hb_send" /\ hth[i].todo \in ToCall(i) /\ hth[i].req \in AppendReq
    BY <1>0, <1>3 DEF HeartbeatSend, HeartbeatThreadState, Asleep
  <2>2. p \in Server
    BY <2>1, NextPeer
  <2>3. r.node \in Node(p) /\ r.resp \in Resp /\ Keeps(node[p], r.node)
    <3> HIDE DEF p
    <3> QED BY <2>1, <2>2, AppendEntriesStep
  <2>4. /\ node' = [node EXCEPT ![p] = r.node] /\ hth' = [hth EXCEPT ![i] = t]
        /\ UNCHANGED <<eth, cth>> /\ UNCHANGED service /\ UNCHANGED history
    BY <1>3 DEF HeartbeatSend
  <2> HIDE DEF p, r
  <2>5. t \in HeartbeatThreadState(i)
    BY <2>1, <2>3 DEF HeartbeatThreadState
  <2> HIDE DEF t
  <2>6. ThreadsOK'
    BY <1>0, <2>4, <2>5 DEF ThreadsOK
  <2>7. HistoryOK'
    BY <1>0, <2>4 DEF HistoryOK, history
  <2>8. i \in registered
    BY <2>1 DEF Elected, Asleep
  <2>9. \A j \in Server : hth'[j].pc # "sleep" => hth[j].pc # "sleep"
    BY <2>1, <2>4
  <2>10. \A j \in Server : j \notin registered => eth'[j] = Asleep /\ hth'[j] = Asleep
    BY <2>4, <2>8 DEF Elected, TypeOK
  <2>11. DOMAIN node' = Server /\ \A j \in Server : Sound(j, node[j], node'[j])
    BY <2>2, <2>3, <2>4, KeptIsSound, OneSound
  <2> QED BY <2>4, <2>6, <2>7, <2>9, <2>10, <2>11, SoundStep
<1>4. CASE HeartbeatReply(i)
  <2> DEFINE n == node[i]  t == hth[i]  p == Min(t.todo)
             deposed == t.resp.term > n.current_term_
             m == IF deposed THEN BecomeFollower(n, t.resp.term, None)
                  ELSE AfterReply(n, i, p, t.req, t.resp)
             u == IF deposed THEN Asleep ELSE HthNext(Asleep, t.todo \ {p})
  <2>1. t.pc = "hb_reply" /\ t.todo \in ToCall(i) /\ t.req \in AppendReq /\ t.resp \in Resp
    BY <1>0, <1>4 DEF HeartbeatReply, HeartbeatThreadState, Asleep
  <2>2. p \in Peers(i)
    BY <2>1, NextPeer DEF Peers
  <2>3. u \in HeartbeatThreadState(i)
    BY <2>1 DEF HthNext, HeartbeatThreadState, ToCall, Asleep
  <2>4. n.current_term_ > 0
    BY <2>1 DEF Elected
  <2>5. Sound(i, n, m)
    <3>1. CASE deposed
      BY <2>1, <3>1, DeposedIsSound DEF Resp
    <3>2. CASE ~deposed
      <4> DEFINE a == AfterReply(n, i, p, t.req, t.resp)
      <4>1. a \in Node(i) /\ a.current_term_ = n.current_term_ /\ a.log_ = n.log_
        BY <1>0, <2>1, <2>2, <2>4, AfterReplyType
      <4> HIDE DEF a
      <4>2. Sound(i, n, a)
        BY <1>0, <2>4, <4>1 DEF Sound
      <4> QED BY <3>2, <4>2 DEF a
    <3> QED BY <3>1, <3>2
  <2>6. /\ node' = [node EXCEPT ![i] = m] /\ hth' = [hth EXCEPT ![i] = u]
        /\ UNCHANGED <<eth, cth>> /\ UNCHANGED service /\ UNCHANGED history
    BY <1>4 DEF HeartbeatReply
  <2> HIDE DEF m, u
  <2>7. ThreadsOK'
    BY <1>0, <2>3, <2>6 DEF ThreadsOK
  <2>8. HistoryOK'
    BY <1>0, <2>6 DEF HistoryOK, history
  <2>9. i \in registered
    BY <2>1 DEF Elected, Asleep
  <2>10. \A j \in Server : hth'[j].pc # "sleep" => hth[j].pc # "sleep"
    BY <2>1, <2>6
  <2>11. \A j \in Server : j \notin registered => eth'[j] = Asleep /\ hth'[j] = Asleep
    BY <2>6, <2>9 DEF Elected, TypeOK
  <2>12. DOMAIN node' = Server /\ \A j \in Server : Sound(j, node[j], node'[j])
    BY <2>5, <2>6, OneSound
  <2> QED BY <2>6, <2>7, <2>8, <2>10, <2>11, <2>12, SoundStep
<1> QED BY <1>1, <1>2, <1>3, <1>4 DEF HeartbeatThread

\* A step of the client thread of node i to the state u.
LEMMA ClientSound ==
    ASSUME TypeInv, NEW i \in Server, NEW u \in ClientThreadState(i),
           cth' = [cth EXCEPT ![i] = u], u.pc = "gap" => node'[i].log_ # <<>>,
           UNCHANGED <<eth, hth>>, UNCHANGED service, HistoryOK',
           DOMAIN node' = Server, \A j \in Server : Sound(j, node[j], node'[j])
    PROVE  TypeInv'
<1> USE DEF TypeInv
<1>1. ThreadsOK'
  BY TypeOKParts DEF ThreadsOK
<1>2. \A j \in Server : cth'[j].pc = "gap" => cth[j].pc = "gap" \/ node'[j].log_ # <<>>
  BY DEF TypeOK
<1>3. \A j \in Server : j \notin registered => eth'[j] = Asleep /\ hth'[j] = Asleep
  BY DEF Elected
<1> QED BY <1>1, <1>2, <1>3, SoundStep

\* A step of a proposal keeps its thread typed.
LEMMA ClientThreadType ==
    ASSUME TypeInv, NEW i \in Server, ClientThread(i) PROVE TypeInv'
<1> USE DEF TypeInv
<1> DEFINE n == node[i]  t == cth[i]
<1>0. /\ n \in Node(i) /\ n.current_term_ \in Nat /\ n.log_ \in Seq(Entry) /\ n.commit_index_ \in Nat
      /\ t \in ClientThreadState(i) /\ HistoryOK
  BY TypeOKParts DEF TypeOK, Node
<1>1. ASSUME NEW c \in Cmd, Propose(i, c) PROVE TypeInv'
  <2> DEFINE e == [term |-> n.current_term_, cmd |-> c]
             m == [n EXCEPT !.log_ = Append(@, e)]
             u == [pc |-> "gap", todo |-> {}, entry |-> e]
  <2>1. e \in Entry
    BY <1>0 DEF Entry
  <2>2. /\ node' = [node EXCEPT ![i] = m] /\ cth' = [cth EXCEPT ![i] = u]
        /\ proposed' = proposed \cup {c}
        /\ UNCHANGED <<eth, hth, applied, acked, ballots>> /\ UNCHANGED service
    BY <1>1 DEF Propose
  <2> HIDE DEF e
  <2>3. u \in ClientThreadState(i)
    BY <2>1 DEF ClientThreadState
  <2>4. Append(n.log_, e) \in Seq(Entry) /\ Append(n.log_, e) # <<>>
    BY <1>0, <2>1
  <2>5. m \in Node(i) /\ m.log_ # <<>> /\ m.current_term_ = n.current_term_ /\ m.role_ = n.role_
    BY <1>0, <2>4 DEF Node
  <2> HIDE DEF m
  <2>6. Sound(i, n, m)
    BY <1>0, <2>5, KeptIsSound DEF Keeps
  <2>7. DOMAIN node' = Server /\ \A j \in Server : Sound(j, node[j], node'[j])
    BY <2>2, <2>6, OneSound
  <2>8. HistoryOK'
    BY <1>0, <2>2 DEF HistoryOK
  <2>9. node'[i].log_ # <<>>
    BY <2>2, <2>5 DEF TypeOK
  <2> QED BY <2>2, <2>3, <2>7, <2>8, <2>9, ClientSound
<1>2. CASE ProposeRead(i)
  <2> DEFINE prev == LastLogIndex(n) - 1
             req == AppendEntriesReq(n.current_term_, i, prev, TermAt(n, prev), <<t.entry>>, 0)
             u == [pc |-> IF Peers(i) = {} THEN "commit" ELSE "send",
                   todo |-> Peers(i), entry |-> t.entry, req |-> req, acks |-> {i}]
  <2>1. t.pc = "gap" /\ t.entry \in Entry
    BY <1>0, <1>2 DEF ProposeRead, ClientThreadState, NoCall
  <2>2. prev \in Nat
    <3>1. n.log_ # <<>> BY <2>1 DEF NoUnderflow
    <3> QED BY <1>0, <3>1 DEF LastLogIndex
  <2>3. TermAt(n, prev) \in Nat
    BY <1>0, TermAtNat
  <2>4. cth' = [cth EXCEPT ![i] = u] /\ UNCHANGED <<node, eth, hth>> /\ UNCHANGED service /\ UNCHANGED history
    BY <1>2 DEF ProposeRead
  <2> HIDE DEF prev
  <2>5. req \in AppendReq
    BY <1>0, <2>1, <2>2, <2>3 DEF AppendEntriesReq, AppendReq
  <2> HIDE DEF req
  <2>6. u \in ClientThreadState(i) /\ u.pc # "gap"
    BY <2>1, <2>5 DEF ClientThreadState, ToCall
  <2>7. HistoryOK'
    BY <1>0, <2>4 DEF HistoryOK, history
  <2> HIDE DEF u
  <2> QED BY <2>4, <2>6, <2>7, NoneSound, ClientSound
<1>3. ASSUME NEW from \in {"send", "notify"}, NEW to \in {"ack", "notify_ack"},
             t.todo # {}, ProposeCall(i, from, to)
      PROVE  TypeInv'
  <2> DEFINE p == Min(t.todo)
             r == AppendEntries(p, t.req)
             u == [pc |-> to, todo |-> t.todo, entry |-> t.entry, req |-> t.req, acks |-> t.acks,
                   resp |-> r.resp]
  <2>1. t.todo \in ToCall(i) /\ t.entry \in Entry /\ t.req \in AppendReq /\ t.acks \in SUBSET Server
    BY <1>0, <1>3 DEF ProposeCall, ClientThreadState, NoCall, ToCall
  <2>2. p \in Server
    BY <2>1, NextPeer
  <2>3. r.node \in Node(p) /\ r.resp \in Resp /\ Keeps(node[p], r.node)
    <3> HIDE DEF p
    <3> QED BY <2>1, <2>2, AppendEntriesStep
  <2>4. /\ node' = [node EXCEPT ![p] = r.node] /\ cth' = [cth EXCEPT ![i] = u]
        /\ UNCHANGED <<eth, hth>> /\ UNCHANGED service /\ UNCHANGED history
    BY <1>3 DEF ProposeCall
  <2> HIDE DEF p, r
  <2>5. u \in ClientThreadState(i) /\ u.pc # "gap"
    BY <2>1, <2>3 DEF ClientThreadState
  <2> HIDE DEF u
  <2>6. DOMAIN node' = Server /\ \A j \in Server : Sound(j, node[j], node'[j])
    BY <2>2, <2>3, <2>4, KeptIsSound, OneSound
  <2>7. HistoryOK'
    BY <1>0, <2>4 DEF HistoryOK, history
  <2> QED BY <2>4, <2>5, <2>6, <2>7, ClientSound
<1>4. CASE ProposeSend(i)
  <2>1. t.todo # {}
    BY <1>0, <1>4 DEF ProposeSend, ProposeCall, ClientThreadState, NoCall, ToCall
  <2> QED BY <1>3, <1>4, <2>1 DEF ProposeSend
<1>5. CASE ProposeNotify(i)
  BY <1>3, <1>5 DEF ProposeNotify
<1>6. CASE ProposeAck(i)
  <2> DEFINE p == Min(t.todo)
             deposed == n.role_ = "Leader" /\ t.resp.term > n.current_term_
             acks == IF t.resp.ok THEN t.acks \cup {p} ELSE t.acks
             left == t.todo \ {p}
             next == IF Majority(acks) THEN "commit" ELSE "send"
             u == IF n.role_ # "Leader" \/ deposed \/ (next = "send" /\ left = {})
                  THEN NoCall
                  ELSE [pc |-> next, todo |-> IF next = "send" THEN left ELSE {}, entry |-> t.entry,
                        req |-> t.req, acks |-> acks]
  <2>1. t.todo \in ToCall(i) /\ t.entry \in Entry /\ t.req \in AppendReq /\ t.acks \in SUBSET Server
        /\ t.resp \in Resp
    BY <1>0, <1>6 DEF ProposeAck, ClientThreadState, NoCall
  <2>2. p \in Server /\ acks \in SUBSET Server
    BY <2>1, NextPeer
  <2>3. left = {} \/ left \in ToCall(i)
    BY <2>1 DEF ToCall
  <2>4. /\ node' = IF deposed THEN [node EXCEPT ![i] = BecomeFollower(n, t.resp.term, None)] ELSE node
        /\ cth' = [cth EXCEPT ![i] = u]
        /\ UNCHANGED <<eth, hth>> /\ UNCHANGED service /\ UNCHANGED history
    BY <1>6 DEF ProposeAck
  <2>5. DOMAIN node' = Server /\ \A j \in Server : Sound(j, node[j], node'[j])
    <3>1. CASE deposed
      <4>1. t.resp.term \in Nat BY <2>1 DEF Resp
      <4>2. Sound(i, node[i], BecomeFollower(n, t.resp.term, None)) BY <3>1, <4>1, DeposedIsSound
      <4> QED BY <2>4, <3>1, <4>2, OneSound
    <3>2. CASE ~deposed
      BY <2>4, <3>2, NoneSound
    <3> QED BY <3>1, <3>2
  <2> HIDE DEF acks, left, deposed
  <2>6. u \in ClientThreadState(i) /\ u.pc # "gap"
    BY <2>1, <2>2, <2>3 DEF ClientThreadState, NoCall
  <2>7. HistoryOK'
    BY <1>0, <2>4 DEF HistoryOK, history
  <2> HIDE DEF u
  <2> QED BY <2>4, <2>5, <2>6, <2>7, ClientSound
<1>7. CASE ProposeCommit(i)
  <2> DEFINE last == LastLogIndex(n)
             req == AppendEntriesReq(n.current_term_, i, last, TermAt(n, last), <<>>, n.commit_index_)
             u == [pc |-> "notify", todo |-> Peers(i), entry |-> t.entry, req |-> req, acks |-> t.acks]
  <2>1. t.entry \in Entry /\ t.acks \in SUBSET Server
    BY <1>0, <1>7 DEF ProposeCommit, ClientThreadState, NoCall
  <2>2. last \in Nat /\ TermAt(n, last) \in Nat
    BY <1>0, TermAtNat DEF LastLogIndex
  <2>3. cth' = [cth EXCEPT ![i] = u] /\ UNCHANGED <<node, eth, hth>> /\ UNCHANGED service /\ UNCHANGED history
    BY <1>7 DEF ProposeCommit
  <2> HIDE DEF last
  <2>4. req \in AppendReq
    BY <1>0, <2>2 DEF AppendEntriesReq, AppendReq
  <2> HIDE DEF req
  <2>5. u \in ClientThreadState(i) /\ u.pc # "gap"
    BY <2>1, <2>4 DEF ClientThreadState
  <2>6. HistoryOK'
    BY <1>0, <2>3 DEF HistoryOK, history
  <2> HIDE DEF u
  <2> QED BY <2>3, <2>5, <2>6, NoneSound, ClientSound
<1>8. CASE ProposeNotifyAck(i)
  <2> DEFINE deposed == t.resp.term > n.current_term_
             left == IF deposed THEN {} ELSE t.todo \ {Min(t.todo)}
             u == [pc |-> "notify", entry |-> t.entry, req |-> t.req, acks |-> t.acks, todo |-> left]
  <2>1. t.todo \in ToCall(i) /\ t.entry \in Entry /\ t.req \in AppendReq /\ t.acks \in SUBSET Server
        /\ t.resp \in Resp
    BY <1>0, <1>8 DEF ProposeNotifyAck, ClientThreadState, NoCall
  <2>2. left \in SUBSET Peers(i)
    BY <2>1 DEF ToCall
  <2>3. /\ node' = IF deposed THEN [node EXCEPT ![i] = BecomeFollower(n, t.resp.term, None)] ELSE node
        /\ cth' = [cth EXCEPT ![i] = u]
        /\ UNCHANGED <<eth, hth>> /\ UNCHANGED service /\ UNCHANGED history
    BY <1>8 DEF ProposeNotifyAck
  <2>4. DOMAIN node' = Server /\ \A j \in Server : Sound(j, node[j], node'[j])
    <3>1. CASE deposed
      <4>1. t.resp.term \in Nat BY <2>1 DEF Resp
      <4>2. Sound(i, node[i], BecomeFollower(n, t.resp.term, None)) BY <3>1, <4>1, DeposedIsSound
      <4> QED BY <2>3, <3>1, <4>2, OneSound
    <3>2. CASE ~deposed
      BY <2>3, <3>2, NoneSound
    <3> QED BY <3>1, <3>2
  <2> HIDE DEF left, deposed
  <2>5. u \in ClientThreadState(i) /\ u.pc # "gap"
    BY <2>1, <2>2 DEF ClientThreadState
  <2>6. HistoryOK'
    BY <1>0, <2>3 DEF HistoryOK, history
  <2> HIDE DEF u
  <2> QED BY <2>3, <2>4, <2>5, <2>6, ClientSound
<1>9. CASE ProposeReturn(i)
  <2>1. t.entry \in Entry
    BY <1>0, <1>9 DEF ProposeReturn, ClientThreadState, NoCall
  <2>2. /\ cth' = [cth EXCEPT ![i] = NoCall] /\ acked' = acked \cup {t.entry}
        /\ UNCHANGED <<node, eth, hth, applied, proposed, ballots>> /\ UNCHANGED service
    BY <1>9 DEF ProposeReturn
  <2>3. NoCall \in ClientThreadState(i) /\ NoCall.pc # "gap"
    BY DEF ClientThreadState, NoCall
  <2>4. HistoryOK'
    BY <1>0, <2>1, <2>2 DEF HistoryOK
  <2> QED BY <2>2, <2>3, <2>4, NoneSound, ClientSound
<1> QED
  BY <1>1, <1>2, <1>4, <1>5, <1>6, <1>7, <1>8, <1>9
  DEF ClientThread, ClientStep, ProposePut, ProposeDel

\* Applying an entry, stopping a node and starting it again.
LEMMA ApplyType ==
    ASSUME TypeInv, NEW i \in Server, Apply(i) PROVE TypeInv'
<1> USE DEF TypeInv
<1> DEFINE n == node[i]  idx == n.last_applied_ + 1
           m == [n EXCEPT !.last_applied_ = idx]
           e == IF idx \in DOMAIN n.log_ THEN n.log_[idx] ELSE Garbage
<1>1. n \in Node(i) /\ n.current_term_ \in Nat /\ n.log_ \in Seq(Entry) /\ n.last_applied_ \in Nat
      /\ ThreadsOK /\ HistoryOK
  BY TypeOKParts DEF TypeOK, Node
<1>2. /\ node' = [node EXCEPT ![i] = m] /\ applied' = [applied EXCEPT ![i] = Append(@, e)]
      /\ UNCHANGED <<proposed, acked, ballots>> /\ UNCHANGED threads /\ UNCHANGED service
  BY DEF Apply
<1>3. m \in Node(i) /\ m.role_ = n.role_ /\ m.current_term_ = n.current_term_ /\ m.log_ = n.log_
  <2>1. idx \in Nat BY <1>1
  <2> HIDE DEF idx
  <2> QED BY <1>1, <2>1 DEF Node
<1>4. e \in Entry \cup {Garbage}
  BY <1>1
<1> HIDE DEF m, e
<1>5. DOMAIN node' = Server /\ \A j \in Server : Sound(j, node[j], node'[j])
  <2>1. Sound(i, n, m) BY <1>1, <1>3, KeptIsSound DEF Keeps
  <2> QED BY <1>2, <2>1, OneSound
<1>6. HistoryOK'
  <2>1. Append(applied[i], e) \in Seq(Entry \cup {Garbage})
    BY <1>1, <1>4 DEF HistoryOK
  <2> QED BY <1>1, <1>2, <2>1 DEF HistoryOK
<1>7. ThreadsOK'
  BY <1>1, <1>2 DEF ThreadsOK, threads
<1> QED BY <1>2, <1>5, <1>6, <1>7, SoundStep DEF threads, Elected

\* Stopping a node keeps the types.
LEMMA StopType ==
    ASSUME TypeInv, NEW i \in Server, Stop(i) \/ Unregister(i) PROVE TypeInv'
<1> USE DEF TypeInv
<1>1. /\ UNCHANGED node /\ UNCHANGED threads /\ UNCHANGED history
      /\ running' \subseteq registered' /\ registered' \subseteq Server
      /\ stops' \in 0..MaxStops
      /\ \A j \in Server : j \notin registered' => eth[j].pc = "sleep" /\ hth[j].pc = "sleep"
  <2>1. CASE Stop(i)
    BY <2>1, RaftAssumption DEF Stop, TypeOK, Elected, Asleep
  <2>2. CASE Unregister(i)
    BY <2>2 DEF Unregister, TypeOK, Elected, Asleep
  <2> QED BY <2>1, <2>2
<1>2. \A j \in Server : (eth[j].pc = "sleep" => eth[j] = Asleep) /\ (hth[j].pc = "sleep" => hth[j] = Asleep)
  <2> TAKE j \in Server
  <2>1. eth[j] \in ElectionThreadState(j) /\ hth[j] \in HeartbeatThreadState(j) BY DEF TypeOK
  <2> QED BY <2>1 DEF ElectionThreadState, HeartbeatThreadState
<1>3. TypeOK'
  BY <1>1, TypeOKParts DEF ThreadsOK, HistoryOK, threads, history, TypeOK
<1>4. NoUnderflow'
  BY <1>1 DEF NoUnderflow, threads
<1>5. Elected'
  BY <1>1, <1>2 DEF Elected, threads
<1> QED BY <1>3, <1>4, <1>5

\* A restarted node, empty, is well typed.
LEMMA RestartType ==
    ASSUME TypeInv, NEW i \in Server, Restart(i) PROVE TypeInv'
<1> USE DEF TypeInv
<1>1. /\ node' = [node EXCEPT ![i] = NewNode(i)] /\ i \notin registered /\ cth[i].pc = "none"
      /\ registered' = registered \cup {i} /\ running' = running \cup {i}
      /\ UNCHANGED stops /\ UNCHANGED threads /\ UNCHANGED history
  BY DEF Restart
<1>2. NewNode(i) \in Node(i) /\ NewNode(i).role_ = "Follower"
  BY DEF NewNode, Node, None
<1>3. TypeOK'
  <2>1. DOMAIN node' = Server /\ \A j \in Server : node'[j] \in Node(j)
    BY <1>1, <1>2 DEF TypeOK
  <2>2. ThreadsOK' /\ HistoryOK'
    BY <1>1, TypeOKParts DEF ThreadsOK, HistoryOK, threads, history
  <2>3. running' \subseteq registered' /\ registered' \subseteq Server /\ stops' \in 0..MaxStops
    BY <1>1 DEF TypeOK
  <2> QED BY <2>1, <2>2, <2>3, TypeOKParts DEF ThreadsOK, HistoryOK, TypeOK
<1>4. NoUnderflow'
  BY <1>1 DEF NoUnderflow, threads, TypeOK
<1>5. Elected'
  BY <1>1, <1>2 DEF Elected, threads, TypeOK, Asleep
<1> QED BY <1>3, <1>4, <1>5

\* Every step keeps the types and the position of a proposal positive.
LEMMA TypeInvNext == TypeInv /\ [Next]_vars => TypeInv'
<1> SUFFICES ASSUME TypeInv, [Next]_vars PROVE TypeInv' OBVIOUS
<1>1. CASE UNCHANGED vars
  BY <1>1 DEF vars, TypeInv, TypeOK, NoUnderflow, Elected
<1>2. CASE Next
  BY <1>2, ElectionThreadType, HeartbeatThreadType, ClientThreadType, ApplyType, StopType, RestartType
  DEF Next
<1> QED BY <1>1, <1>2

\* Whatever threads are preempted where and nodes are restarted, every field,
\* request and answer keeps its type: next_index_ stays positive, a loop
\* never calls a peer when none is left, and commit_index_ is a natural.
THEOREM RaftTypes == Spec => []TypeOK
<1>1. TypeInv => TypeOK
  BY DEF TypeInv
<1> QED BY <1>1, TypeInvInit, TypeInvNext, PTL DEF Spec

\* ProposePut and ProposeDel never read their position from an empty log,
\* though other leaders may cut the log back between the two critical
\* sections: prev_idx = my_index - 1 does not wrap around.
THEOREM PositionNeverWraps == Spec => []NoUnderflow
<1>1. TypeInv => NoUnderflow
  BY DEF TypeInv
<1> QED BY <1>1, TypeInvInit, TypeInvNext, PTL DEF Spec

-----------------------------------------------------------------------------
(* Election safety, for clusters whose nodes are not restarted: a restarted *)
(* node has forgotten its vote.                                             *)

\* Nodes may stop, but stay registered and go on answering calls.
AllUp == registered = Server

\* The voters who gave candidate c their vote of term t.
Voters(t, c) == {v \in Server : <<v, t, c>> \in ballots}

\* A node votes once a term.
VoteOnce ==
    \A v \in Server, t \in Nat, c, d \in Server :
        <<v, t, c>> \in ballots /\ <<v, t, d>> \in ballots => c = d

\* A node remembers the vote of its current term, and gave none of a later one.
VoteKept ==
    \A v \in Server, t \in Nat, c \in Server :
        <<v, t, c>> \in ballots =>
            /\ t <= node[v].current_term_
            /\ t = node[v].current_term_ => node[v].voted_for_ = c

\* The votes an election thread has counted, and the one it was just
\* answered, were cast for this node in the term it asked for.
VotesCast ==
    \A i \in Server : eth[i].pc # "sleep" =>
        /\ eth[i].req.candidate_id = i
        /\ eth[i].votes \subseteq Voters(eth[i].req.term, i)
        /\ eth[i].pc = "vote_reply" /\ eth[i].resp.ok
             => Min(eth[i].todo) \in Voters(eth[i].req.term, i)

\* A leader has the votes of a majority.
LeaderElected ==
    \A i \in Server : IsLeader(i) => Majority(Voters(node[i].current_term_, i))

ElectionInv == AllUp /\ VoteOnce /\ VoteKept /\ VotesCast /\ LeaderElected

\* Two majorities share a voter.
LEMMA MajoritiesMeet ==
    ASSUME NEW S \in SUBSET Server, NEW T \in SUBSET Server, Majority(S), Majority(T)
    PROVE  \E v \in Server : v \in S /\ v \in T
<1>1. IsFiniteSet(Server) /\ IsFiniteSet(S) /\ IsFiniteSet(T)
  BY RaftAssumption, FS_Subset
<1>2. Cardinality(Server) \in Nat /\ Cardinality(S) \in Nat /\ Cardinality(T) \in Nat
  BY <1>1, FS_CardinalityType
<1>3. Cardinality(S) + Cardinality(T) > Cardinality(Server)
  BY <1>2 DEF Majority
<1>4. S \cap T # {}
  BY <1>1, <1>3, FS_MajoritiesIntersect
<1> QED BY <1>4

\* A majority with more members is a majority.
LEMMA MajorityGrows ==
    ASSUME NEW T \in SUBSET Server, NEW S \in SUBSET T, Majority(S)
    PROVE  Majority(T)
<1>1. IsFiniteSet(Server) /\ IsFiniteSet(T)
  BY RaftAssumption, FS_Subset
<1>2. IsFiniteSet(S) /\ Cardinality(S) <= Cardinality(T)
  BY <1>1, FS_Subset
<1>3. Cardinality(Server) \in Nat /\ Cardinality(S) \in Nat /\ Cardinality(T) \in Nat
  BY <1>1, <1>2, FS_CardinalityType
<1> QED BY <1>2, <1>3 DEF Majority

\* The invariant says that a term has one leader.
LEMMA ElectionInvSafe ==
    ASSUME TypeInv, ElectionInv PROVE ElectionSafety
<1> SUFFICES ASSUME NEW i \in Server, NEW j \in Server, IsLeader(i), IsLeader(j),
                    node[i].current_term_ = node[j].current_term_
             PROVE  i = j
  BY DEF ElectionSafety
<1> DEFINE t == node[i].current_term_
<1>1. t \in Nat
  BY DEF TypeInv, TypeOK, Node
<1>2. Majority(Voters(t, i)) /\ Majority(Voters(t, j))
  BY DEF ElectionInv, LeaderElected
<1> HIDE DEF t
<1>3. PICK v \in Server : v \in Voters(t, i) /\ v \in Voters(t, j)
  BY <1>2, MajoritiesMeet DEF Voters
<1> QED BY <1>1, <1>3 DEF ElectionInv, VoteOnce, Voters

\* No votes, no leaders.
LEMMA ElectionInvInit == Init => ElectionInv
  BY DEF Init, ElectionInv, AllUp, VoteOnce, VoteKept, VotesCast, LeaderElected, IsLeader, NewNode, Asleep

\* A step in which nobody votes and every node yields.
LEMMA YieldStep ==
    ASSUME TypeInv, TypeInv', ElectionInv, UNCHANGED <<ballots, eth, registered>>,
           \A j \in Server : Yields(node[j], node'[j])
    PROVE  ElectionInv'
<1> USE DEF ElectionInv
<1>1. \A j \in Server : node[j].current_term_ \in Nat /\ node'[j].current_term_ \in Nat
  BY DEF TypeInv, TypeOK, Node
<1>2. AllUp' /\ VoteOnce' /\ VotesCast'
  BY DEF AllUp, VoteOnce, VotesCast, Voters
<1>3. VoteKept'
  <2> SUFFICES ASSUME NEW v \in Server, NEW t \in Nat, NEW c \in Server, <<v, t, c>> \in ballots
               PROVE  /\ t <= node'[v].current_term_
                      /\ t = node'[v].current_term_ => node'[v].voted_for_ = c
    BY DEF VoteKept
  <2>1. t <= node[v].current_term_ /\ (t = node[v].current_term_ => node[v].voted_for_ = c)
    BY DEF VoteKept
  <2> QED BY <1>1, <2>1 DEF Yields
<1>4. LeaderElected'
  <2> SUFFICES ASSUME NEW j \in Server, node'[j].role_ = "Leader"
               PROVE  Majority(Voters(node[j].current_term_, j))'
    BY DEF LeaderElected, IsLeader
  <2>1. node[j].role_ = "Leader" /\ node'[j].current_term_ = node[j].current_term_
    BY DEF Yields
  <2>2. Voters(node[j].current_term_, j)' = Voters(node[j].current_term_, j)
    BY <2>1 DEF Voters
  <2>3. Majority(Voters(node[j].current_term_, j))
    BY <2>1 DEF LeaderElected, IsLeader
  <2> QED BY <2>2, <2>3 DEF Majority
<1> QED BY <1>2, <1>3, <1>4

\* Replacing the fields of one node by fields it yields to.
LEMMA OneYields ==
    ASSUME TypeInv, NEW p \in Server, NEW m, Yields(node[p], m), node' = [node EXCEPT ![p] = m]
    PROVE  \A j \in Server : Yields(node[j], node'[j])
<1>1. \A j \in Server : j # p => node'[j] = node[j]
  BY DEF TypeInv, TypeOK
<1>2. node'[p] = m
  BY DEF TypeInv, TypeOK
<1> QED BY <1>1, <1>2 DEF Yields

\* Stepping down to a later term makes no leader and keeps no vote.
LEMMA DeposedYields ==
    ASSUME TypeInv, NEW i \in Server, NEW t \in Nat, t > node[i].current_term_
    PROVE  Yields(node[i], BecomeFollower(node[i], t, None))
  BY DEF TypeInv, TypeOK, BecomeFollower, Node, Yields

\* The steps of the heartbeat and client threads and of ApplyLoop give no
\* vote and make no leader.
LEMMA OtherThreadsYield ==
    ASSUME TypeInv, NEW i \in Server, HeartbeatThread(i) \/ ClientThread(i) \/ Apply(i)
    PROVE  /\ UNCHANGED <<ballots, eth, running, registered>>
           /\ \A j \in Server : Yields(node[j], node'[j])
<1> USE DEF TypeInv
<1>0. /\ node[i] \in Node(i) /\ node[i].current_term_ \in Nat
      /\ hth[i] \in HeartbeatThreadState(i) /\ cth[i] \in ClientThreadState(i)
  BY DEF TypeOK, Node
<1>1. ASSUME UNCHANGED node PROVE \A j \in Server : Yields(node[j], node'[j])
  BY <1>1 DEF Yields
<1>2. ASSUME NEW todo \in ToCall(i), NEW req \in AppendReq,
             node' = [node EXCEPT ![Min(todo)] = AppendEntries(Min(todo), req).node]
      PROVE  \A j \in Server : Yields(node[j], node'[j])
  <2> DEFINE p == Min(todo)  m == AppendEntries(p, req).node
  <2>1. p \in Server BY NextPeer
  <2>2. Yields(node[p], m)
    <3> HIDE DEF p
    <3> QED BY <2>1, AppendEntriesStep
  <2>3. node' = [node EXCEPT ![p] = m]
    BY <1>2
  <2> HIDE DEF p, m
  <2> QED BY <2>1, <2>2, <2>3, OneYields
<1>3. ASSUME NEW t \in Nat, t > node[i].current_term_,
             node' = [node EXCEPT ![i] = BecomeFollower(node[i], t, None)]
      PROVE  \A j \in Server : Yields(node[j], node'[j])
  BY <1>3, DeposedYields, OneYields
<1>4. CASE HeartbeatTick(i) \/ HeartbeatBuild(i)
  BY <1>1, <1>4 DEF HeartbeatTick, HeartbeatBuild, service, history
<1>5. CASE HeartbeatSend(i)
  <2>1. hth[i].todo \in ToCall(i) /\ hth[i].req \in AppendReq
    BY <1>0, <1>5 DEF HeartbeatSend, HeartbeatThreadState, Asleep
  <2> QED BY <1>2, <1>5, <2>1 DEF HeartbeatSend, service, history
<1>6. CASE HeartbeatReply(i)
  <2> DEFINE n == node[i]  t == hth[i]  p == Min(t.todo)
             a == AfterReply(n, i, p, t.req, t.resp)
  <2>1. t.pc = "hb_reply" /\ t.todo \in ToCall(i) /\ t.req \in AppendReq /\ t.resp \in Resp
    BY <1>0, <1>6 DEF HeartbeatReply, HeartbeatThreadState, Asleep
  <2>2. p \in Peers(i) /\ n.current_term_ > 0 /\ t.resp.term \in Nat
    BY <2>1, NextPeer DEF Peers, Elected, Resp
  <2>3. /\ node' = [node EXCEPT ![i] = IF t.resp.term > n.current_term_
                                       THEN BecomeFollower(n, t.resp.term, None) ELSE a]
        /\ UNCHANGED <<ballots, eth, running, registered>>
    BY <1>6 DEF HeartbeatReply, service, history
  <2>4. a.current_term_ = n.current_term_ /\ a.voted_for_ = n.voted_for_ /\ a.role_ = n.role_
    BY <1>0, <2>1, <2>2, AfterReplyType
  <2> HIDE DEF a
  <2>5. Yields(n, a)
    BY <2>4 DEF Yields
  <2> QED BY <1>3, <2>2, <2>3, <2>5, OneYields
<1>7. ASSUME NEW c \in Cmd, Propose(i, c)
      PROVE  /\ UNCHANGED <<ballots, eth, running, registered>>
             /\ \A j \in Server : Yields(node[j], node'[j])
  <2> DEFINE m == [node[i] EXCEPT !.log_ = Append(@, [term |-> node[i].current_term_, cmd |-> c])]
  <2>1. Yields(node[i], m)
    BY <1>0 DEF Node, Yields
  <2>2. node' = [node EXCEPT ![i] = m] /\ UNCHANGED <<ballots, eth, running, registered>>
    BY <1>7 DEF Propose, service
  <2> HIDE DEF m
  <2> QED BY <2>1, <2>2, OneYields
<1>8. CASE ProposeRead(i) \/ ProposeCommit(i) \/ ProposeReturn(i)
  BY <1>1, <1>8 DEF ProposeRead, ProposeCommit, ProposeReturn, service, history
<1>9. CASE ProposeSend(i) \/ ProposeNotify(i)
  <2>1. cth[i].todo \in ToCall(i) /\ cth[i].req \in AppendReq
    BY <1>0, <1>9 DEF ProposeSend, ProposeNotify, ProposeCall, ClientThreadState, NoCall, ToCall
  <2> QED BY <1>2, <1>9, <2>1 DEF ProposeSend, ProposeNotify, ProposeCall, service, history
<1>10. CASE ProposeAck(i) \/ ProposeNotifyAck(i)
  <2>1. cth[i].resp.term \in Nat
    BY <1>0, <1>10 DEF ProposeAck, ProposeNotifyAck, ClientThreadState, NoCall, Resp
  <2>2. /\ \/ UNCHANGED node
           \/ /\ cth[i].resp.term > node[i].current_term_
              /\ node' = [node EXCEPT ![i] = BecomeFollower(node[i], cth[i].resp.term, None)]
        /\ UNCHANGED <<ballots, eth, running, registered>>
    BY <1>10 DEF ProposeAck, ProposeNotifyAck, service, history
  <2> QED BY <1>1, <1>3, <2>1, <2>2
<1>11. CASE Apply(i)
  <2> DEFINE m == [node[i] EXCEPT !.last_applied_ = node[i].last_applied_ + 1]
  <2>1. Yields(node[i], m)
    BY <1>0 DEF Node, Yields
  <2>2. node' = [node EXCEPT ![i] = m] /\ UNCHANGED <<ballots, eth, running, registered>>
    BY <1>11 DEF Apply, service, threads
  <2> HIDE DEF m
  <2> QED BY <2>1, <2>2, OneYields
<1> QED
  BY <1>4, <1>5, <1>6, <1>7, <1>8, <1>9, <1>10, <1>11
  DEF HeartbeatThread, ClientThread, ClientStep, ProposePut, ProposeDel

\* A leader that stays in its term keeps its majority as votes are added.
LEMMA StaysElected ==
    ASSUME ElectionInv, ballots \subseteq ballots', NEW j \in Server, IsLeader(j),
           node'[j].current_term_ = node[j].current_term_
    PROVE  Majority(Voters(node[j].current_term_, j))'
<1> DEFINE V == Voters(node[j].current_term_, j)
           W == {v \in Server : <<v, node'[j].current_term_, j>> \in ballots'}
<1>1. Majority(V) /\ V \in SUBSET W /\ W \in SUBSET Server
  BY DEF ElectionInv, LeaderElected, Voters
<1>2. Majority(W)
  <2> HIDE DEF V, W
  <2> QED BY <1>1, MajorityGrows
<1> QED BY <1>2 DEF Voters, Majority

\* Asking for votes: the votes counted were cast, and no vote is taken back.
LEMMA VotesCastThread ==
    ASSUME TypeInv, VotesCast, NEW i \in Server, ElectionThread(i)
    PROVE  VotesCast' /\ ballots \subseteq ballots'
<1>1. DOMAIN eth = Server /\ eth[i] \in ElectionThreadState(i)
  BY DEF TypeInv, TypeOK
<1>2. ASSUME ballots \subseteq ballots', \A j \in Server : j # i => eth'[j] = eth[j],
             eth'[i].pc # "sleep" =>
               /\ eth'[i].req.candidate_id = i
               /\ \A v \in eth'[i].votes : v \in Server /\ <<v, eth'[i].req.term, i>> \in ballots'
               /\ eth'[i].pc = "vote_reply" /\ eth'[i].resp.ok
                    => /\ Min(eth'[i].todo) \in Server
                       /\ <<Min(eth'[i].todo), eth'[i].req.term, i>> \in ballots'
      PROVE  VotesCast'
  <2> SUFFICES ASSUME NEW j \in Server, eth'[j].pc # "sleep"
               PROVE  /\ eth'[j].req.candidate_id = j
                      /\ \A v \in eth'[j].votes : v \in Server /\ <<v, eth'[j].req.term, j>> \in ballots'
                      /\ eth'[j].pc = "vote_reply" /\ eth'[j].resp.ok
                           => Min(eth'[j].todo) \in Server
                              /\ <<Min(eth'[j].todo), eth'[j].req.term, j>> \in ballots'
    BY DEF VotesCast, Voters
  <2>1. CASE j = i
    BY <1>2, <2>1
  <2>2. CASE j # i
    BY <1>2, <2>2 DEF VotesCast, Voters
  <2> QED BY <2>1, <2>2
<1>3. CASE ElectionTimeout(i)
  <2> DEFINE n == BecomeCandidate(node[i], i)
             req == [term |-> n.current_term_, candidate_id |-> i,
                     last_log_index |-> LastLogIndex(n), last_log_term |-> LastLogTerm(n)]
             asking == [pc |-> "ask", todo |-> Peers(i), req |-> req, votes |-> {i},
                        resp |-> [term |-> 0, ok |-> FALSE]]
  <2>1. /\ eth' = [eth EXCEPT ![i] = EthNext(asking, Peers(i))]
        /\ ballots' = ballots \cup {<<i, n.current_term_, i>>}
    BY <1>3 DEF ElectionTimeout
  <2>2. /\ eth'[i].pc \in {"sleep", "ask"}
        /\ eth'[i].pc = "ask" => /\ eth'[i].req.candidate_id = i
                                 /\ eth'[i].req.term = n.current_term_ /\ eth'[i].votes = {i}
    BY <1>1, <2>1 DEF EthNext, Asleep
  <2> HIDE DEF n, req, asking
  <2> QED BY <1>1, <1>2, <2>1, <2>2
<1>4. CASE ElectionAsk(i)
  <2> DEFINE p == Min(eth[i].todo)  req == eth[i].req  r == RequestVote(p, req)
  <2>1. eth[i].pc = "ask" /\ eth[i] \in [pc : {"ask", "vote_reply"}, todo : ToCall(i), req : VoteReq,
                                         votes : SUBSET Server, resp : Resp]
    BY <1>1, <1>4 DEF ElectionAsk, ElectionThreadState, Asleep
  <2>2. p \in Server
    BY <2>1, NextPeer
  <2>3. /\ eth' = [eth EXCEPT ![i].pc = "vote_reply", ![i].resp = r.resp]
        /\ ballots' = IF r.resp.ok THEN ballots \cup {<<p, req.term, i>>} ELSE ballots
    BY <1>4 DEF ElectionAsk
  <2> HIDE DEF r
  <2>4. /\ eth'[i].pc = "vote_reply" /\ eth'[i].resp = r.resp /\ eth'[i].todo = eth[i].todo
        /\ eth'[i].req = eth[i].req /\ eth'[i].votes = eth[i].votes
        /\ \A j \in Server : j # i => eth'[j] = eth[j]
    BY <1>1, <2>1, <2>3
  <2> HIDE DEF p
  <2>5. ballots \subseteq ballots' /\ (r.resp.ok => <<p, req.term, i>> \in ballots')
    BY <2>3
  <2>6. /\ req.candidate_id = i
        /\ \A v \in eth[i].votes : v \in Server /\ <<v, req.term, i>> \in ballots'
    BY <2>1, <2>5 DEF VotesCast, Voters
  <2> QED BY <1>2, <2>2, <2>4, <2>5, <2>6 DEF p
<1>5. CASE ElectionReply(i)
  <2> DEFINE t == eth[i]  p == Min(t.todo)
             votes == IF t.resp.ok THEN t.votes \cup {p} ELSE t.votes
             on == EthNext([t EXCEPT !.votes = votes], t.todo \ {p})
  <2>1. t.pc = "vote_reply" /\ t \in [pc : {"ask", "vote_reply"}, todo : ToCall(i), req : VoteReq,
                                      votes : SUBSET Server, resp : Resp]
    BY <1>1, <1>5 DEF ElectionReply, ElectionThreadState, Asleep
  <2>2. (eth' = [eth EXCEPT ![i] = Asleep] \/ eth' = [eth EXCEPT ![i] = on]) /\ UNCHANGED ballots
    BY <1>5 DEF ElectionReply, history
  <2>3. t.req.candidate_id = i /\ \A v \in votes : v \in Server /\ <<v, t.req.term, i>> \in ballots
    BY <2>1 DEF VotesCast, Voters
  <2>4. on = Asleep \/ (on.pc = "ask" /\ on.req = t.req /\ on.votes = votes)
    <3> HIDE DEF p, votes
    <3> QED BY <2>1 DEF EthNext
  <2> HIDE DEF on, votes
  <2>5. /\ eth'[i].pc \in {"sleep", "ask"}
        /\ eth'[i].pc = "ask" => eth'[i].req = t.req /\ eth'[i].votes = votes
        /\ \A j \in Server : j # i => eth'[j] = eth[j]
    BY <1>1, <2>2, <2>4 DEF Asleep
  <2> QED BY <1>2, <2>2, <2>3, <2>5
<1> QED BY <1>3, <1>4, <1>5 DEF ElectionThread

\* A candidate votes for itself in a term nobody has seen it vote in.
LEMMA ElectionTimeoutInv ==
    ASSUME TypeInv, ElectionInv, NEW i \in Server, ElectionTimeout(i) PROVE ElectionInv'
<1> USE DEF ElectionInv
<1> DEFINE n == BecomeCandidate(node[i], i)
           req == [term |-> n.current_term_, candidate_id |-> i,
                   last_log_index |-> LastLogIndex(n), last_log_term |-> LastLogTerm(n)]
           asking == [pc |-> "ask", todo |-> Peers(i), req |-> req, votes |-> {i},
                      resp |-> [term |-> 0, ok |-> FALSE]]
           t == n.current_term_
<1>1. /\ \A j \in Server : node[j].current_term_ \in Nat /\ node[j] \in Node(j)
      /\ DOMAIN node = Server /\ DOMAIN eth = Server
  BY DEF TypeInv, TypeOK, Node
<1>2. t = node[i].current_term_ + 1 /\ n.voted_for_ = i /\ n.role_ = "Candidate" /\ t \in Nat
  BY <1>1, BecomeCandidateType
<1>3. /\ node' = [node EXCEPT ![i] = n] /\ eth' = [eth EXCEPT ![i] = EthNext(asking, Peers(i))]
      /\ ballots' = ballots \cup {<<i, t, i>>} /\ UNCHANGED service
  BY DEF ElectionTimeout
<1> HIDE DEF n, req, asking, t
<1>5. \A c \in Server : <<i, t, c>> \notin ballots
  BY <1>1, <1>2 DEF VoteKept
<1>6. AllUp'
  BY <1>3 DEF AllUp, service
<1>7. VoteOnce'
  BY <1>3, <1>5 DEF VoteOnce
<1>8. VoteKept'
  <2> SUFFICES ASSUME NEW v \in Server, NEW u \in Nat, NEW c \in Server, <<v, u, c>> \in ballots'
               PROVE  /\ u <= node'[v].current_term_
                      /\ u = node'[v].current_term_ => node'[v].voted_for_ = c
    BY DEF VoteKept
  <2>1. CASE v = i
    <3>1. node'[v].current_term_ = t /\ node'[v].voted_for_ = i
      BY <1>1, <1>2, <1>3, <2>1 DEF t
    <3>2. <<v, u, c>> \in ballots => u <= node[i].current_term_
      BY <2>1 DEF VoteKept
    <3> QED BY <1>1, <1>2, <1>3, <2>1, <3>1, <3>2
  <2>2. CASE v # i
    BY <1>1, <1>3, <2>2 DEF VoteKept
  <2> QED BY <2>1, <2>2
<1>9. VotesCast'
  BY VotesCastThread DEF ElectionThread
<1>10. LeaderElected'
  <2> SUFFICES ASSUME NEW j \in Server, node'[j].role_ = "Leader"
               PROVE  Majority(Voters(node[j].current_term_, j))'
    BY DEF LeaderElected, IsLeader
  <2>1. j # i
    BY <1>1, <1>2, <1>3
  <2>2. node'[j] = node[j] /\ ballots \subseteq ballots'
    BY <1>1, <1>3, <2>1
  <2> QED BY <2>2, StaysElected DEF IsLeader
<1> QED BY <1>6, <1>7, <1>8, <1>9, <1>10

\* A vote that is given was free, or given to the same candidate before.
LEMMA ElectionAskInv ==
    ASSUME TypeInv, ElectionInv, NEW i \in Server, ElectionAsk(i) PROVE ElectionInv'
<1> USE DEF ElectionInv
<1> DEFINE p == Min(eth[i].todo)
           req == eth[i].req
           r == OnRequestVote(node[p], req)
           t == req.term
<1>1. /\ \A j \in Server : node[j].current_term_ \in Nat /\ node[j] \in Node(j)
      /\ DOMAIN node = Server /\ DOMAIN eth = Server
      /\ eth[i] \in ElectionThreadState(i)
  BY DEF TypeInv, TypeOK, Node
<1>2. eth[i].pc = "ask" /\ eth[i] \in [pc : {"ask", "vote_reply"}, todo : ToCall(i), req : VoteReq,
                                       votes : SUBSET Server, resp : Resp]
  BY <1>1 DEF ElectionAsk, ElectionThreadState, Asleep
<1>3. p \in Server /\ t \in Nat /\ req \in VoteReq /\ req.candidate_id = i
  BY <1>2, NextPeer DEF VoteReq, VotesCast
<1>4. RequestVote(p, req) = r
  <2> HIDE DEF p, req
  <2> QED BY <1>3 DEF RequestVote, AllUp, r
<1>5. /\ node' = [node EXCEPT ![p] = r.node]
      /\ eth' = [eth EXCEPT ![i].pc = "vote_reply", ![i].resp = r.resp]
      /\ ballots' = IF r.resp.ok THEN ballots \cup {<<p, t, i>>} ELSE ballots
      /\ UNCHANGED service
  BY <1>4 DEF ElectionAsk
<1>6. /\ r.node \in Node(p) /\ r.resp \in Resp /\ Keeps(node[p], r.node)
      /\ ~r.resp.ok => Yields(node[p], r.node)
      /\ r.resp.ok => /\ r.node.current_term_ = t
                      /\ r.node.voted_for_ = i
                      /\ r.node.role_ = "Leader" => node[p].role_ = "Leader" /\ node[p].current_term_ = t
                      /\ \/ node[p].current_term_ < t
                         \/ node[p].current_term_ = t /\ node[p].voted_for_ \in {None, i}
  <2> HIDE DEF p, req
  <2>1. node[p] \in Node(p) BY <1>1, <1>3
  <2> QED BY <1>3, <2>1, OnRequestVoteStep
<1>8. node'[p] = r.node /\ \A j \in Server : j # p => node'[j] = node[j]
  <2> HIDE DEF p, r
  <2> QED BY <1>1, <1>3, <1>5
<1>9. ballots \subseteq ballots' /\ (r.resp.ok => <<p, t, i>> \in ballots')
  <2> HIDE DEF p, r
  <2> QED BY <1>5
<1>10. node[p].current_term_ \in Nat /\ r.node.current_term_ \in Nat
  <2> HIDE DEF p, r
  <2> QED BY <1>1, <1>3, <1>6 DEF Node
<1>11. VotesCast'
  BY VotesCastThread DEF ElectionThread
<1> HIDE DEF p, r, t, req
<1>12. \A c \in Server : r.resp.ok /\ <<p, t, c>> \in ballots => c = i
  <2>1. \A c \in Server : c # None
    BY RaftAssumption
  <2> QED BY <1>3, <1>6, <1>10, <2>1 DEF VoteKept
<1>13. AllUp'
  BY <1>5 DEF AllUp, service
<1>14. VoteOnce'
  BY <1>5, <1>12 DEF VoteOnce
<1>15. VoteKept'
  <2> SUFFICES ASSUME NEW v \in Server, NEW u \in Nat, NEW c \in Server, <<v, u, c>> \in ballots'
               PROVE  /\ u <= node'[v].current_term_
                      /\ u = node'[v].current_term_ => node'[v].voted_for_ = c
    BY DEF VoteKept
  <2>1. <<v, u, c>> \in ballots \/ (r.resp.ok /\ v = p /\ u = t /\ c = i)
    BY <1>5
  <2>2. <<v, u, c>> \in ballots => /\ u <= node[v].current_term_
                                   /\ u = node[v].current_term_ => node[v].voted_for_ = c
    BY DEF VoteKept
  <2>3. CASE v # p
    BY <1>8, <2>1, <2>2, <2>3
  <2>4. CASE v = p /\ r.resp.ok
    <3>1. node'[v].current_term_ = t /\ node'[v].voted_for_ = i
      BY <1>6, <1>8, <2>4
    <3> QED BY <1>3, <1>6, <1>10, <1>12, <2>1, <2>2, <2>4, <3>1
  <2>5. CASE v = p /\ ~r.resp.ok
    BY <1>6, <1>8, <1>10, <2>1, <2>2, <2>5 DEF Yields
  <2> QED BY <2>3, <2>4, <2>5
<1>16. LeaderElected'
  <2> SUFFICES ASSUME NEW j \in Server, node'[j].role_ = "Leader"
               PROVE  Majority(Voters(node[j].current_term_, j))'
    BY DEF LeaderElected, IsLeader
  <2>1. node[j].role_ = "Leader" /\ node'[j].current_term_ = node[j].current_term_
    BY <1>6, <1>8 DEF Yields
  <2> QED BY <1>9, <2>1, StaysElected DEF IsLeader
<1> QED BY <1>11, <1>13, <1>14, <1>15, <1>16

\* A candidate that becomes a leader counted a majority of votes of its term.
LEMMA ElectionReplyInv ==
    ASSUME TypeInv, TypeInv', ElectionInv, NEW i \in Server, ElectionReply(i) PROVE ElectionInv'
<1> USE DEF ElectionInv
<1> DEFINE n == node[i]  t == eth[i]  p == Min(t.todo)
           votes == IF t.resp.ok THEN t.votes \cup {p} ELSE t.votes
           wins == /\ n.current_term_ = t.req.term /\ Majority(votes)
                   /\ node' = [node EXCEPT ![i] = BecomeLeader(n, i)]
<1>1. /\ \A j \in Server : node[j].current_term_ \in Nat /\ node[j] \in Node(j)
      /\ DOMAIN node = Server /\ DOMAIN eth = Server
      /\ eth[i] \in ElectionThreadState(i)
  BY DEF TypeInv, TypeOK, Node
<1>2. t.pc = "vote_reply" /\ t \in [pc : {"ask", "vote_reply"}, todo : ToCall(i), req : VoteReq,
                                    votes : SUBSET Server, resp : Resp]
  BY <1>1 DEF ElectionReply, ElectionThreadState, Asleep
<1>3. /\ \/ UNCHANGED node
         \/ node' = [node EXCEPT ![i] = BecomeFollower(n, t.resp.term, None)] /\ t.resp.term > n.current_term_
         \/ wins
      /\ UNCHANGED <<ballots, running, registered>>
  BY DEF ElectionReply, service, history
<1>4. t.req.candidate_id = i /\ \A v \in votes : v \in Server /\ <<v, t.req.term, i>> \in ballots
  BY <1>2 DEF VotesCast, Voters
<1> HIDE DEF votes
<1>6. VotesCast'
  BY VotesCastThread DEF ElectionThread
<1>7. AllUp' /\ VoteOnce'
  BY <1>3 DEF AllUp, VoteOnce
<1>8. CASE ~wins
  <2>1. \A j \in Server : Yields(node[j], node'[j])
    <3>1. CASE UNCHANGED node
      BY <3>1 DEF Yields
    <3>2. CASE node' = [node EXCEPT ![i] = BecomeFollower(n, t.resp.term, None)] /\ t.resp.term > n.current_term_
      <4>1. t.resp.term \in Nat BY <1>2 DEF Resp
      <4> QED BY <3>2, <4>1, DeposedYields, OneYields
    <3> QED BY <1>3, <1>8, <3>1, <3>2
  <2>2. VoteKept'
    <3> SUFFICES ASSUME NEW v \in Server, NEW u \in Nat, NEW c \in Server, <<v, u, c>> \in ballots
                 PROVE  /\ u <= node'[v].current_term_
                        /\ u = node'[v].current_term_ => node'[v].voted_for_ = c
      BY <1>3 DEF VoteKept
    <3>1. u <= node[v].current_term_ /\ (u = node[v].current_term_ => node[v].voted_for_ = c)
      BY DEF VoteKept
    <3>2. node'[v].current_term_ \in Nat
      BY DEF TypeInv, TypeOK, Node
    <3> QED BY <1>1, <2>1, <3>1, <3>2 DEF Yields
  <2>3. LeaderElected'
    <3> SUFFICES ASSUME NEW j \in Server, node'[j].role_ = "Leader"
                 PROVE  Majority(Voters(node[j].current_term_, j))'
      BY DEF LeaderElected, IsLeader
    <3>1. node[j].role_ = "Leader" /\ node'[j].current_term_ = node[j].current_term_
      BY <2>1 DEF Yields
    <3> QED BY <1>3, <3>1, StaysElected DEF IsLeader
  <2> QED BY <1>6, <1>7, <2>2, <2>3
<1>9. CASE wins
  <2>1. /\ node'[i].current_term_ = n.current_term_ /\ node'[i].voted_for_ = n.voted_for_
        /\ \A j \in Server : j # i => node'[j] = node[j]
    <3> DEFINE m == BecomeLeader(n, i)
    <3>1. m.current_term_ = n.current_term_ /\ m.voted_for_ = n.voted_for_
      BY <1>1, BecomeLeaderType
    <3>2. node' = [node EXCEPT ![i] = m] BY <1>9
    <3> HIDE DEF m
    <3> QED BY <1>1, <3>1, <3>2
  <2>2. VoteKept'
    BY <1>3, <2>1 DEF VoteKept
  <2>3. Majority(Voters(node[i].current_term_, i))'
    <3> DEFINE W == {v \in Server : <<v, node'[i].current_term_, i>> \in ballots'}
    <3>1. votes \in SUBSET W /\ W \in SUBSET Server
      BY <1>3, <1>4, <1>9, <2>1
    <3>2. Majority(W)
      <4> HIDE DEF W
      <4> QED BY <1>9, <3>1, MajorityGrows
    <3> QED BY <3>2 DEF Voters, Majority
  <2>4. LeaderElected'
    <3> SUFFICES ASSUME NEW j \in Server, node'[j].role_ = "Leader"
                 PROVE  Majority(Voters(node[j].current_term_, j))'
      BY DEF LeaderElected, IsLeader
    <3>1. CASE j # i
      BY <1>3, <2>1, <3>1, StaysElected DEF IsLeader
    <3> QED BY <2>3, <3>1
  <2> QED BY <1>6, <1>7, <2>2, <2>4
<1> QED BY <1>8, <1>9

\* Every step keeps ElectionInv as long as nodes stay registered.
LEMMA ElectionInvNext ==
    ASSUME TypeInv, TypeInv', ElectionInv, [Next]_vars, AllUp' PROVE ElectionInv'
<1>1. CASE UNCHANGED <<node, eth, ballots, registered>>
  BY <1>1 DEF ElectionInv, AllUp, VoteOnce, VoteKept, VotesCast, LeaderElected, Voters, IsLeader, Majority
<1>2. CASE UNCHANGED vars
  BY <1>1, <1>2 DEF vars
<1>3. CASE Next
  <2>1. PICK i \in Server :
          \/ ElectionThread(i) \/ HeartbeatThread(i) \/ Apply(i) \/ ClientThread(i)
          \/ Stop(i) \/ Unregister(i) \/ Restart(i)
    BY <1>3 DEF Next
  <2>2. ~Unregister(i) /\ ~Restart(i)
    BY DEF Unregister, Restart, ElectionInv, AllUp
  <2>3. CASE ElectionThread(i)
    BY <2>3, ElectionTimeoutInv, ElectionAskInv, ElectionReplyInv DEF ElectionThread
  <2>4. CASE HeartbeatThread(i) \/ Apply(i) \/ ClientThread(i)
    BY <2>4, OtherThreadsYield, YieldStep
  <2>5. CASE Stop(i)
    BY <1>1, <2>5 DEF Stop, threads, history
  <2> QED BY <2>1, <2>2, <2>3, <2>4, <2>5
<1> QED BY <1>2, <1>3

\* Nobody was stopped.
Unstopped == TypeInv /\ ElectionInv /\ running = Server

\* Nobody is stopped at first.
LEMMA UnstoppedInit == Init => Unstopped
  BY TypeInvInit, ElectionInvInit DEF Init, Unstopped

\* With no stops allowed nobody is ever stopped, hence nobody restarted.
LEMMA UnstoppedNext ==
    ASSUME MaxStops = 0, Unstopped, [Next]_vars PROVE Unstopped'
<1> USE DEF Unstopped
<1>1. TypeInv' BY TypeInvNext
<1>2. running' = running /\ registered' = registered
  <2>1. stops = 0 BY DEF TypeInv, TypeOK
  <2>2. ASSUME NEW i \in Server, ElectionThread(i) PROVE UNCHANGED <<running, registered>>
    BY <2>2 DEF ElectionThread, ElectionTimeout, ElectionAsk, ElectionReply, service
  <2>3. ASSUME NEW i \in Server, Stop(i) \/ Unregister(i) \/ Restart(i) PROVE FALSE
    BY <2>1, <2>3 DEF Stop, Unregister, Restart, ElectionInv, AllUp
  <2> QED BY <2>2, <2>3, OtherThreadsYield DEF Next, vars
<1>3. AllUp' BY <1>2 DEF ElectionInv, AllUp
<1> QED BY <1>1, <1>2, <1>3, ElectionInvNext

\* Two nodes never lead the same term, for every number of nodes, every
\* interleaving of their threads and every number of elections, as long as
\* no node is restarted.
THEOREM OneLeaderPerTerm ==
    ASSUME MaxStops = 0
    PROVE  Spec => []ElectionSafety
<1>1. Unstopped => ElectionSafety
  BY ElectionInvSafe DEF Unstopped
<1>2. Unstopped /\ [Next]_vars => Unstopped'
  BY UnstoppedNext
<1> QED BY <1>1, <1>2, UnstoppedInit, PTL DEF Spec
-----------------------------------------------------------------------------
(* Leader hints, with restarts too: a vote that was cast stays cast.        *)

\* The votes in B elect c in term t.
ElectedBy(B, t, c) == Majority({v \in Server : <<v, t, c>> \in B})

\* The leader that the fields n of node j name, and j itself if it leads,
\* were elected in the term of n.
Backed(B, j, n) ==
    /\ n.leader_id_ # None => ElectedBy(B, n.current_term_, n.leader_id_)
    /\ n.role_ = "Leader" => ElectedBy(B, n.current_term_, j)

NodesBacked == \A j \in Server : Backed(ballots, j, node[j])

\* A request in flight names an elected leader.
ReqBacked(B, req) == ElectedBy(B, req.term, req.leader_id)

HeartbeatsBacked == \A i \in Server :
    hth[i].pc \in {"hb_send", "hb_reply"} => ReqBacked(ballots, hth[i].req)

ProposalsBacked == \A i \in Server :
    cth[i].pc \in {"send", "ack", "notify", "notify_ack"} => ReqBacked(ballots, cth[i].req)

\* A proposal builds its requests while the node leads.
LeadsInside == \A i \in Server :
    cth[i].pc \in {"gap", "commit"} => node[i].role_ = "Leader"

HintInv == VotesCast /\ NodesBacked /\ HeartbeatsBacked /\ ProposalsBacked /\ LeadsInside

\* The change from n to m names no new leader and makes none.
HintKept(n, m) ==
    /\ m.leader_id_ = None \/ (m.leader_id_ = n.leader_id_ /\ m.current_term_ = n.current_term_)
    /\ m.role_ = "Leader" => n.role_ = "Leader" /\ m.current_term_ = n.current_term_

\* Nobody is deposed or elected while a proposal builds a request.
Undisturbed == "gap" \notin Preemptible /\ "commit" \notin Preemptible

\* Votes are only added, and an elected leader stays elected.
LEMMA MoreVotes ==
    ASSUME NEW B, NEW C, B \subseteq C, NEW t, NEW c, ElectedBy(B, t, c)
    PROVE  ElectedBy(C, t, c)
<1> DEFINE S == {v \in Server : <<v, t, c>> \in B}
           T == {v \in Server : <<v, t, c>> \in C}
<1>1. S \in SUBSET T /\ T \in SUBSET Server /\ Majority(S)
  BY DEF ElectedBy
<1> HIDE DEF S, T
<1>2. Majority(T)
  BY <1>1, MajorityGrows
<1> QED BY <1>2 DEF T, ElectedBy

\* Fields that name no new leader stay backed.
LEMMA BackedKept ==
    ASSUME NEW B, NEW C, B \subseteq C, NEW j, NEW n, NEW m, Backed(B, j, n), HintKept(n, m)
    PROVE  Backed(C, j, m)
<1>1. m.leader_id_ # None => ElectedBy(C, m.current_term_, m.leader_id_)
  BY MoreVotes DEF Backed, HintKept
<1>2. m.role_ = "Leader" => ElectedBy(C, m.current_term_, j)
  BY MoreVotes DEF Backed, HintKept
<1> QED BY <1>1, <1>2 DEF Backed

\* OnAppendEntries believes the sender of a request that is backed.
LEMMA OnAppendEntriesBacked ==
    ASSUME NEW i \in Server, NEW n \in Node(i), NEW req \in AppendReq, NEW B,
           Backed(B, i, n), ReqBacked(B, req)
    PROVE  Backed(B, i, OnAppendEntries(n, req).node)
<1> DEFINE m == IF req.term > n.current_term_ THEN BecomeFollower(n, req.term, req.leader_id)
                ELSE [n EXCEPT !.role_ = "Follower", !.leader_id_ = req.leader_id]
           match == PrevMatches(m, req)
           u == [m EXCEPT !.log_ = LogAfter(m, req), !.commit_index_ = CommitAfter(m, req)]
<1>1. CASE FromThePast(n, req)
  BY <1>1 DEF OnAppendEntries
<1>2. CASE ~FromThePast(n, req)
  <2>1. req.term \in Nat /\ n.current_term_ \in Nat
    BY DEF AppendReq, Node
  <2>2. m.role_ = "Follower" /\ m.leader_id_ = req.leader_id /\ m.current_term_ = req.term
    BY <1>2, <2>1 DEF Node, BecomeFollower, FromThePast
  <2>3. u.role_ = m.role_ /\ u.leader_id_ = m.leader_id_ /\ u.current_term_ = m.current_term_
    <3> HIDE DEF m
    <3> QED OBVIOUS
  <2> HIDE DEF m
  <2>4. OnAppendEntries(n, req).node = IF match THEN u ELSE m
    BY <1>2 DEF OnAppendEntries, m
  <2> QED BY <2>2, <2>3, <2>4 DEF Backed, ReqBacked
<1> QED BY <1>1, <1>2

\* A call of AppendEntries through the transport.
LEMMA AppendEntriesBacked ==
    ASSUME TypeInv, NodesBacked, NEW p \in Server, NEW req \in AppendReq, ReqBacked(ballots, req)
    PROVE  Backed(ballots, p, AppendEntries(p, req).node)
<1>1. node[p] \in Node(p) /\ Backed(ballots, p, node[p])
  BY DEF TypeInv, TypeOK, NodesBacked
<1>2. CASE p \in registered
  BY <1>1, <1>2, OnAppendEntriesBacked DEF AppendEntries
<1>3. CASE p \notin registered
  BY <1>1, <1>3 DEF AppendEntries, Unavailable
<1> QED BY <1>2, <1>3

\* OnRequestVote names no leader.
LEMMA RequestVoteHint ==
    ASSUME TypeInv, NEW p \in Server, NEW req \in VoteReq
    PROVE  HintKept(node[p], RequestVote(p, req).node)
<1> DEFINE n == node[p]
           m == IF req.term > n.current_term_ THEN BecomeFollower(n, req.term, None) ELSE n
           u == [m EXCEPT !.voted_for_ = req.candidate_id]
<1>1. n \in Node(p) /\ n.current_term_ \in Nat /\ req.term \in Nat
  BY DEF TypeInv, TypeOK, Node, VoteReq
<1>2. HintKept(n, n)
  BY DEF HintKept
<1>3. HintKept(n, m) /\ m \in Node(p)
  BY <1>1, BecomeFollowerType DEF HintKept, BecomeFollower, Node
<1> HIDE DEF m
<1>4. HintKept(n, u)
  BY <1>3 DEF HintKept, Node
<1>5. RequestVote(p, req).node \in {n, m, u}
  BY DEF RequestVote, OnRequestVote, Unavailable, m
<1> QED BY <1>2, <1>3, <1>4, <1>5

\* Stepping down names no leader.
LEMMA DeposedHint ==
    ASSUME TypeInv, NEW i \in Server, NEW t \in Nat
    PROVE  HintKept(node[i], BecomeFollower(node[i], t, None))
  BY DEF TypeInv, TypeOK, BecomeFollower, Node, HintKept

\* An answer changes indexes alone.
LEMMA AfterReplyHint ==
    ASSUME NEW i \in Server, NEW n \in Node(i), NEW p, NEW req, NEW resp
    PROVE  HintKept(n, AfterReply(n, i, p, req, resp))
  BY DEF AfterReply, AdvanceCommitIndex, Node, HintKept
\* Inside the windows where a proposal builds a request only its own thread
\* takes steps.
LEMMA Alone ==
    ASSUME Undisturbed, NEW i \in Server, cth[i].pc \in {"gap", "commit"}, NEW t, NEW j, Turn(t, j)
    PROVE  t = "c" /\ j = i
<1>1. Holds(cth[i])
  BY DEF Holds, Undisturbed, Windows
<1>2. <<"c", i>> \in Urgent
  BY <1>1 DEF Urgent
<1> QED BY <1>2 DEF Turn

\* When nothing is urgent no proposal is in such a window.
LEMMA NobodyInside ==
    ASSUME Undisturbed, Urgent = {} \/ \E i : Turn("e", i) \/ Turn("h", i)
    PROVE  \A i \in Server : cth[i].pc \notin {"gap", "commit"}
<1>1. Urgent = {} => \A i : Turn("e", i)
  BY DEF Turn
<1> QED BY <1>1, Alone

\* Requests in flight stay backed when their threads do not move.
LEMMA RequestsKept ==
    ASSUME ballots \subseteq ballots'
    PROVE  /\ HeartbeatsBacked /\ UNCHANGED hth => HeartbeatsBacked'
           /\ ProposalsBacked /\ UNCHANGED cth => ProposalsBacked'
<1>1. ASSUME HeartbeatsBacked, UNCHANGED hth, NEW i \in Server, hth[i].pc \in {"hb_send", "hb_reply"}
      PROVE  ReqBacked(ballots', hth[i].req)
  BY <1>1, MoreVotes DEF HeartbeatsBacked, ReqBacked
<1>2. ASSUME ProposalsBacked, UNCHANGED cth, NEW i \in Server,
             cth[i].pc \in {"send", "ack", "notify", "notify_ack"}
      PROVE  ReqBacked(ballots', cth[i].req)
  BY <1>2, MoreVotes DEF ProposalsBacked, ReqBacked
<1> QED BY <1>1, <1>2 DEF HeartbeatsBacked, ProposalsBacked

\* One node's fields change.
LEMMA OneBacked ==
    ASSUME TypeInv, NodesBacked, ballots \subseteq ballots', NEW p \in Server, NEW m,
           Backed(ballots', p, m), node' = [node EXCEPT ![p] = m]
    PROVE  NodesBacked'
<1> SUFFICES ASSUME NEW j \in Server PROVE Backed(ballots', j, node'[j])
  BY DEF NodesBacked
<1>1. CASE j = p
  BY <1>1 DEF TypeInv, TypeOK
<1>2. CASE j # p
  <2>1. node'[j] = node[j] BY <1>2 DEF TypeInv, TypeOK
  <2>2. HintKept(node[j], node[j]) BY DEF HintKept
  <2> QED BY <2>1, <2>2, BackedKept DEF NodesBacked
<1> QED BY <1>1, <1>2

\* One node's fields change and name no new leader.
LEMMA OneKept ==
    ASSUME TypeInv, NodesBacked, ballots \subseteq ballots', NEW p \in Server, NEW m,
           HintKept(node[p], m), node' = [node EXCEPT ![p] = m]
    PROVE  NodesBacked'
<1>1. Backed(ballots', p, m)
  BY BackedKept DEF NodesBacked
<1> QED BY <1>1, OneBacked

\* No node's fields change.
LEMMA NoneKept ==
    ASSUME NodesBacked, ballots \subseteq ballots', UNCHANGED node PROVE NodesBacked'
<1>1. \A j \in Server : HintKept(node[j], node[j]) BY DEF HintKept
<1> QED BY <1>1, BackedKept DEF NodesBacked

\* The election thread.
LEMMA ElectionThreadHint ==
    ASSUME Undisturbed, TypeInv, HintInv, NEW i \in Server, ElectionThread(i) PROVE HintInv'
<1> USE DEF HintInv
<1>1. VotesCast' /\ ballots \subseteq ballots'
  BY VotesCastThread
<1>2. UNCHANGED <<hth, cth>> /\ Turn("e", i)
  BY DEF ElectionThread, ElectionTimeout, ElectionAsk, ElectionReply
<1>3. HeartbeatsBacked' /\ ProposalsBacked'
  BY <1>1, <1>2, RequestsKept
<1>4. LeadsInside'
  BY <1>2, NobodyInside DEF LeadsInside
<1>0. /\ node[i] \in Node(i) /\ node[i].current_term_ \in Nat /\ eth[i] \in ElectionThreadState(i)
  BY DEF TypeInv, TypeOK, Node
<1>5. NodesBacked'
  <2>1. CASE ElectionTimeout(i)
    <3> DEFINE m == BecomeCandidate(node[i], i)
    <3>1. HintKept(node[i], m)
      BY <1>0 DEF BecomeCandidate, Node, HintKept
    <3>2. node' = [node EXCEPT ![i] = m] BY <2>1 DEF ElectionTimeout
    <3> HIDE DEF m
    <3> QED BY <1>1, <3>1, <3>2, OneKept
  <2>2. CASE ElectionAsk(i)
    <3> DEFINE p == Min(eth[i].todo)  m == RequestVote(p, eth[i].req).node
    <3>1. eth[i].todo \in ToCall(i) /\ eth[i].req \in VoteReq
      BY <1>0, <2>2 DEF ElectionAsk, ElectionThreadState, Asleep
    <3>2. p \in Server BY <3>1, NextPeer
    <3>3. node' = [node EXCEPT ![p] = m] BY <2>2 DEF ElectionAsk
    <3>4. HintKept(node[p], m)
      <4> HIDE DEF p
      <4> QED BY <3>1, <3>2, RequestVoteHint
    <3> HIDE DEF p, m
    <3> QED BY <1>1, <3>2, <3>3, <3>4, OneKept
  <2>3. CASE ElectionReply(i)
    <3> DEFINE n == node[i]  t == eth[i]  p == Min(t.todo)
               votes == IF t.resp.ok THEN t.votes \cup {p} ELSE t.votes
               m == BecomeLeader(n, i)
    <3>1. t.pc = "vote_reply" /\ t \in [pc : {"ask", "vote_reply"}, todo : ToCall(i), req : VoteReq,
                                        votes : SUBSET Server, resp : Resp]
      BY <1>0, <2>3 DEF ElectionReply, ElectionThreadState, Asleep
    <3>2. \/ UNCHANGED node
          \/ node' = [node EXCEPT ![i] = BecomeFollower(n, t.resp.term, None)]
          \/ /\ n.current_term_ = t.req.term /\ Majority(votes)
             /\ node' = [node EXCEPT ![i] = m]
      BY <2>3 DEF ElectionReply
    <3>3. UNCHANGED ballots BY <2>3 DEF ElectionReply, history
    <3>4. \A v \in votes : v \in Server /\ <<v, t.req.term, i>> \in ballots
      BY <3>1 DEF VotesCast, Voters
    <3>5. CASE UNCHANGED node BY <1>1, <3>5, NoneKept
    <3>6. CASE node' = [node EXCEPT ![i] = BecomeFollower(n, t.resp.term, None)]
      <4>1. t.resp.term \in Nat BY <3>1 DEF Resp
      <4> QED BY <1>1, <3>6, <4>1, DeposedHint, OneKept
    <3>7. CASE /\ n.current_term_ = t.req.term /\ Majority(votes)
               /\ node' = [node EXCEPT ![i] = m]
      <4> DEFINE W == {v \in Server : <<v, n.current_term_, i>> \in ballots}
      <4>1. m.leader_id_ = i /\ m.current_term_ = n.current_term_
        BY <1>0 DEF BecomeLeader, Node
      <4> HIDE DEF m, votes
      <4>2. votes \in SUBSET W /\ W \in SUBSET Server BY <3>4, <3>7
      <4> HIDE DEF W
      <4>3. Majority(W) BY <3>7, <4>2, MajorityGrows
      <4>4. ElectedBy(ballots', n.current_term_, i) BY <3>3, <4>3 DEF W, ElectedBy
      <4>5. Backed(ballots', i, m) BY <4>1, <4>4 DEF Backed
      <4> QED BY <1>1, <3>7, <4>5, OneBacked
    <3> QED BY <3>2, <3>5, <3>6, <3>7
  <2> QED BY <2>1, <2>2, <2>3 DEF ElectionThread
<1> QED BY <1>1, <1>3, <1>4, <1>5
\* The heartbeat thread: only a leader builds a request, with its own term.
LEMMA HeartbeatThreadHint ==
    ASSUME Undisturbed, TypeInv, HintInv, NEW i \in Server, HeartbeatThread(i) PROVE HintInv'
<1> USE DEF HintInv
<1>1. UNCHANGED <<eth, cth, ballots>> /\ Turn("h", i)
  BY DEF HeartbeatThread, HeartbeatTick, HeartbeatBuild, HeartbeatSend, HeartbeatReply, history
<1>2. VotesCast'
  BY <1>1 DEF VotesCast, Voters
<1>3. ProposalsBacked'
  BY <1>1, RequestsKept
<1>4. LeadsInside'
  BY <1>1, NobodyInside DEF LeadsInside
<1>5. /\ node[i] \in Node(i) /\ hth[i] \in HeartbeatThreadState(i) /\ DOMAIN hth = Server
  BY DEF TypeInv, TypeOK
<1>6. ASSUME NEW u, hth' = [hth EXCEPT ![i] = u],
             u.pc \in {"hb_send", "hb_reply"} => ReqBacked(ballots, u.req)
      PROVE  HeartbeatsBacked'
  BY <1>1, <1>5, <1>6 DEF HeartbeatsBacked
<1>7. CASE HeartbeatTick(i)
  <2> DEFINE u == HthNext(Asleep, Peers(i))
  <2>1. u.pc \notin {"hb_send", "hb_reply"} BY DEF HthNext, Asleep
  <2>2. hth' = [hth EXCEPT ![i] = u] /\ UNCHANGED node BY <1>7 DEF HeartbeatTick
  <2> HIDE DEF u
  <2>3. HeartbeatsBacked' BY <1>6, <2>1, <2>2
  <2>4. NodesBacked' BY <1>1, <2>2, NoneKept
  <2> QED BY <1>2, <1>3, <1>4, <2>3, <2>4
<1>8. CASE HeartbeatBuild(i)
  <2> DEFINE req == BuildAppendEntries(node[i], i, Min(hth[i].todo))
             u == IF node[i].role_ # "Leader" THEN Asleep
                  ELSE [pc |-> "hb_send", todo |-> hth[i].todo, req |-> req]
  <2>1. hth' = [hth EXCEPT ![i] = u] /\ UNCHANGED node BY <1>8 DEF HeartbeatBuild
  <2>2. req.term = node[i].current_term_ /\ req.leader_id = i
    BY DEF BuildAppendEntries, AppendEntriesReq
  <2> HIDE DEF req
  <2>3. node[i].role_ = "Leader" => ReqBacked(ballots, req)
    BY <2>2 DEF NodesBacked, Backed, ReqBacked
  <2>4. u.pc \in {"hb_send", "hb_reply"} => ReqBacked(ballots, u.req)
    BY <2>3 DEF Asleep
  <2> HIDE DEF u
  <2>5. HeartbeatsBacked' BY <1>6, <2>1, <2>4
  <2>6. NodesBacked' BY <1>1, <2>1, NoneKept
  <2> QED BY <1>2, <1>3, <1>4, <2>5, <2>6
<1>9. CASE HeartbeatSend(i)
  <2> DEFINE p == Min(hth[i].todo)
             r == AppendEntries(p, hth[i].req)
             u == [pc |-> "hb_reply", todo |-> hth[i].todo, req |-> hth[i].req, resp |-> r.resp]
  <2>1. hth[i].pc = "hb_send" /\ hth[i].todo \in ToCall(i) /\ hth[i].req \in AppendReq
    BY <1>5, <1>9 DEF HeartbeatSend, HeartbeatThreadState, Asleep
  <2>2. p \in Server BY <2>1, NextPeer
  <2>3. ReqBacked(ballots, hth[i].req) BY <2>1 DEF HeartbeatsBacked
  <2>4. hth' = [hth EXCEPT ![i] = u] /\ node' = [node EXCEPT ![p] = r.node]
    BY <1>9 DEF HeartbeatSend
  <2> HIDE DEF p
  <2>5. Backed(ballots, p, r.node) BY <2>1, <2>2, <2>3, AppendEntriesBacked
  <2> HIDE DEF r
  <2>6. NodesBacked' BY <1>1, <2>2, <2>4, <2>5, OneBacked
  <2>7. HeartbeatsBacked' BY <1>6, <2>3, <2>4
  <2> QED BY <1>2, <1>3, <1>4, <2>6, <2>7
<1>10. CASE HeartbeatReply(i)
  <2> DEFINE n == node[i]  t == hth[i]  p == Min(t.todo)
             deposed == t.resp.term > n.current_term_
             m == IF deposed THEN BecomeFollower(n, t.resp.term, None)
                  ELSE AfterReply(n, i, p, t.req, t.resp)
             u == IF deposed THEN Asleep ELSE HthNext(Asleep, t.todo \ {p})
  <2>1. t.pc = "hb_reply" /\ t.resp \in Resp
    BY <1>5, <1>10 DEF HeartbeatReply, HeartbeatThreadState, Asleep
  <2>2. node' = [node EXCEPT ![i] = m] /\ hth' = [hth EXCEPT ![i] = u]
    BY <1>10 DEF HeartbeatReply
  <2>3. u.pc \notin {"hb_send", "hb_reply"} BY DEF HthNext, Asleep
  <2>4. HintKept(n, m)
    <3>1. t.resp.term \in Nat BY <2>1 DEF Resp
    <3> QED BY <1>5, <3>1, DeposedHint, AfterReplyHint
  <2> HIDE DEF m, u
  <2>5. NodesBacked' BY <1>1, <2>2, <2>4, OneKept
  <2>6. HeartbeatsBacked' BY <1>6, <2>2, <2>3
  <2> QED BY <1>2, <1>3, <1>4, <2>5, <2>6
<1> QED BY <1>7, <1>8, <1>9, <1>10 DEF HeartbeatThread

\* The client thread: a request is built where the node is known to lead.
LEMMA ClientThreadHint ==
    ASSUME Undisturbed, TypeInv, HintInv, NEW i \in Server, ClientThread(i) PROVE HintInv'
<1> USE DEF HintInv
<1> DEFINE n == node[i]  t == cth[i]
<1>0. /\ n \in Node(i) /\ t \in ClientThreadState(i) /\ DOMAIN cth = Server
  BY DEF TypeInv, TypeOK
<1>1. UNCHANGED <<eth, hth, ballots>> /\ Turn("c", i)
  BY DEF ClientThread, ClientStep, ProposePut, ProposeDel, Propose, ProposeRead, ProposeSend, ProposeCall,
         ProposeAck, ProposeCommit, ProposeNotify, ProposeNotifyAck, ProposeReturn, history
<1>2. VotesCast'
  BY <1>1 DEF VotesCast, Voters
<1>3. HeartbeatsBacked'
  BY <1>1, RequestsKept
<1>4. \A j \in Server : j # i => cth[j].pc \notin {"gap", "commit"}
  BY <1>1, Alone
<1>5. ASSUME NEW u, cth' = [cth EXCEPT ![i] = u], NodesBacked',
             u.pc \in {"send", "ack", "notify", "notify_ack"} => ReqBacked(ballots, u.req),
             u.pc \in {"gap", "commit"} => node'[i].role_ = "Leader"
      PROVE  HintInv'
  <2>1. ProposalsBacked' BY <1>0, <1>1, <1>5 DEF ProposalsBacked
  <2>2. LeadsInside' BY <1>0, <1>4, <1>5 DEF LeadsInside
  <2> QED BY <1>2, <1>3, <1>5, <2>1, <2>2
<1>6. t.pc \in {"gap", "commit"} => n.role_ = "Leader"
  BY DEF LeadsInside
<1>7. t.pc \in {"send", "ack", "notify", "notify_ack"} => ReqBacked(ballots, t.req)
  BY DEF ProposalsBacked
<1>8. \A req : req.term = n.current_term_ /\ req.leader_id = i /\ n.role_ = "Leader" => ReqBacked(ballots, req)
  BY DEF NodesBacked, Backed, ReqBacked
<1>9. ASSUME NEW c, Propose(i, c) PROVE HintInv'
  <2> DEFINE e == [term |-> n.current_term_, cmd |-> c]
             m == [n EXCEPT !.log_ = Append(@, e)]
             u == [pc |-> "gap", todo |-> {}, entry |-> e]
  <2>1. node' = [node EXCEPT ![i] = m] /\ cth' = [cth EXCEPT ![i] = u] /\ n.role_ = "Leader"
    BY <1>9 DEF Propose
  <2>2. HintKept(n, m) /\ m.role_ = n.role_ BY <1>0 DEF HintKept, Node
  <2> HIDE DEF m
  <2>3. NodesBacked' BY <1>1, <2>1, <2>2, OneKept
  <2>4. node'[i].role_ = "Leader" BY <2>1, <2>2 DEF TypeInv, TypeOK
  <2> QED BY <1>5, <2>1, <2>3, <2>4
<1>10. CASE ProposeRead(i)
  <2> DEFINE prev == LastLogIndex(n) - 1
             req == AppendEntriesReq(n.current_term_, i, prev, TermAt(n, prev), <<t.entry>>, 0)
             u == [pc |-> IF Peers(i) = {} THEN "commit" ELSE "send",
                   todo |-> Peers(i), entry |-> t.entry, req |-> req, acks |-> {i}]
  <2>1. t.pc = "gap" /\ cth' = [cth EXCEPT ![i] = u] /\ UNCHANGED node BY <1>10 DEF ProposeRead
  <2>2. req.term = n.current_term_ /\ req.leader_id = i BY DEF AppendEntriesReq
  <2> HIDE DEF req
  <2>3. ReqBacked(ballots, req) BY <1>6, <1>8, <2>1, <2>2
  <2>4. NodesBacked' BY <1>1, <2>1, NoneKept
  <2> QED BY <1>5, <1>6, <2>1, <2>3, <2>4
<1>11. ASSUME NEW from \in {"send", "notify"}, NEW to \in {"ack", "notify_ack"},
              t.todo # {}, ProposeCall(i, from, to)
       PROVE  HintInv'
  <2> DEFINE p == Min(t.todo)
             r == AppendEntries(p, t.req)
             u == [pc |-> to, todo |-> t.todo, entry |-> t.entry, req |-> t.req, acks |-> t.acks,
                   resp |-> r.resp]
  <2>1. t.pc = from /\ t.todo \in ToCall(i) /\ t.req \in AppendReq
    BY <1>0, <1>11 DEF ProposeCall, ClientThreadState, NoCall, ToCall
  <2>2. p \in Server BY <2>1, NextPeer
  <2>3. node' = [node EXCEPT ![p] = r.node] /\ cth' = [cth EXCEPT ![i] = u]
    BY <1>11 DEF ProposeCall
  <2>4. ReqBacked(ballots, t.req) BY <1>7, <2>1
  <2> HIDE DEF p
  <2>5. Backed(ballots, p, r.node) BY <2>1, <2>2, <2>4, AppendEntriesBacked
  <2> HIDE DEF r
  <2>6. NodesBacked' BY <1>1, <2>2, <2>3, <2>5, OneBacked
  <2> QED BY <1>5, <2>3, <2>4, <2>6
<1>12. CASE ProposeSend(i)
  <2>1. t.todo # {}
    BY <1>0, <1>12 DEF ProposeSend, ProposeCall, ClientThreadState, NoCall, ToCall
  <2> QED BY <1>11, <1>12, <2>1 DEF ProposeSend
<1>13. CASE ProposeNotify(i)
  BY <1>11, <1>13 DEF ProposeNotify
<1>14. CASE ProposeAck(i)
  <2> DEFINE p == Min(t.todo)
             deposed == n.role_ = "Leader" /\ t.resp.term > n.current_term_
             acks == IF t.resp.ok THEN t.acks \cup {p} ELSE t.acks
             left == t.todo \ {p}
             next == IF Majority(acks) THEN "commit" ELSE "send"
             u == IF n.role_ # "Leader" \/ deposed \/ (next = "send" /\ left = {})
                  THEN NoCall
                  ELSE [pc |-> next, todo |-> IF next = "send" THEN left ELSE {}, entry |-> t.entry,
                        req |-> t.req, acks |-> acks]
  <2>1. t.pc = "ack" /\ t.resp.term \in Nat
    BY <1>0, <1>14 DEF ProposeAck, ClientThreadState, NoCall, Resp
  <2>2. /\ node' = IF deposed THEN [node EXCEPT ![i] = BecomeFollower(n, t.resp.term, None)] ELSE node
        /\ cth' = [cth EXCEPT ![i] = u]
    BY <1>14 DEF ProposeAck
  <2>3. NodesBacked' BY <1>1, <2>1, <2>2, DeposedHint, OneKept, NoneKept
  <2>4. u.pc = "none" \/ (n.role_ = "Leader" /\ ~deposed /\ u.req = t.req) BY DEF NoCall
  <2>5. ReqBacked(ballots, t.req) BY <1>7, <2>1
  <2> HIDE DEF u
  <2>6. u.pc \in {"gap", "commit"} => node'[i].role_ = "Leader" BY <2>2, <2>4
  <2> QED BY <1>5, <2>2, <2>3, <2>4, <2>5, <2>6
<1>15. CASE ProposeCommit(i)
  <2> DEFINE last == LastLogIndex(n)
             req == AppendEntriesReq(n.current_term_, i, last, TermAt(n, last), <<>>, n.commit_index_)
             u == [pc |-> "notify", todo |-> Peers(i), entry |-> t.entry, req |-> req, acks |-> t.acks]
  <2>1. t.pc = "commit" /\ cth' = [cth EXCEPT ![i] = u] /\ UNCHANGED node BY <1>15 DEF ProposeCommit
  <2>2. req.term = n.current_term_ /\ req.leader_id = i BY DEF AppendEntriesReq
  <2> HIDE DEF req
  <2>3. ReqBacked(ballots, req) BY <1>6, <1>8, <2>1, <2>2
  <2>4. NodesBacked' BY <1>1, <2>1, NoneKept
  <2> QED BY <1>5, <2>1, <2>3, <2>4
<1>16. CASE ProposeNotifyAck(i)
  <2> DEFINE deposed == t.resp.term > n.current_term_
             left == IF deposed THEN {} ELSE t.todo \ {Min(t.todo)}
             u == [pc |-> "notify", entry |-> t.entry, req |-> t.req, acks |-> t.acks, todo |-> left]
  <2>1. t.pc = "notify_ack" /\ t.resp.term \in Nat
    BY <1>0, <1>16 DEF ProposeNotifyAck, ClientThreadState, NoCall, Resp
  <2>2. /\ node' = IF deposed THEN [node EXCEPT ![i] = BecomeFollower(n, t.resp.term, None)] ELSE node
        /\ cth' = [cth EXCEPT ![i] = u]
    BY <1>16 DEF ProposeNotifyAck
  <2>3. NodesBacked' BY <1>1, <2>1, <2>2, DeposedHint, OneKept, NoneKept
  <2>4. ReqBacked(ballots, t.req) BY <1>7, <2>1
  <2> HIDE DEF left
  <2> QED BY <1>5, <2>2, <2>3, <2>4
<1>17. CASE ProposeReturn(i)
  <2>1. cth' = [cth EXCEPT ![i] = NoCall] /\ UNCHANGED node BY <1>17 DEF ProposeReturn
  <2>2. NodesBacked' BY <1>1, <2>1, NoneKept
  <2> QED BY <1>5, <2>1, <2>2 DEF NoCall
<1> QED
  BY <1>9, <1>10, <1>12, <1>13, <1>14, <1>15, <1>16, <1>17
  DEF ClientThread, ClientStep, ProposePut, ProposeDel

\* Every step.
LEMMA HintInvNext ==
    ASSUME Undisturbed, TypeInv, HintInv, [Next]_vars PROVE HintInv'
<1> USE DEF HintInv
<1>1. ASSUME UNCHANGED <<eth, hth, cth, ballots>>, NodesBacked', LeadsInside' PROVE HintInv'
  <2>1. VotesCast' BY <1>1 DEF VotesCast, Voters
  <2>2. HeartbeatsBacked' /\ ProposalsBacked' BY <1>1, RequestsKept
  <2> QED BY <1>1, <2>1, <2>2
<1>2. ASSUME UNCHANGED <<eth, hth, cth, ballots, node>> PROVE HintInv'
  <2>1. NodesBacked' BY <1>2, NoneKept
  <2>2. LeadsInside' BY <1>2 DEF LeadsInside
  <2> QED BY <1>1, <1>2, <2>1, <2>2
<1>3. ASSUME NEW i \in Server, Apply(i) PROVE HintInv'
  <2> DEFINE m == [node[i] EXCEPT !.last_applied_ = node[i].last_applied_ + 1]
  <2>1. HintKept(node[i], m)
    BY DEF HintKept, TypeInv, TypeOK, Node
  <2>2. node' = [node EXCEPT ![i] = m] /\ UNCHANGED <<eth, hth, cth, ballots>> /\ Urgent = {}
    BY <1>3 DEF Apply, threads
  <2> HIDE DEF m
  <2>3. NodesBacked' BY <2>1, <2>2, OneKept
  <2>4. LeadsInside' BY <2>2, NobodyInside DEF LeadsInside
  <2> QED BY <1>1, <2>2, <2>3, <2>4
<1>4. ASSUME NEW i \in Server, Restart(i) PROVE HintInv'
  <2> DEFINE m == NewNode(i)
  <2>1. HintKept(node[i], m) BY DEF HintKept, NewNode
  <2>2. node' = [node EXCEPT ![i] = m] /\ UNCHANGED <<eth, hth, cth, ballots>> /\ Urgent = {}
    BY <1>4 DEF Restart, threads, history
  <2> HIDE DEF m
  <2>3. NodesBacked' BY <2>1, <2>2, OneKept
  <2>4. LeadsInside' BY <2>2, NobodyInside DEF LeadsInside
  <2> QED BY <1>1, <2>2, <2>3, <2>4
<1>5. ASSUME NEW i \in Server, Stop(i) \/ Unregister(i) PROVE HintInv'
  BY <1>2, <1>5 DEF Stop, Unregister, threads, history
<1>6. CASE UNCHANGED vars
  BY <1>2, <1>6 DEF vars
<1> QED
  BY <1>3, <1>4, <1>5, <1>6, ElectionThreadHint, HeartbeatThreadHint, ClientThreadHint DEF Next

\* Nobody leads and nothing is in flight.
LEMMA HintInvInit == Init => HintInv
  BY DEF Init, HintInv, VotesCast, NodesBacked, Backed, HeartbeatsBacked, ProposalsBacked, LeadsInside,
         NewNode, Asleep, NoCall, None

\* The leader that a node redirects clients to was elected by a majority in
\* the node's term, however late a request of an old leader arrives and even
\* if nodes restart without their votes, as long as no thread runs between
\* the role check of a proposal and the building of its request.
THEOREM HintsAreElected ==
    ASSUME Undisturbed
    PROVE  Spec => []LeaderHint
<1> DEFINE Inv == TypeInv /\ HintInv
<1>1. Init => Inv
  BY TypeInvInit, HintInvInit
<1>2. Inv /\ [Next]_vars => Inv'
  BY TypeInvNext, HintInvNext
<1>3. Inv => LeaderHint
  BY DEF HintInv, NodesBacked, Backed, ElectedBy, LeaderHint
<1> QED BY <1>1, <1>2, <1>3, PTL DEF Spec
=============================================================================
