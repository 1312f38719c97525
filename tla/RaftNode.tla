------------------------------- MODULE RaftNode -------------------------------
(***************************************************************************)
(* The consensus layer: kv::RaftNode (raft.cpp) over the in-process        *)
(* transport (raft_transport.cpp).                                         *)
(*                                                                         *)
(* A node runs three threads, ElectionLoop, HeartbeatLoop and ApplyLoop,   *)
(* and a caller's thread may be inside ProposePut or ProposeDel.  Each     *)
(* critical section of RaftNode::mu_ is one step here.  A remote call runs *)
(* the peer's handler while the transport's own lock is held, so it is one *)
(* step too; the caller does not hold its own mu_ during the call, and     *)
(* whatever it read before may be stale when the answer comes back.  The   *)
(* places where a thread holds such values are named by its pc, and        *)
(* Preemptible lists those in which other threads may run meanwhile.       *)
(***************************************************************************)
EXTENDS Integers, Sequences, FiniteSetsExt

CONSTANTS
    Server,         \* node ids; ascending order is the order of peers_
    Cmd,            \* the operations clients propose, each at most once
    Candidates,     \* the nodes whose election timeout can pass
    Preemptible,    \* the windows in which a thread can be preempted
    MaxTerm,        \* bound: no election starts a term beyond it
    MaxStops        \* bound: nodes stopped and restarted

\* Every point inside a loop or a call at which the thread holds no lock.
Windows == {"ask", "vote_reply", "build", "hb_send", "hb_reply",
            "gap", "send", "ack", "commit", "notify", "notify_ack"}

None == 0           \* std::nullopt, for an optional node id

ASSUME RaftAssumption ==
    /\ Server \subseteq Nat \ {None} /\ IsFiniteSet(Server) /\ Server # {}
    /\ \A c \in Cmd : c.op \in {"Put", "Del"}
    /\ Candidates \subseteq Server /\ Preemptible \subseteq Windows
    /\ MaxTerm \in Nat /\ MaxStops \in Nat

VARIABLES
    node,           \* the fields of each RaftNode that mu_ protects
    eth, hth, cth,  \* the local variables of its election, heartbeat and client threads
    running,        \* the nodes whose running_ is true
    registered,     \* nodes_ of the transport
    applied,        \* the entries each node's state machine was given
    proposed,       \* the commands clients have proposed
    acked,          \* the entries whose proposal returned true
    ballots,        \* every vote ever cast, as <<voter, term, candidate>>
    stops

threads == <<eth, hth, cth>>
service == <<running, registered, stops>>
history == <<applied, proposed, acked, ballots>>
vars == <<node, eth, hth, cth, running, registered, applied, proposed, acked, ballots, stops>>

Peers(i) == Server \ {i}

\* needed = total / 2 + 1
Majority(S) == Cardinality(S) >= Cardinality(Server) \div 2 + 1

\* A freshly constructed node.  next_index_ and match_index_ are empty maps
\* until the node leads; an absent next index reads as 1.
NewNode(i) ==
    [current_term_ |-> 0, voted_for_ |-> None, log_ |-> <<>>, role_ |-> "Follower",
     leader_id_ |-> None, commit_index_ |-> 0, last_applied_ |-> 0,
     next_index_ |-> [p \in Peers(i) |-> 1], match_index_ |-> [p \in Peers(i) |-> 0]]

Asleep == [pc |-> "sleep", todo |-> {}]
NoCall == [pc |-> "none", todo |-> {}]

Init ==
    /\ node = [i \in Server |-> NewNode(i)]
    /\ eth = [i \in Server |-> Asleep]
    /\ hth = [i \in Server |-> Asleep]
    /\ cth = [i \in Server |-> NoCall]
    /\ running = Server /\ registered = Server
    /\ applied = [i \in Server |-> <<>>]
    /\ proposed = {} /\ acked = {} /\ ballots = {} /\ stops = 0

Holds(t) == t.pc \in Windows /\ t.pc \notin Preemptible

\* The threads inside a window in which nothing else may run.
Urgent == {<<"e", i>> : i \in {j \in Server : Holds(eth[j])}} \cup
          {<<"h", i>> : i \in {j \in Server : Holds(hth[j])}} \cup
          {<<"c", i>> : i \in {j \in Server : Holds(cth[j])}}

\* Thread t of node i may take a step.
Turn(t, i) == Urgent \subseteq {<<t, i>>}

-----------------------------------------------------------------------------
(* Helpers called with mu_ held: operators on the fields n of one node.     *)

LastLogIndex(n) == Len(n.log_)

TermAt(n, idx) == IF idx \in DOMAIN n.log_ THEN n.log_[idx].term ELSE 0

LastLogTerm(n) == TermAt(n, Len(n.log_))

\* Mutant: any candidate will do.
IsUpToDate_Any(n, cand_last_idx, cand_last_term) == TRUE

IsUpToDate(n, cand_last_idx, cand_last_term) ==
    IF cand_last_term # LastLogTerm(n) THEN cand_last_term > LastLogTerm(n)
                                       ELSE cand_last_idx >= LastLogIndex(n)

BecomeFollower(n, new_term, leader) ==
    [n EXCEPT !.role_ = "Follower", !.leader_id_ = leader,
              !.current_term_ = new_term, !.voted_for_ = None]

BecomeCandidate(n, i) ==
    [n EXCEPT !.role_ = "Candidate", !.leader_id_ = None,
              !.current_term_ = @ + 1, !.voted_for_ = i]

BecomeLeader(n, i) ==
    [n EXCEPT !.role_ = "Leader", !.leader_id_ = i,
              !.next_index_ = [p \in Peers(i) |-> LastLogIndex(n) + 1],
              !.match_index_ = [p \in Peers(i) |-> 0]]

\* Mutant: the last position of the sorted indexes.
MajorityMatch_Last(n, i) == Max({LastLogIndex(n)} \cup {n.match_index_[p] : p \in Peers(i)})

\* The element at position size / 2 of the sorted match indexes, the node's
\* own last index among them: size - size / 2 of them are at least that.
MajorityMatch(n, i) ==
    LET match(j) == IF j = i THEN LastLogIndex(n) ELSE n.match_index_[j]
        size == Cardinality(Server)
    IN  Max({match(j) : j \in {k \in Server :
              Cardinality({l \in Server : match(l) >= match(k)}) >= size - size \div 2}})

AdvanceCommitIndex(n, i) ==
    LET N == MajorityMatch(n, i)
    IN  IF N > n.commit_index_ /\ TermAt(n, N) = n.current_term_
        THEN [n EXCEPT !.commit_index_ = N] ELSE n

AppendEntriesReq(term, leader, prev, prev_term, entries, commit) ==
    [term |-> term, leader_id |-> leader, prev_log_index |-> prev, prev_log_term |-> prev_term,
     entries |-> entries, leader_commit |-> commit]

\* BuildAppendEntriesLocked: everything from next_index_ on.
BuildAppendEntries(n, i, p) ==
    LET next == n.next_index_[p]
    IN  AppendEntriesReq(n.current_term_, i, next - 1, TermAt(n, next - 1),
                         SubSeq(n.log_, next, Len(n.log_)), n.commit_index_)

-----------------------------------------------------------------------------
(* The RPC handlers: what they answer and the node they leave behind.       *)

\* Mutant: a vote already given does not bind.
CanVote_Again(n, req) == TRUE

CanVote(n, req) == n.voted_for_ \in {None, req.candidate_id}

OnRequestVote(n, req) ==
    LET m == IF req.term > n.current_term_ THEN BecomeFollower(n, req.term, None) ELSE n
        grant == /\ req.term >= n.current_term_
                 /\ CanVote(m, req)
                 /\ IsUpToDate(m, req.last_log_index, req.last_log_term)
    IN  [node |-> IF grant THEN [m EXCEPT !.voted_for_ = req.candidate_id] ELSE m,
         resp |-> [term |-> m.current_term_, ok |-> grant]]

\* Mutant: calls of a deposed leader are accepted.
FromThePast_Never(n, req) == FALSE

FromThePast(n, req) == req.term < n.current_term_

PrevMatches(n, req) ==
    /\ req.prev_log_index <= LastLogIndex(n)
    /\ TermAt(n, req.prev_log_index) = req.prev_log_term

\* Mutant: the suffix is cut but the entries are not appended.
LogAfter_CutOnly(n, req) ==
    IF req.entries = <<>> THEN n.log_ ELSE SubSeq(n.log_, 1, req.prev_log_index)

\* Mutant: the entries are appended without cutting the suffix.
LogAfter_NoCut(n, req) == n.log_ \o req.entries

\* Entries replace everything after prev_log_index, in conflict or not.
LogAfter(n, req) ==
    IF req.entries = <<>> THEN n.log_
    ELSE SubSeq(n.log_, 1, req.prev_log_index) \o req.entries

\* Mutant: leader_commit is ignored.
CommitAfter_Ignored(n, req) == n.commit_index_

CommitAfter(n, req) ==
    IF req.leader_commit > n.commit_index_
    THEN Min({req.leader_commit, Len(LogAfter(n, req))}) ELSE n.commit_index_

OnAppendEntries(n, req) ==
    LET m == IF req.term > n.current_term_ THEN BecomeFollower(n, req.term, req.leader_id)
             ELSE [n EXCEPT !.role_ = "Follower", !.leader_id_ = req.leader_id]
        match == PrevMatches(m, req)
    IN  IF FromThePast(n, req)
        THEN [node |-> n, resp |-> [term |-> n.current_term_, ok |-> FALSE]]
        ELSE [node |-> IF match THEN [m EXCEPT !.log_ = LogAfter(m, req),
                                               !.commit_index_ = CommitAfter(m, req)]
                       ELSE m,
              resp |-> [term |-> m.current_term_, ok |-> match]]

\* The transport: an unregistered peer answers "no" with the caller's term.
Unavailable(p, req) == [node |-> node[p], resp |-> [term |-> req.term, ok |-> FALSE]]

RequestVote(p, req) ==
    IF p \in registered THEN OnRequestVote(node[p], req) ELSE Unavailable(p, req)

AppendEntries(p, req) ==
    IF p \in registered THEN OnAppendEntries(node[p], req) ELSE Unavailable(p, req)

-----------------------------------------------------------------------------
(* ElectionLoop.                                                            *)

\* The loop may go round again with peers left to ask, or is done.
EthNext(t, todo) == IF todo = {} THEN Asleep ELSE [t EXCEPT !.pc = "ask", !.todo = todo]

\* The election timeout has passed for a node that does not lead.
ElectionTimeout(i) ==
    LET n == BecomeCandidate(node[i], i)
        req == [term |-> n.current_term_, candidate_id |-> i,
                last_log_index |-> LastLogIndex(n), last_log_term |-> LastLogTerm(n)]
        asking == [pc |-> "ask", todo |-> Peers(i), req |-> req, votes |-> {i},
                   resp |-> [term |-> 0, ok |-> FALSE]]
    IN  /\ i \in running \cap Candidates /\ eth[i].pc = "sleep"
        /\ Turn("e", i)
        /\ node[i].role_ # "Leader" /\ node[i].current_term_ < MaxTerm
        /\ node' = [node EXCEPT ![i] = n]
        /\ eth' = [eth EXCEPT ![i] = EthNext(asking, Peers(i))]
        /\ ballots' = ballots \cup {<<i, n.current_term_, i>>}
        /\ UNCHANGED <<hth, cth, applied, proposed, acked>> /\ UNCHANGED service

\* The next peer's OnRequestVote.
ElectionAsk(i) ==
    /\ eth[i].pc = "ask"
    /\ Turn("e", i)
    /\ LET p == Min(eth[i].todo)
           r == RequestVote(p, eth[i].req)
       IN  /\ node' = [node EXCEPT ![p] = r.node]
           /\ eth' = [eth EXCEPT ![i].pc = "vote_reply", ![i].resp = r.resp]
           /\ ballots' = IF r.resp.ok THEN ballots \cup {<<p, eth[i].req.term, i>>} ELSE ballots
    /\ UNCHANGED <<hth, cth, applied, proposed, acked>> /\ UNCHANGED service

\* The answer, looked at under the candidate's own lock.
ElectionReply(i) ==
    LET n == node[i]  t == eth[i]  p == Min(t.todo)
        stale == n.role_ # "Candidate" \/ n.current_term_ # t.req.term
        votes == IF t.resp.ok THEN t.votes \cup {p} ELSE t.votes
    IN  /\ t.pc = "vote_reply"
        /\ Turn("e", i)
        /\ \/ /\ stale
              /\ eth' = [eth EXCEPT ![i] = Asleep] /\ UNCHANGED node
           \/ /\ ~stale /\ t.resp.term > n.current_term_
              /\ node' = [node EXCEPT ![i] = BecomeFollower(n, t.resp.term, None)]
              /\ eth' = [eth EXCEPT ![i] = Asleep]
           \/ /\ ~stale /\ t.resp.term <= n.current_term_ /\ Majority(votes)
              /\ node' = [node EXCEPT ![i] = BecomeLeader(n, i)]
              /\ eth' = [eth EXCEPT ![i] = Asleep]
           \/ /\ ~stale /\ t.resp.term <= n.current_term_ /\ ~Majority(votes)
              /\ eth' = [eth EXCEPT ![i] = EthNext([t EXCEPT !.votes = votes], t.todo \ {p})]
              /\ UNCHANGED node
        /\ UNCHANGED <<hth, cth>> /\ UNCHANGED service /\ UNCHANGED history

-----------------------------------------------------------------------------
(* HeartbeatLoop.                                                           *)

HthNext(t, todo) == IF todo = {} THEN Asleep ELSE [t EXCEPT !.pc = "build", !.todo = todo]

HeartbeatTick(i) ==
    /\ i \in running /\ hth[i].pc = "sleep" /\ node[i].role_ = "Leader"
    /\ Turn("h", i)
    /\ hth' = [hth EXCEPT ![i] = HthNext(Asleep, Peers(i))]
    /\ UNCHANGED <<node, eth, cth>> /\ UNCHANGED service /\ UNCHANGED history

\* The request for the next peer, unless the node was deposed meanwhile.
HeartbeatBuild(i) ==
    LET t == hth[i]
        req == BuildAppendEntries(node[i], i, Min(t.todo))
    IN  /\ t.pc = "build"
        /\ Turn("h", i)
        /\ hth' = [hth EXCEPT ![i] = IF node[i].role_ # "Leader" THEN Asleep
                                     ELSE [pc |-> "hb_send", todo |-> t.todo, req |-> req]]
        /\ UNCHANGED <<node, eth, cth>> /\ UNCHANGED service /\ UNCHANGED history

HeartbeatSend(i) ==
    LET t == hth[i]  p == Min(t.todo)  r == AppendEntries(p, t.req)
    IN  /\ t.pc = "hb_send"
        /\ Turn("h", i)
        /\ node' = [node EXCEPT ![p] = r.node]
        /\ hth' = [hth EXCEPT ![i] = [pc |-> "hb_reply", todo |-> t.todo,
                                      req |-> t.req, resp |-> r.resp]]
        /\ UNCHANGED <<eth, cth>> /\ UNCHANGED service /\ UNCHANGED history

\* Mutant: no floor.
Backtrack_NoFloor(next) == next - 1

\* Mutant: a rejected call is repeated as it was.
Backtrack_Never(next) == next

Backtrack(next) == Max({1, next - 1})

\* What the answer resp to req does to the sender n: neither its role nor
\* its term is compared with those of the request.
AfterReply(n, i, p, req, resp) ==
    LET sent_last == req.prev_log_index + Len(req.entries)
        moved == IF req.entries = <<>> THEN n
                 ELSE [n EXCEPT !.match_index_[p] = sent_last, !.next_index_[p] = sent_last + 1]
    IN  IF resp.ok THEN AdvanceCommitIndex(moved, i)
        ELSE [n EXCEPT !.next_index_[p] = Backtrack(@)]

HeartbeatReply(i) ==
    LET n == node[i]  t == hth[i]  p == Min(t.todo)
        deposed == t.resp.term > n.current_term_
    IN  /\ t.pc = "hb_reply"
        /\ Turn("h", i)
        /\ node' = [node EXCEPT ![i] = IF deposed THEN BecomeFollower(n, t.resp.term, None)
                                       ELSE AfterReply(n, i, p, t.req, t.resp)]
        /\ hth' = [hth EXCEPT ![i] = IF deposed THEN Asleep
                                     ELSE HthNext(Asleep, t.todo \ {p})]
        /\ UNCHANGED <<eth, cth>> /\ UNCHANGED service /\ UNCHANGED history

-----------------------------------------------------------------------------
(* ApplyLoop: the entry is copied under the lock and applied after it; only *)
(* this thread applies, so the two are one step.  Reading past the end of   *)
(* log_ is undefined: it yields anything, here Garbage.                     *)

Garbage == [term |-> 0, cmd |-> [op |-> "Put", id |-> 0]]

Apply(i) ==
    LET n == node[i]  idx == n.last_applied_ + 1
    IN  /\ i \in running /\ n.last_applied_ < n.commit_index_
        /\ Urgent = {}
        /\ node' = [node EXCEPT ![i].last_applied_ = idx]
        /\ applied' = [applied EXCEPT ![i] =
                         Append(@, IF idx \in DOMAIN n.log_ THEN n.log_[idx] ELSE Garbage)]
        /\ UNCHANGED <<proposed, acked, ballots>>
        /\ UNCHANGED threads /\ UNCHANGED service

-----------------------------------------------------------------------------
(* ProposePut and ProposeDel, which differ in the entry alone.  Once the    *)
(* entry is in the log each is a chain of steps: read the term and the      *)
(* position, send the entry to one peer after another until a majority has  *)
(* it, then tell every peer the commit index.                               *)

\* First critical section.  A node that does not lead answers false at once.
Propose(i, c) ==
    LET e == [term |-> node[i].current_term_, cmd |-> c]
    IN  /\ cth[i].pc = "none" /\ c \notin proposed
        /\ Turn("c", i)
        /\ node[i].role_ = "Leader"
        /\ node' = [node EXCEPT ![i].log_ = Append(@, e)]
        /\ cth' = [cth EXCEPT ![i] = [pc |-> "gap", todo |-> {}, entry |-> e]]
        /\ proposed' = proposed \cup {c}
        /\ UNCHANGED <<eth, hth, applied, acked, ballots>> /\ UNCHANGED service

ProposePut(i, c) == c.op = "Put" /\ Propose(i, c)

ProposeDel(i, c) == c.op = "Del" /\ Propose(i, c)

\* Second critical section: term and position are read anew.  An empty log
\* here would wrap prev_idx around.
ProposeRead(i) ==
    LET n == node[i]  prev == LastLogIndex(n) - 1
        req == AppendEntriesReq(n.current_term_, i, prev, TermAt(n, prev), <<cth[i].entry>>, 0)
    IN  /\ cth[i].pc = "gap"
        /\ Turn("c", i)
        /\ cth' = [cth EXCEPT ![i] = [pc |-> IF Peers(i) = {} THEN "commit" ELSE "send",
                                      todo |-> Peers(i), entry |-> cth[i].entry,
                                      req |-> req, acks |-> {i}]]
        /\ UNCHANGED <<node, eth, hth>> /\ UNCHANGED service /\ UNCHANGED history

\* A call of AppendEntries by the client thread, from pc "send" or "notify".
ProposeCall(i, from, to) ==
    LET t == cth[i]  p == Min(t.todo)  r == AppendEntries(p, t.req)
    IN  /\ t.pc = from
        /\ Turn("c", i)
        /\ node' = [node EXCEPT ![p] = r.node]
        /\ cth' = [cth EXCEPT ![i] = [pc |-> to, todo |-> t.todo, entry |-> t.entry,
                                      req |-> t.req, acks |-> t.acks, resp |-> r.resp]]
        /\ UNCHANGED <<eth, hth>> /\ UNCHANGED service /\ UNCHANGED history

ProposeSend(i) == ProposeCall(i, "send", "ack")

\* The answer to the entry: count it, go on, or give up and return false.
ProposeAck(i) ==
    LET n == node[i]  t == cth[i]  p == Min(t.todo)
        deposed == n.role_ = "Leader" /\ t.resp.term > n.current_term_
        acks == IF t.resp.ok THEN t.acks \cup {p} ELSE t.acks
        left == t.todo \ {p}
        next == IF Majority(acks) THEN "commit" ELSE "send"
    IN  /\ t.pc = "ack"
        /\ Turn("c", i)
        /\ node' = IF deposed THEN [node EXCEPT ![i] = BecomeFollower(n, t.resp.term, None)]
                              ELSE node
        /\ cth' = [cth EXCEPT ![i] =
                     IF n.role_ # "Leader" \/ deposed \/ (next = "send" /\ left = {})
                     THEN NoCall
                     ELSE [pc |-> next, todo |-> IF next = "send" THEN left ELSE {}, entry |-> t.entry,
                           req |-> t.req, acks |-> acks]]
        /\ UNCHANGED <<eth, hth>> /\ UNCHANGED service /\ UNCHANGED history

\* The closing heartbeat is built without looking at the role again.
ProposeCommit(i) ==
    LET n == node[i]  t == cth[i]  last == LastLogIndex(n)
        req == AppendEntriesReq(n.current_term_, i, last, TermAt(n, last), <<>>, n.commit_index_)
    IN  /\ t.pc = "commit"
        /\ Turn("c", i)
        /\ cth' = [cth EXCEPT ![i] = [pc |-> "notify", todo |-> Peers(i), entry |-> t.entry,
                                      req |-> req, acks |-> t.acks]]
        /\ UNCHANGED <<node, eth, hth>> /\ UNCHANGED service /\ UNCHANGED history

ProposeNotify(i) == cth[i].todo # {} /\ ProposeCall(i, "notify", "notify_ack")

ProposeNotifyAck(i) ==
    LET n == node[i]  t == cth[i]
        deposed == t.resp.term > n.current_term_
    IN  /\ t.pc = "notify_ack"
        /\ Turn("c", i)
        /\ node' = IF deposed THEN [node EXCEPT ![i] = BecomeFollower(n, t.resp.term, None)]
                              ELSE node
        /\ cth' = [cth EXCEPT ![i] = [pc |-> "notify", entry |-> t.entry, req |-> t.req,
                                      acks |-> t.acks,
                                      todo |-> IF deposed THEN {} ELSE t.todo \ {Min(t.todo)}]]
        /\ UNCHANGED <<eth, hth>> /\ UNCHANGED service /\ UNCHANGED history

\* return true
ProposeReturn(i) ==
    /\ cth[i].pc = "notify" /\ cth[i].todo = {}
    /\ Turn("c", i)
    /\ cth' = [cth EXCEPT ![i] = NoCall]
    /\ acked' = acked \cup {cth[i].entry}
    /\ UNCHANGED <<node, eth, hth, applied, proposed, ballots>> /\ UNCHANGED service

-----------------------------------------------------------------------------
(* Stopping a node and starting it again, as the demos do: Stop joins the   *)
(* threads, then the node is taken from the transport; later a new RaftNode *)
(* is made over the same store, and nothing of the old one is left.         *)

Stop(i) ==
    /\ i \in running /\ stops < MaxStops /\ cth[i].pc = "none"
    /\ Urgent = {}
    /\ running' = running \ {i} /\ stops' = stops + 1
    /\ UNCHANGED <<node, registered>> /\ UNCHANGED threads /\ UNCHANGED history

Unregister(i) ==
    /\ i \in registered \ running /\ eth[i].pc = "sleep" /\ hth[i].pc = "sleep"
    /\ Urgent = {}
    /\ registered' = registered \ {i}
    /\ UNCHANGED <<node, running, stops>> /\ UNCHANGED threads /\ UNCHANGED history

Restart(i) ==
    /\ i \notin registered /\ cth[i].pc = "none"
    /\ Urgent = {}
    /\ node' = [node EXCEPT ![i] = NewNode(i)]
    /\ registered' = registered \cup {i} /\ running' = running \cup {i}
    /\ UNCHANGED stops /\ UNCHANGED threads /\ UNCHANGED history

-----------------------------------------------------------------------------
ElectionThread(i) == ElectionTimeout(i) \/ ElectionAsk(i) \/ ElectionReply(i)

HeartbeatThread(i) ==
    HeartbeatTick(i) \/ HeartbeatBuild(i) \/ HeartbeatSend(i) \/ HeartbeatReply(i)

ClientStep(i) ==
    \/ ProposeRead(i) \/ ProposeSend(i) \/ ProposeAck(i)
    \/ ProposeCommit(i) \/ ProposeNotify(i) \/ ProposeNotifyAck(i) \/ ProposeReturn(i)

ClientThread(i) ==
    \/ \E c \in Cmd : ProposePut(i, c) \/ ProposeDel(i, c)
    \/ ClientStep(i)

Next == \E i \in Server :
    \/ ElectionThread(i) \/ HeartbeatThread(i) \/ Apply(i) \/ ClientThread(i)
    \/ Stop(i) \/ Unregister(i) \/ Restart(i)

Spec == Init /\ [][Next]_vars

\* The threads of a node are scheduled and the calls in progress go on; an
\* election timeout, a proposal, a stop or a restart need not happen.
Fairness == \A i \in Server :
    /\ WF_vars(ElectionAsk(i) \/ ElectionReply(i))
    /\ WF_vars(HeartbeatThread(i))
    /\ WF_vars(Apply(i))
    /\ WF_vars(ClientStep(i))

FairSpec == Spec /\ Fairness

-----------------------------------------------------------------------------
(* Properties.                                                              *)

IsLeader(i) == node[i].role_ = "Leader"
Entries(i) == {node[i].log_[k] : k \in DOMAIN node[i].log_}

Entry == [term : Nat, cmd : Cmd]
Resp == [term : Nat, ok : BOOLEAN]
VoteReq == [term : Nat, candidate_id : Server, last_log_index : Nat, last_log_term : Nat]
AppendReq == [term : Nat, leader_id : Server, prev_log_index : Nat, prev_log_term : Nat,
              entries : Seq(Entry), leader_commit : Nat]

Node(i) ==
    [current_term_ : Nat, voted_for_ : Server \cup {None}, log_ : Seq(Entry),
     role_ : {"Follower", "Candidate", "Leader"}, leader_id_ : Server \cup {None},
     commit_index_ : Nat, last_applied_ : Nat,
     next_index_ : [Peers(i) -> Nat \ {0}], match_index_ : [Peers(i) -> Nat]]

\* The peers a loop has still to call, of which there is one at least.
ToCall(i) == (SUBSET Peers(i)) \ {{}}

ElectionThreadState(i) ==
    {Asleep} \cup [pc : {"ask", "vote_reply"}, todo : ToCall(i), req : VoteReq,
                   votes : SUBSET Server, resp : Resp]

HeartbeatThreadState(i) ==
    {Asleep} \cup [pc : {"build"}, todo : ToCall(i)]
             \cup [pc : {"hb_send"}, todo : ToCall(i), req : AppendReq]
             \cup [pc : {"hb_reply"}, todo : ToCall(i), req : AppendReq, resp : Resp]

ClientThreadState(i) ==
    {NoCall} \cup [pc : {"gap"}, todo : {{}}, entry : Entry]
             \cup [pc : {"send"}, todo : ToCall(i), entry : Entry, req : AppendReq,
                   acks : SUBSET Server]
             \cup [pc : {"commit", "notify"}, todo : SUBSET Peers(i), entry : Entry,
                   req : AppendReq, acks : SUBSET Server]
             \cup [pc : {"ack", "notify_ack"}, todo : ToCall(i), entry : Entry,
                   req : AppendReq, acks : SUBSET Server, resp : Resp]

\* Type invariant: in particular next_index_ stays positive however often a
\* peer rejects, and no thread calls a peer when it has none left.
TypeOK ==
    /\ DOMAIN node = Server /\ DOMAIN eth = Server /\ DOMAIN hth = Server /\ DOMAIN cth = Server
    /\ \A i \in Server : /\ node[i] \in Node(i)
                         /\ eth[i] \in ElectionThreadState(i)
                         /\ hth[i] \in HeartbeatThreadState(i)
                         /\ cth[i] \in ClientThreadState(i)
    /\ running \subseteq registered /\ registered \subseteq Server
    /\ applied \in [Server -> Seq(Entry \cup {Garbage})]
    /\ proposed \subseteq Cmd /\ acked \subseteq Entry
    /\ ballots \subseteq Server \X Nat \X Server /\ stops \in 0..MaxStops

\* Election safety (OnRequestVote, ElectionLoop): two nodes never lead the
\* same term, however the answers of overlapping elections are interleaved.
ElectionSafety ==
    \A i, j \in Server :
        IsLeader(i) /\ IsLeader(j) /\ node[i].current_term_ = node[j].current_term_ => i = j

\* Log matching (OnAppendEntries): two logs that hold an entry of the same
\* term at the same index are identical up to it.
LogMatching ==
    \A i, j \in Server :
        \A k \in DOMAIN node[i].log_ \cap DOMAIN node[j].log_ :
            node[i].log_[k].term = node[j].log_[k].term
                => SubSeq(node[i].log_, 1, k) = SubSeq(node[j].log_, 1, k)

\* ApplyLoop indexes log_ by commit_index_ without a check: a node never has
\* fewer entries than it takes for committed, though logs are cut back.
CommitWithinLog ==
    \A i \in Server : node[i].commit_index_ <= Len(node[i].log_)

\* State machine safety (AdvanceCommitIndexLocked, ApplyLoop): the stores of
\* two nodes are given the same operations in the same order.
StateMachineSafety ==
    \A i, j \in Server : \A k \in DOMAIN applied[i] \cap DOMAIN applied[j] :
        applied[i][k] = applied[j][k]

\* An operation ProposePut or ProposeDel answered true for is in the log of
\* every leader of a later term.
AckedSurvives ==
    \A e \in acked : \A i \in Server :
        IsLeader(i) /\ node[i].current_term_ > e.term => e \in Entries(i)

\* ProposePut reads its own position after unlocking: the log is not empty
\* then, or prev_idx = my_index - 1 would wrap around.
NoUnderflow ==
    \A i \in Server : cth[i].pc = "gap" => node[i].log_ # <<>>

\* The leader a node would redirect a client to (OnAppendEntries) is one
\* that a majority voted for in the node's term.
LeaderHint ==
    \A i \in Server : node[i].leader_id_ # None =>
        Majority({v \in Server : <<v, node[i].current_term_, node[i].leader_id_>> \in ballots})

\* A majority holds what a leader takes for committed (AdvanceCommitIndexLocked).
CommittedByMajority ==
    \A i \in Server : IsLeader(i) /\ node[i].commit_index_ > 0 =>
        LET e == node[i].log_[node[i].commit_index_]
        IN  Majority({j \in Server : e \in Entries(j)})

\* Commitment is final (OnAppendEntries): no step moves commit_index_ back or
\* changes an entry below it.
CommitFinal ==
    [][\A i \in Server :
         LET c == node[i].commit_index_
         IN  i \in registered =>
               /\ node'[i].commit_index_ >= c
               /\ \A k \in 1..c : /\ k \in DOMAIN node'[i].log_
                                  /\ node'[i].log_[k] = node[i].log_[k]]_vars

\* Follower catch-up (HeartbeatLoop): while a leader stays and a node runs,
\* backtracking next_index_ ends and the node comes to hold the leader's log,
\* be it a node that missed calls, diverged or lost everything in a restart.
CatchUp ==
    \A i, p \in Server :
        <>[](IsLeader(i) /\ {i, p} \subseteq running)
            => <>[](\A k \in DOMAIN node[i].log_ :
                      /\ k \in DOMAIN node[p].log_
                      /\ node[p].log_[k] = node[i].log_[k])

\* Progress (AdvanceCommitIndexLocked, ApplyLoop): what a lasting leader
\* appended in its own term is committed and applied by every running node,
\* whether or not the proposal itself was told so.
CommitSpreads ==
    \A i, p \in Server :
        <>[](IsLeader(i) /\ {i, p} \subseteq running
             /\ LastLogTerm(node[i]) = node[i].current_term_)
            => <>[](node[p].last_applied_ >= Len(node[i].log_))

-----------------------------------------------------------------------------
(* The abstract specification: the chosen log is what the node that is      *)
(* furthest ahead takes for committed.                                      *)

Furthest == CHOOSE i \in Server : \A j \in Server : node[j].commit_index_ <= node[i].commit_index_

Chosen == [k \in 1..node[Furthest].commit_index_ |-> node[Furthest].log_[k].cmd]

Given == [i \in Server |-> [k \in 1..Len(applied[i]) |-> applied[i][k].cmd]]

Promise == INSTANCE ReplicatedLog WITH chosen <- Chosen, applied <- Given

\* The cluster behaves like one log (AdvanceCommitIndexLocked, ApplyLoop): an
\* operation is committed at most once and for good, whichever node leads, and
\* the store of every node is given the committed operations without a gap.
ImplementsLog == Promise!Spec
=============================================================================
