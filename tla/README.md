# A TLA+ model of kv-engine-cpp

kv-engine-cpp is a key-value store in layers: a map in memory with a
write-ahead log and a snapshot (`src/src/kv_store.cpp`, `src/src/wal.cpp`), a
Raft layer that feeds it (`src/src/raft.cpp`, `src/src/raft_transport.cpp`), TCP
servers in front of the Raft nodes and a client that follows redirections
(`src/src/cluster_demo.cpp`, `src/src/kv_client.cpp`), and an object store kept in
the engine's keys (`src/src/object_store.cpp`). This project models all four,
checks them with TLC and proves theorems about all of them with TLAPS.
`PROJECT.json` maps each definition to the lines it stands for and lists
the runs, the mutants, the hazards and the theorems.

## 1. Inventory

| Component | State | Operations | What makes it correct |
|---|---|---|---|
| WAL (`wal.cpp`) | `fd_`, `buffer_`, the file | `append_put`, `append_del`, `flush`, `replay_into`, `close` | after a crash, replay returns a prefix of the writes that holds all that was fsynced |
| KV engine (`kv_store.cpp`) | `map_`, `seq_`, `group_commit_every_`, `wal_`, `opened_` under `mu_` | `open`, `put`, `del`, `flush_wal`, `checkpoint`, `set_group_commit_every`, `get`, `size`, `list_keys_with_prefix` | the live map and the two files agree; the number of unflushed writes is bounded |
| Raft node (`raft.cpp`) | term, vote, log, role, commit and apply positions, next and match indexes, all under `mu_` | `ElectionLoop`, `HeartbeatLoop`, `ApplyLoop`, `OnRequestVote`, `OnAppendEntries`, `ProposePut`, `ProposeDel`, `Start`, `Stop` | one leader per term, matching logs, acknowledged entries kept, equal state machines, catch-up |
| Transport (`raft_transport.cpp`) | the registered nodes | `Register`, `Unregister`, `RequestVote`, `AppendEntries` | a call reaches the handler of a registered node exactly once |
| Object store (`object_store.cpp`, `object_store_key_codec.h`) | none but the KV store | `CreateBucket`, `PutObject`, `GetObject`, `DeleteObject`, `ListObjects`, `GarbageCollectChunks` | committed metadata always has all its bytes, in every state a crash can leave; reads return one version; listings agree with the metadata; collection removes all that is unreachable and nothing else |
| Cluster demo and client (`cluster_demo.cpp`, `kv_client.cpp`) | one server thread per node, one command per client | `PUT`, `DEL`, `KILL`, redirection | a command is proposed once, and reaches every store wherever it is sent while one leader stays |
| Command line, server, other demos, scripts | none | a loop that reads, parses and calls | only the stop and restart of a node in `raft_demo.cpp` matter here |

How they interact. The engine calls the WAL under its own exclusive lock, so two
engine operations never interleave; what cuts into them is a crash or a failing
system call. A Raft node's threads share its fields under one mutex, which is
released around every call to a peer; the transport holds its own mutex during
the call, so handlers run one at a time, but what the caller read before may be
old when the answer comes. `ApplyLoop` hands committed entries to the engine
(`ApplyPut`, `ApplyDel`). A server thread reads a node's role and leader without
its mutex and then proposes. The object store makes each of its operations out of
several engine calls, with nothing that holds them together.

What is hard: a crash between two system calls of `flush` or `checkpoint`; a
flush that fails and is tried again; a snapshot rewritten in place; answers to
elections and heartbeats of an earlier term; a proposal that looks at its term
again after unlocking; a node that restarts with nothing; a command whose node is
deposed while it is handled; two object store operations, or an operation and a
crash, between any two of their engine calls. `PROJECT.json` lists these hazards
by line, with the properties that watch them.

## 2. Modules

| Module | What it is |
|---|---|
| `StoreFiles` | the two file formats: records, replay, maximal sequence number, snapshot words and how they are read back, each in closed form; and the two read loops of the code, turn by turn |
| `KVStore` | engine, WAL and crashes: the state machine |
| `CrashSafeMap` | what the engine promises its callers, without files; `KVStore` is shown to implement it |
| `MCKVStore` | TLC instances |
| `ReplicatedLog` | what the Raft layer promises the stores above it; `RaftNode` is shown to implement it |
| `RaftNode` | a cluster of Raft nodes over the transport |
| `MCRaftNode` | TLC instances |
| `Cluster` | extends `RaftNode` with the servers and the clients |
| `MCCluster` | TLC instances |
| `ObjectStore` | the object store and its key codec, over `CrashSafeMap` |
| `MCObjectStore` | TLC instances |
| `Extrema` | `Min` and `Max` of a set of naturals are members of it and bound it (by well-foundedness, and for `Max` of a finite set by the pigeonhole principle); proved |
| `StoreFilesProofs` | lemmas on records, replay and snapshot words, among them that the closed forms are what the loops compute |
| `KVStoreProofs` | the types of the engine's state on every reachable file, for every fault |
| `KVCrashProofs` | what crashes leave of the engine's files, and the refinement of `CrashSafeMap` |
| `RaftNodeProofs` | types, elections and redirection hints of the Raft nodes |
| `RaftLogProofs` | logs, acknowledgements and commitment of the Raft nodes, and the refinement of `ReplicatedLog` |
| `ClusterProofs` | the servers and clients, and the Raft theorems that hold behind them |
| `ObjectStoreProofs` | the object store's theorems |

### KVStore

The variables with a trailing underscore are the fields of the code. `pc` says
where the running operation is: `"closed"` before `open()` returns, `"idle"`
between operations, `"flush"` inside `Wal::flush`, `"dump"` inside
`checkpoint`. `written` counts the records the running flush has written,
`dumping` holds the keys the running checkpoint has still to write, `erasing` the
key a `del` removes if its flush succeeds. `wal_file`, `synced`, `snap_file` and
`snap_dirty` are the disk. `timeline` is a ghost: the maps recovery may return
to, oldest first, cut back to one at each durability boundary.

One action is one system call and what the code does around it: `Put` and `Del`
number and buffer a write; `FlushWrite` is one `write()`; `FlushSync` the
`fsync()`, the clearing of the buffer and the return to the caller, for `del`
with the erasure; `FlushWriteFails` and `FlushSyncFails` the early returns;
`CheckpointBegin`, `CheckpointLine` and `CheckpointRotate` the truncation, each
line and the rotation; `Open` recovery. `Crash` may fall at any `pc` listed in
`CrashPoints`: a `"kill"` keeps what `write()` put in the files, a `"power"` loss
keeps the fsynced records and any prefix of the others, and `"torn"` lets either
leave part of a record. `get`, `size` and `list_keys_with_prefix` change nothing
and are not actions.

Abstractions. A record is good or torn; that a torn or damaged record is noticed
(magic, lengths, CRC) is taken for granted, and bit rot is left out. Keys and
values are sequences of words, because the snapshot is read back by whitespace
and that is all that matters of their text. The snapshot goes through a stream
buffer, so a crash in `"dump"` may leave any part of it. Creating, truncating and
removing a file is assumed durable at once: what the code may lose there is only
more. The CLI's `SETBATCH` without an argument passes an uninitialised `n`; that
is any member of `BatchSizes`.

### RaftNode

`node[i]` holds the fields `mu_` protects. `eth`, `hth` and `cth` hold the local
variables of the election thread, the heartbeat thread and one client thread of
each node, with a `pc` that names the window the thread is in. A critical section
is one step, a call to a peer (handler and answer) is one step, and between any
two of them the thread holds no lock. `Preemptible` names the windows in which
other threads may run: a thread in any other window goes on before anybody else
does. With `Preemptible <- Windows` every interleaving is there; a run that needs
a longer history lists the windows its question is about. Peers are called in
ascending order, as `peers_` is built by the demos.

Elections: `ElectionTimeout`, `ElectionAsk`, `ElectionReply`. Heartbeats:
`HeartbeatTick`, `HeartbeatBuild`, `HeartbeatSend`, `HeartbeatReply`. Proposals:
`ProposePut`/`ProposeDel` (the append), `ProposeRead` (the second critical
section), `ProposeSend`, `ProposeAck`, `ProposeCommit`, `ProposeNotify`,
`ProposeNotifyAck`, `ProposeReturn`. `Apply` is one turn of `ApplyLoop`; reading
past the end of `log_` yields `Garbage`. `Stop`, `Unregister` and `Restart` are
what the demos do to a node. Time is not modelled: a timeout may pass whenever
the node does not lead. `applied`, `proposed`, `acked` and `ballots` are ghosts.

`ReplicatedLog` knows no nodes, terms or calls: clients propose operations, `Choose`
adds proposed operations at the end of one log, none of them twice, and `Apply` gives
the store of a node the next operation of the log. The refinement mapping takes for
the log what the node with the largest commit index has committed (`Chosen`), without
the terms, and for the stores' inputs the operations of `applied` (`Given`).

Bounds. Each node has one client thread, and a node is not stopped while a client
is inside it (the demos' clients are sequential). Each command is proposed at
most once. `MaxTerm` stops elections, so the cluster may come to rest and
deadlock checking is off in the Raft runs.

### ObjectStore

The engine appears as what `KVStore` is shown to implement: `CrashSafeMap`, whose
`timeline` holds the map at the last flush and after each later call, and whose
`Recover` keeps any prefix of it. An operation is a queue of engine calls in
`op[c]`; `Write`, `GetChunk`, `ListEntry`, `GcMark` and `GcSweep` are one call
each, and other clients run, or the process dies, between any two.
`Acknowledge` is the flush and the answer; `FlushFails` the error return, which
takes nothing back. `ListObjects` and `GarbageCollectChunks` visit keys in any
order, as the `unordered_map` behind `list_keys_with_prefix` does.

A name is the sequence of its parts between colons, so that the codec's joins
coincide in the model exactly when they do in the code: bucket `a` with key `b:c`
and bucket `a:b` with key `c` have one metadata key. A listing prefix is made of
whole parts. A content type is the sequence of its parts between tabs: with a tab
in it the metadata that `PutObject` writes cannot be read back, because a time of
13 digits is taken for the state, and the object counts as absent (the code
states as an assumption that there is none). An etag stands for the bytes it is
the hash of. `chunk_size_bytes` and the times in the metadata are read by nobody
and are left out. A group that closes inside an operation flushes earlier than the
operation asks, which only takes outcomes of a crash away, and is left out; so are
the engine's own faults, which `KVStore` has.

`recent`, `settled` and `garbage` are ghosts: the metadata a reader may find for an
object, the objects that did not change while a listing ran, and the chunks that
were unreachable when a collection began.

### Cluster

`sv[i]` is the thread of node `i`'s server and `cl[c]` one run of `kv_client` with
command `c`. A server takes one connection at a time and runs `handle_command`
to the end: `Handle` reads the role; `HandleAsk` and `HandleHint` are the two reads
of `leader_id_`, the second of which is undefined if the hint is gone (any node or
none); `HandlePropose` and `HandleCall` run a proposal of `RaftNode`, and
`HandleDeposed` is the proposal that finds under the lock that it does not lead.
`Asked` bounds the nodes users start `kv_client` with. `Answer` sends the answer; the client follows it if it is its first and names a
port. `HandleKill` and `HandleKilled` are `KILL`: the threads are joined, while the
node stays registered, keeps its role and goes on answering peers and clients. A
role and an optional of eight bytes are taken to be read in one piece.

## 3. Runs

Store runs use two keys, two values and at most four writes: enough for a group
to close, a value to be overwritten, deleted and written again, and a crash in
every position of a flush.

| Run | Instance | Shows |
|---|---|---|
| `store_kill` | 4 writes, groups of 2, `SETBATCH` 0 and 3, deletes, 2 kills at any system call | recovery lands on a prefix of the writes no shorter than the last flush (`CrashConsistent`); sequence numbers stay increasing over restarts (`SeqIncreasing`); the engine implements `CrashSafeMap`; `TypeOK` |
| `store_power` | 4 writes, groups of 3, deletes, one kill or power loss, torn records | the same, with what was fsynced alone; at most one short of a group waits in the buffer (`GroupCommitBound`) |
| `store_checkpoint` | groups of 3, 2 checkpoints, 2 kills between operations, a WAL that cannot be reopened | the snapshot takes over from the WAL, and disk plus buffer give the live map (`Recoverable`) |
| `store_retry` | puts, one checkpoint, 2 failed writes or fsyncs, kill and power loss | `Recoverable` also after flushes that failed half way and were repeated |
| `store_faults` | every fault at once | recovery makes up no key (`RecoveredKeys`); synced records stay (`FsyncedStays`) |
| `raft_replication` | 3 nodes, a put and a delete, 2 candidates, 2 terms; other threads may run between the answer to a heartbeat and its handling and between a proposal's reading of its position and each of its calls | `LogMatching`, `CommitWithinLog`, `StateMachineSafety`, `AckedSurvives`, `CommittedByMajority`, `CommitFinal`; the cluster implements `ReplicatedLog` (`ImplementsLog`) |
| `raft_catchup` | fair threads, all interleavings, one node stopped and restarted empty | a lasting leader brings every running node to its log (`CatchUp`) and its entries are applied everywhere (`CommitSpreads`); `TypeOK` |
| `cluster_redirect` | 3 nodes, 2 candidates, 2 terms, one command sent to any node, one `KILL`; other threads may run inside elections, proposals and heartbeats, and between any two reads of a server | `ElectionSafety`; a node redirects only to a node a majority elected (`LeaderHint`); the redirected command is proposed once (`ProposedOnce`) and, once acknowledged, stays (`AckedSurvives`); the client connects only to nodes (`ClusterTypeOK`) |
| `cluster_served` | fair threads, one leader and term, three commands sent to a follower; other threads may run between the building, the delivery and the answer of every heartbeat | while one running leader stays that all know, a command is answered by the leader and reaches every running node's store (`OneServed`, which is `Served` of one of the commands) |
| `objects` | 2 clients, objects of 0, 1, 2 and 3 bytes in chunks of 2, 4 mixes of two puts with reads, deletes, listings and collections, one crash | metadata that says committed has its bytes, now and after any crash (`Intact`); acknowledged puts and deletes last (`AckedStays`); a read returns one whole version (`ReadsWhole`); a listing is right about objects that did not change (`ListExact`); a collection reclaims all garbage (`GcReclaims`); `TypeOK` |

`objects` counts events by `Mixes`: an execution stays within one of four
combinations of calls, crashes and failed flushes, because all of them at once are
too many. Each combination has two puts, of the same or of different objects, and
a crash; what it adds is a read and a delete, a listing and a delete, a collection
and a failed flush, or a collection and a delete. `Ticks = {1}`: the clock advances
between any two puts, and `Serialized` lists the pairs of operations that callers
have to keep apart (a put and a delete, a put and a collection, a read and a
collection): without either the properties fail, see below. Puts overlap puts,
gets and listings; deletes overlap gets, listings and collections.

The candidates of the longer runs are 1 and 3: peers are called in ascending
order, so node 3 is the one a proposal reaches last, and it is the one whose
election is interesting.

Fairness (`FairSpec` in `raft_catchup`, `ClusterFairness` in `cluster_served`).
The election, heartbeat,
apply and client threads are weakly fair: the operating system schedules them,
their mutexes are held for bounded sections, and calls return. So are
the server threads of `Cluster`, which loop for ever. An election timeout, a
proposal, a stop or a restart is not required to happen; the liveness properties
are about a leader that stays. `raft_catchup` lets a thread be preempted anywhere;
`cluster_served` only inside heartbeats, the one loop that never ends. Inside its other
windows a thread keeps the rest waiting, and weak fairness then asks for less than the
operating system gives: more schedules count as fair, and the property holds in them
too.

What `Served` does not say. The client may be told `FAIL` (`NOT_FOUND` for `DEL`)
although one leader stays that all know; the table below has two ways. `FAIL` does not
mean that the command is lost either: while that leader stays, so does its entry, and
heartbeats take it to every store. The three commands of `cluster_served` are enough
for both the cut of an acknowledged entry and the `FAIL` that follows it; they are
interchangeable (nothing a node does depends on which command it is), so one client
stands for all. There is no `KILL` in this run; `cluster_redirect` has one.

Every property of a passing run has a mutant, a small operator beside the
definition it replaces (marked `Mutant:`), that makes TLC find the property
violated: a vote given twice, a missing fsync, a buffer not cleared, no cut of a
conflicting suffix, and so on.

Sizes: between 50 thousand (`raft_catchup`) and 1.5 million (`store_faults`)
distinct states, each run within a few minutes on two cores.

### Disagreements with the documentation

Two runs end in a violation; each is a finding in `PROJECT.json`.

- `store_torn_twice`: `open()` leaves a torn tail in the file and appends after
  it, so records flushed since are lost at the next crash.
- `raft_gap`: a proposal reads its term and position again after unlocking and
  sends its entry for a term it does not lead; a committed entry is overwritten.

These were met too, and are outside the passing instances for that reason. Each
shows with the constants given (other bounds as in `store_kill`,
`raft_replication` and `objects`, no other operations or faults; a mix not named
is empty):

| What | Constants | Violated |
|---|---|---|
| `checkpoint` keeps `buffer_`; a kill in the next flush replays old records over the new snapshot (`kv_store.cpp:181`) | `GroupCommitEvery = 3`, `Ops = {"checkpoint"}`, `Faults = {"kill"}`, `CrashPoints = {"flush"}`, 3 writes, 1 checkpoint | `CrashConsistent` |
| the WAL is removed while the snapshot is only in the page cache (`kv_store.cpp:182`) | `GroupCommitEvery = 1`, `Ops = {"checkpoint"}`, `Faults = {"power"}`, 1 write, 1 checkpoint | `CrashConsistent` |
| a value that is empty or holds a blank does not survive a snapshot (`kv_store.cpp:193`) | `Val <- OddVals`, `GroupCommitEvery = 1`, `Ops = {"checkpoint"}`, `Faults = {"kill"}`, 2 writes, 1 checkpoint | `CrashConsistent` |
| a flush whose fsync failed starts again from the first record; a kill in between leaves a mixture (`wal.cpp:255`) | `GroupCommitEvery = 3`, `Faults = {"kill", "fsync"}`, 3 writes, 1 failure | `CrashConsistent` |
| `FLUSH` with an empty buffer answers OK without an fsync (`wal.cpp:241`) | `GroupCommitEvery = 1`, `Faults = {"kill", "power"}`, 1 write, 2 crashes | `CrashConsistent` |
| a `del` whose flush fails leaves the key in the map and its record in the buffer (`kv_store.cpp:110`) | `GroupCommitEvery = 2`, `Ops = {"del"}`, `Faults = {"fsync"}`, 2 writes, 1 failure | `Recoverable` |
| entries are cut whether or not they conflict, so a heartbeat built before a proposal and delivered after it removes the acknowledged entry (`raft.cpp:198`) | `Preemptible = {"hb_send"}` | `AckedSurvives` |
| the same cut makes proposals fail: A and B are answered `OK` by node 2, an old heartbeat cuts node 2 back to A, and C, sent with `prev_log_index` 2, is rejected by nodes 2 and 3; its client is told `FAIL` while node 1 leads and all know (`raft.cpp:198`, `270`) | as `cluster_served` | `Served` with `OK` as the only answer |
| a leader that is elected again with an entry nobody took fails its first proposal, which is sent without that entry, while it leads and all know (`raft.cpp:246`) | `cluster_served` with 2 commands, `Candidates = {1, 3}`, `Preemptible = {"send"}`, `MaxTerm = 3`, `Asked = {1}` | the same |
| the answer to a heartbeat is not compared with the term it was sent in: handled by the same node in a later term, it counts the peer for entries the peer never had, and the leader commits alone (`raft.cpp:463`) | `Preemptible = {"hb_reply", "send"}`, 4 commands, `MaxTerm = 7` | `CommittedByMajority` |
| for two nodes position `size / 2` is the larger index, and the leader commits alone (`raft.cpp:68`) | `Server = {1, 2}`, `Preemptible = {"hb_send", "send"}`, 1 term | `CommittedByMajority` |
| a deposed leader sends its closing heartbeat for a term it does not lead (`raft.cpp:277`) | `Preemptible = {"commit"}` | `LeaderHint` |
| a checkpoint truncates the only snapshot before it writes the new one (`kv_store.cpp:200`) | `GroupCommitEvery = 1`, `Ops = {"checkpoint"}`, `Faults = {"kill"}`, `CrashPoints = {"dump"}`, 2 writes, 2 checkpoints | `CrashConsistent` |
| a restarted node has forgotten its vote and votes again: two leaders in a term (`raft_demo.cpp:116`) | no command, `Candidates = {1, 3}`, `Preemptible = {"ask"}`, `MaxTerm = 1`, `MaxStops = 1` | `ElectionSafety` |
| two puts of a key in one millisecond share an object id: the second writes over the chunks of the first before its metadata is there, while `README.md:21` says that "new metadata commits atomically replace previous object versions" (`object_store.cpp:40`) | 1 client, `Ticks = {0, 1}`, 2 puts and a crash | `Intact` |
| a collection that runs while an object is put removes its chunks, while `README.md:271` says they "can be safely reclaimed" (`object_store.cpp:384`) | `Serialized` without put and gc, 1 put, 1 gc | `Intact` |
| a read that has the metadata misses chunks that a collection removes after a delete (`object_store.cpp:269`) | `Serialized` without get and gc, 1 put, 1 get, 1 delete, 1 gc | `ReadsWhole` |
| a delete that overlaps a put of the same key leaves committed metadata without an index entry, while `README.md:230` says that listings "reflect the committed metadata state" (`object_store.cpp:310`) | `Serialized` without put and delete, 2 puts, 1 delete, 1 list | `ListExact` |
| names with colons: bucket `a`, key `b:c` and bucket `a:b`, key `c` are one object (`object_store_key_codec.h:16`) | `ColonBuckets`, `ColonKeys`, `ColonRequests`, 2 creates, 2 puts, 1 get, or 1 list | `ReadsWhole`, `ListExact` |

The row on late answers (`raft.cpp:463`) was met while proving: the invariant that a
peer has what `match_index_` says fails there and nowhere else. Its execution has
some ninety steps, out of reach of a breadth-first search; TLC confirms it when it
is led along the schedule: node 1 leads terms 1 and 3 and appends an entry in each
that nobody takes, node 3 leads terms 2 and 4 and appends one in the latter, node 1
leads term 5 and sends its two entries to node 2, whose answer waits; node 3 leads
term 6 and cuts node 1's log back to its own entry; node 1 leads term 7, appends a
second entry, handles the waiting answer and takes position 2 for committed, which
nobody else has. `raft_replication` has this window but two terms.

Three smaller ones need no model. A listing comes in the order of an
`unordered_map`, while `README.md:226` speaks of a "Deterministic lexicographic
listing order". Object metadata holds tabs, so it does not survive the word-wise
reading of a snapshot (the third row of the table). And `server_main.cpp` passes no
Raft node to `handle_command`, so `PUT` and `DEL` always answer `NOT_LEADER`,
although its loop says "single-node mode for now".

## 4. Theorems

All hold for every value of the constants that satisfies the assumption of the module
(`StoreAssumption`, `RaftAssumption`, ...) and the hypotheses named: any finite set of
nodes, clients, commands, names, batch sizes and faults, and any bound on terms,
kills, writes and crashes. The hypotheses exclude what the code does wrong: most of
them name a row of the table above, the others say why they are there.

### Engine (`KVStoreProofs`, `KVCrashProofs`)

- `StoreTypes`: `TypeOK` under every combination of faults. Its substance is recovery:
  replay and the reading of a snapshot are functions of any file a crash can leave,
  their result is a map from strings to strings and a natural number, the flush loop
  stays within the buffer and the synced part within the file, and the group size the
  code divides by is positive.
  `StoreFilesProofs` has as lemmas that `replay_into`'s loop and the snapshot's loop
  (`in >> k >> v`) compute the closed forms the model uses for them (`ReplayIsLoop`,
  `LoadIsLoop`; a least turn at which the two differ leads to a contradiction).
- `FsyncedSurvives`: `FsyncedStays`, under every fault.
- `NumbersIncrease`: `SeqIncreasing`, if no record is torn and no `write` or `fsync`
  fails. Recovery takes the largest number among the records it can read; a torn
  record hides the later ones, and a repeated flush writes records twice. The
  invariant is the property together with the absence of torn records.
- `NoMadeUpKeys`: `RecoveredKeys` under every fault, for strings of one word
  (`PlainStrings`): a snapshot cut inside a word or a pair yields no other key.
- `DiskFollowsMap`: `Recoverable`, if no record is torn, the snapshot stream does not
  fail, strings are words, and `del` is not combined with failing flushes
  (`DelsSucceed`: a failed `del` leaves its record in the buffer and the key in the
  map). The invariant says what snapshot, file, buffer and the running operation
  replay to at each `pc`, which makes repeated flushes harmless: replaying the same
  records again gives the same map.
- `CheckpointsKeepPromise`: `CrashConsistent` and the refinement `ImplementsPromise`,
  with checkpoints and a WAL that may fail to reopen, for kills between operations
  (`CleanKills`) and `PlainStrings`. Inside a checkpoint or a flush after one, a kill
  loses data (first, third and tenth row).
- `LogKeepsPromise`: the same conclusion without checkpoints and failing flushes
  (`LogOnly`), for crashes at any system call: any number of crashes of one kind with
  whole records, or one crash of either kind that may tear a record (`OneKind \/
  MaxCrashes <= 1`). After a kill, `flush_wal` with an empty buffer declares durable
  what a power loss can still take, and behind a torn record nothing is found again.
  The invariant, `LogInv`, states that every prefix of file and buffer between the
  floor a crash can leave and the whole replays to a map of the timeline
  (`PointsOnTime`), that the whole replays to its newest, and that an empty buffer
  outside a flush means that the floor is the whole file; `CrashConsistent` alone says
  nothing of records that are still in the buffer. Both theorems establish refinement
  step by step: each action is a write, a flush, a crash or a recovery of
  `CrashSafeMap`, or a stutter.
- `GroupsStaySmall`: `GroupCommitBound`, if flushes and reopens succeed and the group
  size is not changed. The invariant says that the buffer holds at most `seq_` modulo
  the group size, from wherever a restart resumes the numbering.

### Raft (`RaftNodeProofs`, `RaftLogProofs`)

- `RaftTypes`: `TypeOK`, with stops and restarts. Not a formality: that `Min(todo)` is
  a peer needs that no thread calls with nobody left (and `Extrema`); that the
  position a proposal reads is positive needs the next theorem's invariant; and that
  `commit_index_` stays a natural number needs that it only moves to an index inside
  the log. `TypeInv` therefore is `TypeOK`, `NoUnderflow` and `Elected`: a node that
  leads, stands for election or is inside a round of heartbeats has a term above 0,
  while an index outside the log has term 0, so `AdvanceCommitIndexLocked` rejects it.
- `PositionNeverWraps`: `NoUnderflow`; `my_index - 1` never wraps, although the log
  may be cut between the two critical sections: what replaces it is never empty.
- `OneLeaderPerTerm`: `ElectionSafety` without restarts (`MaxStops = 0`; a restarted
  node has forgotten its vote). `ElectionInv` adds that no node casts two votes in a
  term (`VoteOnce`), that `voted_for_` is what the ballots say of the current term and
  no ballot is from a later one (`VoteKept`), that the votes an election thread has
  counted were cast (`VotesCast`), and that a leader has the ballots of a majority
  (`LeaderElected`). Two majorities of a finite set intersect.
- `HintsAreElected`: `LeaderHint`, restarts included, if no thread runs while a
  proposal builds a request (`Undisturbed`: `"gap"` and `"commit"` are not
  preemptible; otherwise a deposed node names itself leader of the next term). Every
  request under way names a leader that a majority voted for.
- `LogsMatch`: `LogMatching`, without restarts and if `"gap"` is not preemptible (a
  proposal preempted there sends its entry for a term its node does not lead, run
  `raft_gap`).
- `AckedInLaterLogs`: `AckedSurvives`, if in addition `"hb_send"` is not preemptible
  (an overtaken heartbeat cuts off what was acknowledged since).
- `CommitsAreStored`, `SameOperations`, `MajorityCommits`, `CommitmentIsFinal`:
  `CommitWithinLog`, `StateMachineSafety`, `CommittedByMajority` and `CommitFinal`, if
  in addition `"hb_reply"` is not preemptible (together `Orderly`; a late answer
  counts for the log of a later term) and the number of nodes is odd (with an even
  number the position `size / 2` of the sorted indexes is stored by half of them).
- `ClusterIsOneLog`: `ImplementsLog`, the refinement of `ReplicatedLog`, under the same
  hypotheses. It says more than the invariants: the chosen log grows only at its end,
  whichever node leads, and no operation is in it twice although a heartbeat and the
  proposal itself may both send an entry.

The argument of `RaftLogProofs`, in three layers, each an invariant of the form "there
is a set `M` such that ...". `M` holds a pair of term and log for every log that any
leader had in its term, so it only grows; its existence stands in for a history
variable, and a step extends it by the logs of those who lead after it (`Extends`).

1. `MatchInv(M)`: every entry of a log in `M` was put there by a leader of the entry's
   term whose log ended with it (`Cuts`), the logs of one term are prefixes of each
   other (`Chain`), every node's log is in `M` (`NodeLogs`), a leader's is the longest
   of its term (`LeaderLogs`), and requests under way carry a part of a log in `M`.
   `LogMatching` follows. It is here that unconditional truncation helps: what a node
   takes over is a whole log of `M`.
2. `LastInv(M)`: an entry is `Sure` if some majority `A` is `Guarded` for it: every
   node of `A` has it and is in its term or a later one, all logs of later terms in
   `M` have it, and every vote that members of `A` gave in a later term went to a log
   that has it; or a majority outside `A` is already beyond the term, so that nobody
   can be counted any more. The second case makes the notion inductive while a
   proposal still counts: the set of nodes that took the entry is `Guarded` although
   not yet a majority, and two majorities meet. Elections preserve it because a voter
   in `A` has the entry and votes only for logs that are as up to date as its own.
   What is acknowledged is `Sure`.
3. `TopInv(M)`: what a leader's `match_index_` counts for an entry of its term is
   `Guarded` (`LeadClaim`); a commit index ends at or before a `Sure` entry of the
   node's own log (`CommitClaim`); an answer that waits is about the sender's present
   log (`Replied`); requests tell only commit indexes that the receiver's log covers
   once it accepts them (`Told`); state machines were given the log up to
   `last_applied_` (`AppliedClaim`). Of two `Sure` entries the log that holds the
   later one begins with all that precedes the other (`SurePrefix`), hence equal
   operations; and a log that is cut keeps its `Sure` entries, hence final commitment.

For the refinement a fourth, `OnceInv(M)`: an operation in a log of `M` was proposed and
has the same position in every log of `M`. Only the append of a proposal brings a new
operation into a leader's log (`LogSteps`), at the end and never proposed before. With
it the chosen log is well defined and sound in every state (`ChosenGood`); it does not
shrink or change because no node takes back what it committed (`ChosenGrows`); and
each step is `Propose`, `Choose`, `Apply` or a stutter (`PromiseStep`).

### Cluster (`ClusterProofs`)

Every step of the cluster is a step of `RaftNode` that keeps all nodes registered, or
leaves the nodes alone (`ClusterStep`, `ClusterNodes`). `KILL` joins the threads of a
node, which keeps its votes and its log and goes on answering, so no hypothesis on
kills is needed anywhere.

- `ClusterTypes`, `NoCommandTwice`: `ClusterTypeOK` and `ProposedOnce`. The invariant
  says that the client of a command a server is busy with waits at that server
  (`ServesWaiting`), and that a command once proposed is still being proposed or its
  client is done (`ProposedServed`).
- `ClusterElections`, `ClusterHints`, `ClusterKeepsAcked`, `ClusterStoresAgree`,
  `ClusterServesOneLog`: `ElectionSafety`, `LeaderHint`, `AckedSurvives`,
  `StateMachineSafety` and the refinement `ImplementsLog` behind the servers, under the scheduling hypotheses of the Raft theorems; those of the first
  three hold in the run `cluster_redirect`.

### Object store (`ObjectStoreProofs`)

- `ObjectTypes`: `TypeOK` for any clients, names and requests, with the shape of every
  operation's remaining calls.
- `AcknowledgedStays`: `AckedStays`, without hypotheses: every map on the timeline
  shows what some write since the last acknowledgement left, and a flush cuts the
  timeline to the present.
- `CommittedIsWhole`: `Intact`, if puts and collections are kept apart (`PutGcApart`)
  and the clock moves between puts (`ClockMoves`), neither of which the code sees to.
  The invariant says that an object id carries a time no later than the clock
  (`KnownInv`), that nothing on the timeline or in another operation's hands has the
  id of a running put (`FreshInv`), that the chunks the put has written are there
  (`DoneInv`), that a collection has marked or will mark all live metadata
  (`MarkInv`), and that every map of the timeline is complete (`MapInv`).
- `CollectionsReclaim`: `GcReclaims`, if `PutGcApart`.
- `ReadsAreWhole`: `ReadsWhole`, if `PutGcApart`, `ClockMoves`, reads and collections
  are kept apart (`GetGcApart`) and no two objects have names that the codec joins
  alike (`NamesDiffer`).
- `ListingsAreExact`: `ListExact`, if puts and deletes are kept apart
  (`PutDeleteApart`) and no bucket's name continues another's (`BucketsDiffer`); the
  clock and collections do not matter. The invariant, `ListInv`, says what a put or
  delete has still to write and, when it flushes, has written (`ChangeInv`: a put its
  index entry, a delete metadata that says deleted before it removes the entry); that
  an object whose only version is committed has its index entry in every map a crash
  can leave (`EntryInv`); that metadata lies under the name of its own object
  (`NameInv`); and that a listing has shown, or has still to visit, each live object
  that is settled, which no running put or delete touches (`ShowInv`). With a put
  beside a delete `EntryInv` fails: the delete removes the entry of metadata that is
  committed by then.

### Only model-checked

Liveness (`CatchUp`, `CommitSpreads`, `Served`), which is out of the prover's reach.
Every other property of a passing run is the subject of a theorem. The runs also cover
instances that the theorems leave out: `raft_replication` lets other threads run before
the answer to a heartbeat is handled, within two terms.

## 5. Not modelled

- `truncate_to_last_good`, `save_snapshot`, `load_snapshot`, `save_to_file` and
  `load_from_file`: nothing calls them.
- The bytes of a record, CRC arithmetic, bit rot.
- `server_main.cpp`: without a Raft node its commands change nothing. `main.cpp` is a
  loop around the engine's calls, and the object store demos and the scripts are
  example drivers. `raft_demo.cpp`: only a node's stop and restart.
- Sockets: that a connection fails or an answer is lost. The client then gives up
  and prints an error; it never sends a command again.
- The object store's `now_epoch_ms` going backwards, and the collision of etags,
  which nothing compares.
- That `open()` reads `/tmp/kv.snapshot` whatever WAL it is given, so that several
  stores share one snapshot.

## 6. Plan

Done: engine and WAL, then Raft, then the cluster and the object store, in the order
of what the system rests on; then the proofs, in the same order. What is left:

1. The Raft theorems for nodes that stop and come back while they are not voted for:
   which restarts are harmless.
2. `ApplyLoop` over `KVStore`: a node that restarts over its old store applies the
   log again from the start.
