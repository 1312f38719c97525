------------------------------- MODULE KVStore -------------------------------
(***************************************************************************)
(* The storage engine: kv::KVStore over kv::Wal (kv_store.cpp, wal.cpp),   *)
(* its two files, and the crashes it must survive.                         *)
(*                                                                         *)
(* Every operation holds KVStore::mu_ exclusively, so operations do not    *)
(* interleave with each other; a crash, however, can fall between any two  *)
(* system calls.  An operation that writes to disk is therefore a chain of *)
(* steps, one per system call, with pc naming the point reached.  get,     *)
(* size and list_keys_with_prefix change nothing and are not actions.      *)
(***************************************************************************)
EXTENDS StoreFiles

CONSTANTS
    Key, Val,            \* the strings callers use as keys and as values
    Stub,                \* the word a reader sees when the file ends inside a word
    GroupCommitEvery,    \* group_commit_every_ of a new store (5 in the code)
    BatchSizes,          \* arguments of set_group_commit_every
    Ops,                 \* the operations callers invoke, besides put and flush
    Faults,              \* what can go wrong: see FaultNames
    CrashPoints,         \* the values of pc at which a crash can fall
    MaxWrites,           \* bound: puts and dels over the whole run
    MaxCrashes,          \* bound: crashes
    MaxCheckpoints,      \* bound: checkpoints
    MaxFailures          \* bound: failed write() and fsync() calls

(* "kill": the process dies, the files keep what write() put there.         *)
(* "power": the machine dies, a file keeps what was fsynced and any part    *)
(* of the rest.  "torn": a crash or an I/O error can leave part of a record *)
(* or of a word.  "write", "fsync", "dump" and "reopen" are failures of     *)
(* write(), fsync(), the snapshot stream and the open() of a rotated WAL.   *)
FaultNames == {"kill", "power", "torn", "write", "fsync", "dump", "reopen"}
OpNames == {"del", "checkpoint", "batch"}
PcNames == {"closed", "idle", "flush", "dump"}

ASSUME StoreAssumption ==
    /\ Key \subseteq Str /\ Val \subseteq Str /\ Stub \in Word
    /\ GroupCommitEvery \in Nat \ {0}
    /\ BatchSizes \subseteq Int
    /\ Ops \subseteq OpNames /\ Faults \subseteq FaultNames
    /\ CrashPoints \subseteq PcNames \ {"closed"}
    /\ MaxWrites \in Nat /\ MaxCrashes \in Nat /\ MaxCheckpoints \in Nat
    /\ MaxFailures \in Nat

VARIABLES
    \* in memory, lost in a crash
    map_, seq_, group_commit_every_,
    buffer_,      \* Wal::buffer_, the records not yet written
    fd_,          \* is the WAL file open (fd_ >= 0)
    pc,           \* "closed" until open() returns (opened_ is false)
    written,      \* how many records of buffer_ the running flush has written
    erasing,      \* the keys the running del erases once its flush returns
    dumping,      \* the keys the running checkpoint has still to write
    \* on disk
    wal_file,     \* the records of the WAL file
    synced,       \* how many of them were there at the last fsync
    snap_file,    \* the words of the snapshot file
    snap_dirty,   \* was it written since the machine last started
    \* bookkeeping
    timeline,     \* the maps recovery may return to, oldest first (CrashSafeMap)
    writes, crashes, checkpoints, failures

memory == <<map_, seq_, group_commit_every_, buffer_, fd_, written, erasing, dumping>>
disk == <<wal_file, synced, snap_file, snap_dirty>>
counters == <<writes, crashes, checkpoints, failures>>
vars == <<map_, seq_, group_commit_every_, buffer_, fd_, pc, written, erasing, dumping,
          wal_file, synced, snap_file, snap_dirty, timeline,
          writes, crashes, checkpoints, failures>>

\* A KVStore object that has not been opened.
Init ==
    /\ map_ = EmptyMap /\ seq_ = 0 /\ group_commit_every_ = GroupCommitEvery
    /\ buffer_ = <<>> /\ fd_ = FALSE /\ pc = "closed"
    /\ written = 0 /\ erasing = {} /\ dumping = {}
    /\ wal_file = <<>> /\ synced = 0 /\ snap_file = <<>> /\ snap_dirty = FALSE
    /\ timeline = <<EmptyMap>>
    /\ writes = 0 /\ crashes = 0 /\ checkpoints = 0 /\ failures = 0

-----------------------------------------------------------------------------
(* Opening and recovery.                                                    *)

\* Mutant: the open() of version 0.2, which knew no snapshot.
Recovered_WalOnly == ReplayInto(EmptyMap, wal_file)

\* What open() builds from the two files: the snapshot, then the WAL over it.
Recovered == ReplayInto(LoadFromFile(snap_file), wal_file)

\* The timeline after recovering to m: the writes after m are gone.  A map
\* that is not on the timeline at all starts a timeline of its own.
CutTo(tl, m) ==
    LET at == {i \in 1..Len(tl) : tl[i] = m}
    IN  IF at = {} THEN <<m>> ELSE SubSeq(tl, 1, Max(at))

\* Mutant: open() calls truncate_to_last_good before last_good_offset_ is set.
Open_Truncates ==
    /\ pc = "closed"
    /\ map_' = Recovered /\ seq_' = MaxSeq(wal_file)
    /\ fd_' = TRUE /\ pc' = "idle"
    /\ timeline' = CutTo(timeline, Recovered)
    /\ wal_file' = <<>> /\ synced' = 0
    /\ UNCHANGED <<group_commit_every_, buffer_, written, erasing, dumping>>
    /\ UNCHANGED <<snap_file, snap_dirty>> /\ UNCHANGED counters

\* open: nothing is written, in particular a torn tail stays in the file
\* (truncate_to_last_good is never called) and appends go after it.
Open ==
    /\ pc = "closed"
    /\ map_' = Recovered
    /\ seq_' = MaxSeq(wal_file)
    /\ fd_' = TRUE
    /\ pc' = "idle"
    /\ timeline' = CutTo(timeline, Recovered)
    /\ UNCHANGED <<group_commit_every_, buffer_, written, erasing, dumping>>
    /\ UNCHANGED disk /\ UNCHANGED counters

-----------------------------------------------------------------------------
(* Writing.                                                                 *)

\* Mutant: no lower limit.
ClampBatch_None(n) == n

ClampBatch(n) == IF n <= 0 THEN 1 ELSE n

SetGroupCommitEvery(n) ==
    /\ "batch" \in Ops /\ pc = "idle"
    /\ group_commit_every_' = ClampBatch(n)
    /\ UNCHANGED <<map_, seq_, buffer_, fd_, pc, written, erasing, dumping, timeline>>
    /\ UNCHANGED disk /\ UNCHANGED counters

\* Mutant: one write too many per group.
GroupFull_Late == (seq_ + 1) % (group_commit_every_ + 1) = 0

\* Is the write being numbered now the one that closes its group?
GroupFull == (seq_ + 1) % group_commit_every_ = 0

\* Number a write, and buffer its record unless the WAL file is not open.
NextWrite ==
    /\ pc = "idle" /\ writes < MaxWrites
    /\ writes' = writes + 1
    /\ seq_' = seq_ + 1
    /\ UNCHANGED <<group_commit_every_, fd_, written, dumping>>
    /\ UNCHANGED <<crashes, checkpoints, failures>>
    /\ UNCHANGED disk

Log(r) ==
    /\ fd_
    /\ buffer_' = Append(buffer_, r)
    /\ timeline' = Append(timeline, ApplyRecord(map_, r))

\* append_put or append_del failed: the write is dropped, its number used up.
WriteDropped ==
    /\ NextWrite
    /\ ~fd_
    /\ UNCHANGED <<map_, buffer_, pc, erasing, timeline>>

\* Mutant: the put() of an earlier version, which applied what it flushed.
Put_AppliesOnFlush(k, v) ==
    /\ NextWrite
    /\ Log(WriteRecord("Put", seq_ + 1, k, v))
    /\ map_' = IF GroupFull THEN MapPut(map_, k, v) ELSE map_
    /\ pc' = IF GroupFull THEN "flush" ELSE "idle"
    /\ UNCHANGED erasing

\* put: the map changes before the flush, whose result is ignored.
Put(k, v) ==
    /\ NextWrite
    /\ Log(WriteRecord("Put", seq_ + 1, k, v))
    /\ map_' = MapPut(map_, k, v)
    /\ pc' = IF GroupFull THEN "flush" ELSE "idle"
    /\ UNCHANGED erasing

\* del: the map changes after the flush, and only if it succeeds.
Del(k) ==
    /\ "del" \in Ops
    /\ NextWrite
    /\ Log(WriteRecord("Del", seq_ + 1, k, <<>>))
    /\ IF GroupFull THEN pc' = "flush" /\ erasing' = {k} /\ UNCHANGED map_
                    ELSE map_' = MapErase(map_, k) /\ UNCHANGED <<pc, erasing>>

-----------------------------------------------------------------------------
(* Wal::flush, called by put, del and flush_wal.                            *)

\* Mutant: the loop stops one record early.
Unwritten_ShortLoop == written + 1 < Len(buffer_)

\* Has the loop of flush records left to write?
Unwritten == written < Len(buffer_)

NextRecord == buffer_[written + 1]

\* Mutant: the fsync is left out.
SyncedByFlush_NoFsync == synced

\* The records on disk for good once flush has called fsync.
SyncedByFlush == Len(wal_file)

\* Mutant: no buffer_.clear().
BufferAfterFlush_Kept == buffer_

BufferAfterFlush == <<>>

\* flush_wal with something to write.
FlushWal ==
    /\ pc = "idle" /\ fd_ /\ buffer_ # <<>>
    /\ pc' = "flush"
    /\ UNCHANGED memory /\ UNCHANGED disk /\ UNCHANGED counters /\ UNCHANGED timeline

\* flush_wal with an empty buffer returns true at once, without an fsync.
FlushWalEmpty ==
    /\ pc = "idle" /\ fd_ /\ buffer_ = <<>>
    /\ timeline' = <<timeline[Len(timeline)]>>
    /\ UNCHANGED pc /\ UNCHANGED memory /\ UNCHANGED disk /\ UNCHANGED counters

\* flush_wal without an open file returns false.
FlushWalClosed ==
    /\ pc = "idle" /\ ~fd_
    /\ UNCHANGED vars

FlushWrite ==
    /\ pc = "flush" /\ Unwritten
    /\ wal_file' = Append(wal_file, NextRecord)
    /\ written' = written + 1
    /\ UNCHANGED <<map_, seq_, group_commit_every_, buffer_, fd_, pc, erasing, dumping>>
    /\ UNCHANGED <<synced, snap_file, snap_dirty, timeline>> /\ UNCHANGED counters

\* Every record written and fsync returned 0: a durability boundary.
FlushSync ==
    /\ pc = "flush" /\ ~Unwritten
    /\ synced' = SyncedByFlush
    /\ buffer_' = BufferAfterFlush
    /\ map_' = [k \in DOMAIN map_ \ erasing |-> map_[k]]
    /\ timeline' = <<timeline[Len(timeline)]>>
    /\ pc' = "idle" /\ written' = 0 /\ erasing' = {}
    /\ UNCHANGED <<seq_, group_commit_every_, fd_, dumping, wal_file, snap_file, snap_dirty>>
    /\ UNCHANGED counters

\* Mutant: a failed flush drops what it could not write.
BufferAfterFailure_Dropped == <<>>

BufferAfterFailure == buffer_

\* flush returns false and keeps buffer_; a del gives up without erasing.
FlushFails ==
    /\ failures < MaxFailures /\ failures' = failures + 1
    /\ pc' = "idle" /\ written' = 0 /\ erasing' = {}
    /\ buffer_' = BufferAfterFailure
    /\ UNCHANGED <<map_, seq_, group_commit_every_, fd_, dumping>>
    /\ UNCHANGED <<synced, snap_file, snap_dirty, timeline, writes, crashes, checkpoints>>

FlushWriteFails ==
    /\ "write" \in Faults
    /\ pc = "flush" /\ Unwritten
    /\ FlushFails
    /\ \/ UNCHANGED wal_file
       \/ "torn" \in Faults /\ wal_file' = Append(wal_file, TornRecord)

FlushSyncFails ==
    /\ "fsync" \in Faults
    /\ pc = "flush" /\ ~Unwritten
    /\ FlushFails
    /\ UNCHANGED wal_file

-----------------------------------------------------------------------------
(* checkpoint.                                                              *)

\* Opening the snapshot file for output truncates it.
CheckpointBegin ==
    /\ "checkpoint" \in Ops /\ checkpoints < MaxCheckpoints
    /\ pc = "idle"
    /\ pc' = "dump"
    /\ dumping' = DOMAIN map_
    /\ snap_file' = <<>> /\ snap_dirty' = TRUE
    /\ checkpoints' = checkpoints + 1
    /\ UNCHANGED <<map_, seq_, group_commit_every_, buffer_, fd_, written, erasing>>
    /\ UNCHANGED <<wal_file, synced, timeline, writes, crashes, failures>>

\* One line, in the unspecified order of an unordered_map.
CheckpointLine(k) ==
    /\ pc = "dump" /\ k \in dumping
    /\ snap_file' = snap_file \o SnapshotLine(k, map_[k])
    /\ dumping' = dumping \ {k}
    /\ UNCHANGED <<map_, seq_, group_commit_every_, buffer_, fd_, pc, written, erasing>>
    /\ UNCHANGED <<wal_file, synced, snap_dirty, timeline>> /\ UNCHANGED counters

\* What a reader sees of text f once only part of it reached the file.
PartsOf(f) ==
    {SubSeq(f, 1, n) : n \in 0..Len(f)} \cup
    (IF "torn" \in Faults THEN {Append(SubSeq(f, 1, n), Stub) : n \in 0..(Len(f) - 1)} ELSE {})

\* The stream goes bad: nothing more is written, and nobody looks.
CheckpointLineFails(k) ==
    /\ "dump" \in Faults
    /\ pc = "dump" /\ k \in dumping
    /\ \E part \in PartsOf(SnapshotLine(k, map_[k])) : snap_file' = snap_file \o part
    /\ dumping' = {}
    /\ UNCHANGED <<map_, seq_, group_commit_every_, buffer_, fd_, pc, written, erasing>>
    /\ UNCHANGED <<wal_file, synced, snap_dirty, timeline>> /\ UNCHANGED counters

\* The WAL file is removed and created anew; buffer_ is left as it is.
CheckpointRotate ==
    /\ pc = "dump" /\ dumping = {}
    /\ wal_file' = <<>> /\ synced' = 0
    /\ pc' = "idle"
    /\ \/ fd_' = TRUE /\ timeline' = <<timeline[Len(timeline)]>>
       \/ "reopen" \in Faults /\ fd_' = FALSE /\ UNCHANGED timeline
    /\ UNCHANGED <<map_, seq_, group_commit_every_, buffer_, written, erasing, dumping>>
    /\ UNCHANGED <<snap_file, snap_dirty>> /\ UNCHANGED counters

-----------------------------------------------------------------------------
(* Crashes.  Leaving the program without a flush (EXIT, end of input) is a  *)
(* "kill" at "idle": the destructor closes the file and drops buffer_.      *)

\* The WAL contents a crash of this kind can leave: all that was written, or
\* any part of it that holds what was fsynced; and part of one record more.
WalAfter(kind) ==
    LET whole == IF kind = "kill" THEN {Len(wal_file)} ELSE synced..Len(wal_file)
        torn == {n \in whole : n < Len(wal_file) \/ (pc = "flush" /\ Unwritten)}
    IN  {SubSeq(wal_file, 1, n) : n \in whole} \cup
        (IF "torn" \in Faults THEN {Append(SubSeq(wal_file, 1, n), TornRecord) : n \in torn}
                              ELSE {})

\* The snapshot goes through a stream buffer and is never fsynced.
SnapAfter(kind) ==
    IF pc = "dump" \/ (kind = "power" /\ snap_dirty) THEN PartsOf(snap_file) ELSE {snap_file}

Crash(kind) ==
    /\ kind \in Faults /\ pc \in CrashPoints /\ crashes < MaxCrashes
    /\ wal_file' \in WalAfter(kind)
    /\ snap_file' \in SnapAfter(kind)
    /\ synced' = IF kind = "power" THEN Len(wal_file') ELSE synced
    /\ snap_dirty' = (snap_dirty /\ kind # "power")
    /\ map_' = EmptyMap /\ seq_' = 0 /\ group_commit_every_' = GroupCommitEvery
    /\ buffer_' = <<>> /\ fd_' = FALSE /\ pc' = "closed"
    /\ written' = 0 /\ erasing' = {} /\ dumping' = {}
    /\ crashes' = crashes + 1
    /\ UNCHANGED <<timeline, writes, checkpoints, failures>>

Next ==
    \/ Open
    \/ \E n \in BatchSizes : SetGroupCommitEvery(n)
    \/ WriteDropped
    \/ \E k \in Key, v \in Val : Put(k, v)
    \/ \E k \in Key : Del(k)
    \/ FlushWal \/ FlushWalEmpty \/ FlushWalClosed
    \/ FlushWrite \/ FlushSync \/ FlushWriteFails \/ FlushSyncFails
    \/ CheckpointBegin
    \/ \E k \in dumping : CheckpointLine(k)
    \/ \E k \in dumping : CheckpointLineFails(k)
    \/ CheckpointRotate
    \/ \E kind \in {"kill", "power"} : Crash(kind)

Spec == Init /\ [][Next]_vars
-----------------------------------------------------------------------------
(* Properties.                                                              *)

\* Type invariant: the fields of KVStore and Wal, the two files, the ghosts.
TypeOK ==
    /\ IsMap(map_) /\ seq_ \in Nat /\ group_commit_every_ \in Nat \ {0}
    /\ buffer_ \in Seq(WalRecord) /\ fd_ \in BOOLEAN /\ pc \in PcNames
    /\ written \in 0..Len(buffer_) /\ erasing \subseteq Key /\ dumping \subseteq DOMAIN map_
    /\ wal_file \in Seq(WalRecord \cup {TornRecord}) /\ synced \in 0..Len(wal_file)
    /\ snap_file \in Str /\ snap_dirty \in BOOLEAN
    /\ timeline \in Seq({timeline[i] : i \in DOMAIN timeline}) /\ timeline # <<>>
    /\ \A i \in DOMAIN timeline : IsMap(timeline[i])
    /\ writes \in 0..MaxWrites /\ crashes \in 0..MaxCrashes
    /\ checkpoints \in 0..MaxCheckpoints /\ failures \in 0..MaxFailures

\* Prefix consistency (open, flush, put, del): whatever system call a crash
\* cut short, open() rebuilds the map of a point in time no earlier than the
\* last durability boundary, never a mixture of two points.
CrashConsistent ==
    pc = "closed" => \E i \in DOMAIN timeline : timeline[i] = Recovered

\* The live map and the disk agree (put, del, flush, checkpoint): between
\* operations, replaying buffer_ over what open() would rebuild gives map_.
\* In particular the disk alone rebuilds map_ once the buffer is empty, also
\* after flushes that failed half way and were tried again.
Recoverable ==
    pc = "idle" => map_ = ReplayInto(Recovered, buffer_)

\* Numbering (put, del, replay_into): the records on disk and those still to
\* be written carry strictly increasing sequence numbers, none beyond seq_,
\* so that a number names one write across any number of restarts.
SeqIncreasing ==
    LET log == wal_file \o SubSeq(buffer_, written + 1, Len(buffer_))
    IN  /\ \A i, j \in DOMAIN log : i < j => log[i].seq < log[j].seq
        /\ pc # "closed" => \A i \in DOMAIN log : log[i].seq <= seq_

\* Group commit (put, del): between operations fewer than
\* group_commit_every_ writes wait in the buffer, whatever flushes callers
\* asked for and wherever a restart resumed the numbering.
GroupCommitBound ==
    pc = "idle" => Len(buffer_) < group_commit_every_

\* Recovery (load_from_file_unlocked, replay_into) never makes up a key,
\* wherever the snapshot file was cut and the stream or the log broke off.
RecoveredKeys == DOMAIN Recovered \subseteq Key

\* A fsynced record stays in the WAL file (open, flush, crash): only the
\* rotation at the end of a checkpoint removes it.
FsyncedStays ==
    [][ (pc = "dump" /\ pc' = "idle")
        \/ \A k \in 1..synced : k \in DOMAIN wal_file' /\ wal_file'[k] = wal_file[k] ]_vars

\* The engine implements the promise of CrashSafeMap: each system call is a
\* write, a durability boundary, a crash, a recovery or nothing to a caller.
Promise == INSTANCE CrashSafeMap WITH up <- pc # "closed"
ImplementsPromise == Promise!Spec
=============================================================================
