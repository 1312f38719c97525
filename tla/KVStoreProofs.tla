--------------------------- MODULE KVStoreProofs ---------------------------
(***************************************************************************)
(* Theorems about KVStore, for every set of keys and values, every group   *)
(* size, and any number of writes, checkpoints, failures and crashes.      *)
(***************************************************************************)
EXTENDS KVStore, StoreFilesProofs

-----------------------------------------------------------------------------
(* The type invariant in parts, with the maps as members of a set.          *)

MemOK ==
    /\ map_ \in MapSet /\ seq_ \in Nat /\ group_commit_every_ \in Nat \ {0}
    /\ buffer_ \in Seq(WalRecord) /\ pc \in PcNames
    /\ written \in 0..Len(buffer_) /\ erasing \subseteq Key /\ dumping \subseteq DOMAIN map_

DiskOK ==
    /\ wal_file \in Seq(LogRecord) /\ synced \in 0..Len(wal_file)
    /\ snap_file \in Str

FlagsOK == fd_ \in BOOLEAN /\ snap_dirty \in BOOLEAN

TimeOK == timeline \in Seq(MapSet) /\ timeline # <<>>

CountOK ==
    /\ writes \in 0..MaxWrites /\ crashes \in 0..MaxCrashes
    /\ checkpoints \in 0..MaxCheckpoints /\ failures \in 0..MaxFailures

\* The local variables of an operation are reset when it returns.
PcOK ==
    /\ pc # "dump" => dumping = {}
    /\ pc # "flush" => written = 0 /\ erasing = {}
    /\ pc = "closed" => buffer_ = <<>> /\ map_ = EmptyMap

TypeInv == MemOK /\ DiskOK /\ FlagsOK /\ TimeOK /\ CountOK /\ PcOK

\* The inductive form says all that TypeOK says.
LEMMA TypeInvTypeOK == TypeInv => TypeOK
<1> SUFFICES ASSUME TypeInv PROVE TypeOK OBVIOUS
<1> DEFINE S == {timeline[i] : i \in DOMAIN timeline}
<1>1. timeline \in Seq(S)
  BY SeqOfRange DEF TypeInv, TimeOK, Range
<1>2. \A i \in DOMAIN timeline : IsMap(timeline[i])
  <2> timeline \in Seq(MapSet) BY DEF TypeInv, TimeOK
  <2> \A i \in DOMAIN timeline : timeline[i] \in MapSet OBVIOUS
  <2> QED BY MapSetIsMap
<1> HIDE DEF S
<1>3. timeline \in Seq({timeline[i] : i \in DOMAIN timeline}) /\ timeline # <<>>
  BY <1>1 DEF S, TypeInv, TimeOK
<1>4. IsMap(map_)
  BY MapSetIsMap DEF TypeInv, MemOK
<1> QED BY <1>2, <1>3, <1>4 DEF TypeInv, TypeOK, MemOK, DiskOK, FlagsOK, CountOK, LogRecord

\* The map of a new store.
LEMMA EmptyMapType == EmptyMap \in MapSet
<1>1. EmptyMap \in [{} -> Str] BY DEF EmptyMap
<1> QED BY <1>1 DEF MapSet

\* A store that was never opened, over empty files, is well typed.
LEMMA TypeInvInit == Init => TypeInv
<1> SUFFICES ASSUME Init PROVE TypeInv OBVIOUS
<1>0. Len(<<>>) = 0 /\ \A S : <<>> \in Seq(S)
  BY EmptySeq
<1>1. MemOK
  BY <1>0, EmptyMapType, StoreAssumption DEF Init, MemOK, PcNames
<1>2. DiskOK
  BY <1>0 DEF Init, DiskOK, Str
<1>3. TimeOK
  BY EmptyMapType DEF Init, TimeOK
<1>4. CountOK /\ PcOK
  BY StoreAssumption DEF Init, CountOK, PcOK
<1>5. FlagsOK
  BY Zenon DEF Init, FlagsOK
<1> QED BY <1>1, <1>2, <1>3, <1>4, <1>5 DEF TypeInv

\* What open() rebuilds is a map, whatever the files hold.
LEMMA RecoveredType == ASSUME DiskOK PROVE Recovered \in MapSet
  BY LoadFromFileType, ReplayIntoType DEF DiskOK, Recovered

\* The records and strings of a caller.
LEMMA WriteRecordType ==
    ASSUME NEW k \in Key, NEW v \in Str, NEW s \in Nat, NEW t \in {"Put", "Del"}
    PROVE  WriteRecord(t, s, k, v) \in WalRecord
  BY StoreAssumption DEF WriteRecord, WalRecord

\* Recovery leaves a timeline that ends in the map recovered to.
LEMMA CutToType ==
    ASSUME NEW tl \in Seq(MapSet), tl # <<>>, NEW m \in MapSet
    PROVE  /\ CutTo(tl, m) \in Seq(MapSet) /\ CutTo(tl, m) # <<>>
           /\ CutTo(tl, m)[Len(CutTo(tl, m))] = m
           /\ (\E i \in DOMAIN tl : tl[i] = m)
                => \E i \in 1..Len(tl) : CutTo(tl, m) = SubSeq(tl, 1, i)
<1> DEFINE at == {i \in 1..Len(tl) : tl[i] = m}
<1>1. CASE at = {}
  BY <1>1 DEF CutTo
<1>2. CASE at # {}
  <2>1. at \in SUBSET Nat /\ Len(tl) \in Nat /\ \A y \in at : y <= Len(tl)
    OBVIOUS
  <2>2. Max(at) \in at
    <3> HIDE DEF at
    <3> QED BY <1>2, <2>1, MaxOfBounded
  <2>3. PICK n \in 1..Len(tl) : n = Max(at) /\ tl[n] = m
    BY <2>2
  <2>4. CutTo(tl, m) = SubSeq(tl, 1, n)
    BY <1>2, <2>3 DEF CutTo
  <2>5. \A i \in 1..n : tl[i] \in MapSet
    BY ElementOfSeq
  <2>6. SubSeq(tl, 1, n) \in Seq(MapSet) /\ Len(SubSeq(tl, 1, n)) = n /\ SubSeq(tl, 1, n)[n] = tl[n]
    BY <2>5, SubSeqProperties
  <2>7. SubSeq(tl, 1, n) # <<>>
    BY <2>6
  <2> HIDE DEF at
  <2> QED BY <2>3, <2>4, <2>6, <2>7
<1> QED BY <1>1, <1>2

\* What is left of a text, or of a log, is a text, or a log.
LEMMA PartsOfType == ASSUME NEW f \in Str PROVE \A g \in PartsOf(f) : g \in Str
<1> TAKE g \in PartsOf(f)
<1>1. \A n \in 0..Len(f) : SubSeq(f, 1, n) \in Seq(Word)
  BY DEF Str
<1>2. \A h \in Seq(Word) : Append(h, Stub) \in Seq(Word)
  BY StoreAssumption
<1>3. \A n \in 0..(Len(f) - 1) : n \in 0..Len(f)
  BY DEF Str
<1> QED BY <1>1, <1>2, <1>3 DEF PartsOf, Str

\* A crash leaves a WAL file that holds at least the synced records.
LEMMA WalAfterType ==
    ASSUME DiskOK, NEW kind \in {"kill", "power"}
    PROVE  \A g \in WalAfter(kind) : g \in Seq(LogRecord) /\ synced <= Len(g)
<1> DEFINE whole == IF kind = "kill" THEN {Len(wal_file)} ELSE synced..Len(wal_file)
           torn == {n \in whole : n < Len(wal_file) \/ (pc = "flush" /\ Unwritten)}
<1>1. \A n \in whole : n \in 0..Len(wal_file) /\ n >= synced
  BY DEF DiskOK
<1>2. \A n \in whole : /\ SubSeq(wal_file, 1, n) \in Seq(LogRecord)
                       /\ Len(SubSeq(wal_file, 1, n)) = n
  BY <1>1 DEF DiskOK
<1>3. \A h \in Seq(LogRecord) : /\ Append(h, TornRecord) \in Seq(LogRecord)
                                /\ Len(Append(h, TornRecord)) = Len(h) + 1
  BY DEF LogRecord
<1>4. synced \in Nat
  BY DEF DiskOK
<1>5. WalAfter(kind) = {SubSeq(wal_file, 1, n) : n \in whole} \cup
        (IF "torn" \in Faults THEN {Append(SubSeq(wal_file, 1, n), TornRecord) : n \in torn} ELSE {})
  BY DEF WalAfter
<1>6. torn \subseteq whole
  OBVIOUS
<1> HIDE DEF whole, torn
<1> TAKE g \in WalAfter(kind)
<1>7. CASE \E n \in whole : g = SubSeq(wal_file, 1, n)
  BY <1>1, <1>2, <1>7
<1>8. CASE \E n \in torn : g = Append(SubSeq(wal_file, 1, n), TornRecord)
  <2>1. PICK n \in whole : g = Append(SubSeq(wal_file, 1, n), TornRecord) BY <1>6, <1>8
  <2>2. g \in Seq(LogRecord) /\ Len(g) = n + 1 BY <1>2, <1>3, <2>1
  <2> QED BY <1>1, <1>4, <2>2
<1> QED BY <1>5, <1>7, <1>8

\* A crash leaves words in the snapshot file.
LEMMA SnapAfterType ==
    ASSUME DiskOK, NEW kind PROVE \A g \in SnapAfter(kind) : g \in Str
  BY PartsOfType DEF DiskOK, SnapAfter

\* The last element of a timeline is a map, and a timeline by itself.
LEMMA LastType ==
    ASSUME TimeOK
    PROVE  timeline[Len(timeline)] \in MapSet /\ <<timeline[Len(timeline)]>> \in Seq(MapSet)
<1>1. Len(timeline) \in DOMAIN timeline BY DEF TimeOK
<1>2. timeline[Len(timeline)] \in MapSet BY <1>1 DEF TimeOK
<1> QED BY <1>2

-----------------------------------------------------------------------------
(* Each action keeps the types.                                             *)

\* open: what recovery rebuilds is a map, and its number a natural.
LEMMA OpenType == ASSUME TypeInv, Open PROVE TypeInv'
<1> USE DEF TypeInv
<1>1. /\ map_' = Recovered /\ seq_' = MaxSeq(wal_file) /\ fd_' = TRUE /\ pc' = "idle" /\ pc = "closed"
      /\ timeline' = CutTo(timeline, Recovered)
      /\ UNCHANGED <<group_commit_every_, buffer_, written, erasing, dumping>>
      /\ UNCHANGED disk /\ UNCHANGED counters
  BY DEF Open
<1>2. Recovered \in MapSet /\ MaxSeq(wal_file) \in Nat
  BY RecoveredType, MaxSeqType DEF DiskOK
<1>3. MemOK'
  BY <1>1, <1>2 DEF MemOK, PcNames, PcOK
<1>4. DiskOK' /\ CountOK' /\ PcOK'
  BY <1>1 DEF DiskOK, CountOK, PcOK, disk, counters
<1>5. TimeOK'
  BY <1>1, <1>2, CutToType DEF TimeOK
<1>6. FlagsOK'
  BY <1>1, Zenon DEF FlagsOK, disk
<1> QED BY <1>3, <1>4, <1>5, <1>6

\* set_group_commit_every: the clamp keeps the modulus of put and del positive.
LEMMA SetGroupCommitEveryType ==
    ASSUME TypeInv, NEW n \in BatchSizes, SetGroupCommitEvery(n) PROVE TypeInv'
<1> USE DEF TypeInv
<1>1. ClampBatch(n) \in Nat \ {0}
  BY StoreAssumption DEF ClampBatch
<1>2. MemOK'
  BY <1>1 DEF SetGroupCommitEvery, MemOK
<1>3. DiskOK' /\ CountOK' /\ PcOK' /\ TimeOK'
  BY DEF SetGroupCommitEvery, DiskOK, CountOK, PcOK, TimeOK, disk, counters
<1>4. FlagsOK'
  BY Zenon DEF SetGroupCommitEvery, FlagsOK, disk
<1> QED BY <1>2, <1>3, <1>4

\* The part that put, del and a dropped write share.
LEMMA NextWriteType ==
    ASSUME TypeInv, NextWrite, UNCHANGED fd_ PROVE DiskOK' /\ CountOK' /\ FlagsOK'
<1> USE DEF TypeInv
<1>1. DiskOK' /\ CountOK'
  BY StoreAssumption DEF NextWrite, DiskOK, CountOK, disk
<1>2. FlagsOK'
  BY Zenon DEF NextWrite, FlagsOK, disk
<1> QED BY <1>1, <1>2

\* put or del without an open WAL file.
LEMMA WriteDroppedType == ASSUME TypeInv, WriteDropped PROVE TypeInv'
<1> USE DEF TypeInv
<1>1. DiskOK' /\ CountOK' /\ FlagsOK'
  BY NextWriteType DEF WriteDropped, NextWrite
<1>2. MemOK' /\ PcOK' /\ TimeOK'
  BY DEF WriteDropped, NextWrite, MemOK, PcOK, TimeOK
<1> QED BY <1>1, <1>2

\* Buffering a record keeps the buffer and the timeline what they are.
LEMMA LogType ==
    ASSUME TypeInv, NextWrite, NEW r \in WalRecord, Log(r)
    PROVE  /\ buffer_' \in Seq(WalRecord) /\ Len(buffer_') = Len(buffer_) + 1 /\ TimeOK'
           /\ seq_' \in Nat /\ written' \in 0..Len(buffer_') /\ group_commit_every_' \in Nat \ {0}
           /\ DiskOK' /\ CountOK' /\ FlagsOK'
<1> USE DEF TypeInv
<1>1. buffer_' \in Seq(WalRecord) /\ Len(buffer_') = Len(buffer_) + 1
  BY DEF Log, MemOK
<1>2. TimeOK'
  BY ApplyRecordType DEF Log, MemOK, TimeOK
<1>3. seq_' \in Nat /\ written' \in 0..Len(buffer_') /\ group_commit_every_' \in Nat \ {0}
  BY <1>1 DEF NextWrite, MemOK
<1>4. DiskOK' /\ CountOK' /\ FlagsOK'
  BY NextWriteType DEF NextWrite
<1> QED BY <1>1, <1>2, <1>3, <1>4

\* put.
LEMMA PutType == ASSUME TypeInv, NEW k \in Key, NEW v \in Val, Put(k, v) PROVE TypeInv'
<1> USE DEF TypeInv
<1> DEFINE r == WriteRecord("Put", seq_ + 1, k, v)
<1>1. r \in WalRecord /\ k \in Str /\ v \in Str
  BY WriteRecordType, StoreAssumption DEF MemOK
<1>2. /\ NextWrite /\ Log(r) /\ map_' = MapPut(map_, k, v)
      /\ pc' = IF GroupFull THEN "flush" ELSE "idle"
      /\ UNCHANGED erasing
  BY DEF Put
<1> HIDE DEF r
<1>3. map_' \in MapSet /\ DOMAIN map_ \subseteq DOMAIN map_'
  BY <1>1, <1>2, MapPutType DEF MemOK, MapPut
<1>4. /\ buffer_' \in Seq(WalRecord) /\ TimeOK'
      /\ seq_' \in Nat /\ written' \in 0..Len(buffer_') /\ group_commit_every_' \in Nat \ {0}
      /\ DiskOK' /\ CountOK' /\ FlagsOK'
  BY <1>1, <1>2, LogType
<1>5. MemOK' /\ PcOK'
  BY <1>2, <1>3, <1>4 DEF MemOK, PcOK, PcNames, NextWrite
<1> QED BY <1>4, <1>5

\* del.
LEMMA DelType == ASSUME TypeInv, NEW k \in Key, Del(k) PROVE TypeInv'
<1> USE DEF TypeInv
<1> DEFINE r == WriteRecord("Del", seq_ + 1, k, <<>>)
<1>1. r \in WalRecord
  <2>1. <<>> \in Str /\ k \in Str /\ seq_ + 1 \in Nat
    BY EmptySeq, StoreAssumption DEF MemOK, Str
  <2> QED BY <2>1, WriteRecordType DEF MemOK
<1>2. /\ NextWrite /\ Log(r)
      /\ IF GroupFull THEN pc' = "flush" /\ erasing' = {k} /\ UNCHANGED map_
                      ELSE map_' = MapErase(map_, k) /\ UNCHANGED <<pc, erasing>>
  BY DEF Del
<1> HIDE DEF r
<1>3. map_' \in MapSet
  BY <1>2, RestrictType DEF MemOK, MapErase
<1>4. /\ buffer_' \in Seq(WalRecord) /\ TimeOK'
      /\ seq_' \in Nat /\ written' \in 0..Len(buffer_') /\ group_commit_every_' \in Nat \ {0}
      /\ DiskOK' /\ CountOK' /\ FlagsOK'
  BY <1>1, <1>2, LogType
<1>5. MemOK' /\ PcOK'
  BY <1>2, <1>3, <1>4 DEF MemOK, PcOK, PcNames, NextWrite
<1> QED BY <1>4, <1>5

\* flush_wal, its three ways in.
LEMMA FlushWalType == ASSUME TypeInv, FlushWal \/ FlushWalEmpty \/ FlushWalClosed PROVE TypeInv'
<1> USE DEF TypeInv
<1>1. CASE FlushWal
  <2>1. MemOK' /\ DiskOK' /\ CountOK' /\ PcOK' /\ TimeOK'
    BY <1>1 DEF FlushWal, MemOK, DiskOK, CountOK, PcOK, TimeOK, PcNames, memory, disk, counters
  <2>2. FlagsOK'
    BY <1>1, Zenon DEF FlushWal, FlagsOK, memory, disk
  <2> QED BY <2>1, <2>2
<1>2. CASE FlushWalEmpty
  <2>1. MemOK' /\ DiskOK' /\ CountOK' /\ PcOK'
    BY <1>2 DEF FlushWalEmpty, MemOK, DiskOK, CountOK, PcOK, memory, disk, counters
  <2>2. FlagsOK'
    BY <1>2, Zenon DEF FlushWalEmpty, FlagsOK, memory, disk
  <2>3. TimeOK'
    BY <1>2, LastType DEF FlushWalEmpty, TimeOK
  <2> QED BY <2>1, <2>2, <2>3
<1>3. CASE FlushWalClosed
  <2>1. MemOK' /\ DiskOK' /\ CountOK' /\ PcOK' /\ TimeOK'
    BY <1>3 DEF FlushWalClosed, vars, MemOK, DiskOK, CountOK, PcOK, TimeOK
  <2>2. FlagsOK'
    BY <1>3, Zenon DEF FlushWalClosed, vars, FlagsOK
  <2> QED BY <2>1, <2>2
<1> QED BY <1>1, <1>2, <1>3

\* One record written: the count stays within the buffer.
LEMMA FlushWriteType == ASSUME TypeInv, FlushWrite PROVE TypeInv'
<1> USE DEF TypeInv
<1>1. written + 1 \in 1..Len(buffer_) /\ NextRecord \in LogRecord
  BY DEF FlushWrite, Unwritten, NextRecord, MemOK, LogRecord
<1>2. DiskOK'
  <2>1. wal_file' = Append(wal_file, NextRecord) /\ UNCHANGED <<synced, snap_file>>
    BY DEF FlushWrite
  <2>2. wal_file' \in Seq(LogRecord) /\ Len(wal_file') = Len(wal_file) + 1
    BY <1>1, <2>1 DEF DiskOK
  <2> QED BY <2>1, <2>2 DEF DiskOK
<1>3. MemOK' /\ CountOK' /\ PcOK' /\ TimeOK'
  BY <1>1 DEF FlushWrite, MemOK, CountOK, PcOK, TimeOK, counters
<1>4. FlagsOK'
  BY Zenon DEF FlushWrite, FlagsOK
<1> QED BY <1>2, <1>3, <1>4

\* The fsync that ends a flush.
LEMMA FlushSyncType == ASSUME TypeInv, FlushSync PROVE TypeInv'
<1> USE DEF TypeInv
<1>1. map_' \in MapSet
  BY RestrictType DEF FlushSync, MemOK
<1>2. MemOK' /\ CountOK' /\ PcOK' /\ DiskOK'
  BY <1>1, EmptySeq DEF FlushSync, MemOK, CountOK, PcOK, DiskOK, counters, PcNames, BufferAfterFlush, SyncedByFlush
<1>3. TimeOK'
  BY LastType DEF FlushSync, TimeOK
<1>4. FlagsOK'
  BY Zenon DEF FlushSync, FlagsOK
<1> QED BY <1>2, <1>3, <1>4

\* A flush that gives up, at a write or at the fsync.
LEMMA FlushFailsType == ASSUME TypeInv, FlushWriteFails \/ FlushSyncFails PROVE TypeInv'
<1> USE DEF TypeInv
<1>1. FlushFails /\ pc = "flush" /\ (UNCHANGED wal_file \/ wal_file' = Append(wal_file, TornRecord))
  BY DEF FlushWriteFails, FlushSyncFails
<1>2. wal_file' \in Seq(LogRecord) /\ Len(wal_file') >= Len(wal_file)
  BY <1>1 DEF DiskOK, LogRecord
<1>3. DiskOK'
  BY <1>1, <1>2 DEF FlushFails, DiskOK
<1>4. MemOK' /\ CountOK' /\ PcOK' /\ TimeOK'
  BY <1>1, StoreAssumption DEF FlushFails, MemOK, CountOK, PcOK, TimeOK, PcNames, BufferAfterFailure
<1>5. FlagsOK'
  BY <1>1, Zenon DEF FlushFails, FlagsOK
<1> QED BY <1>3, <1>4, <1>5

\* checkpoint truncates the snapshot and lists the keys to write.
LEMMA CheckpointBeginType == ASSUME TypeInv, CheckpointBegin PROVE TypeInv'
<1> USE DEF TypeInv
<1>1. MemOK' /\ CountOK' /\ PcOK' /\ TimeOK' /\ DiskOK'
  BY StoreAssumption, EmptySeq
  DEF CheckpointBegin, MemOK, CountOK, PcOK, TimeOK, DiskOK, PcNames, Str
<1>2. FlagsOK'
  BY Zenon DEF CheckpointBegin, FlagsOK
<1> QED BY <1>1, <1>2

\* One line of the snapshot, whole or in part.
LEMMA CheckpointLineType ==
    ASSUME TypeInv, NEW k \in dumping, CheckpointLine(k) \/ CheckpointLineFails(k) PROVE TypeInv'
<1> USE DEF TypeInv
<1> DEFINE line == SnapshotLine(k, map_[k])
<1>1. line \in Str
  <2>1. k \in Str /\ map_[k] \in Str
    BY DEF MemOK, MapSet
  <2> QED BY <2>1 DEF SnapshotLine, Str
<1> HIDE DEF line
<1>2. \A g \in Str : snap_file \o g \in Str
  BY DEF DiskOK, Str
<1>3. /\ \E g \in Str : snap_file' = snap_file \o g
      /\ dumping' \in {dumping \ {k}, {}}
      /\ UNCHANGED <<map_, seq_, group_commit_every_, buffer_, fd_, pc, written, erasing>>
      /\ UNCHANGED <<wal_file, synced, snap_dirty, timeline>> /\ UNCHANGED counters
  BY <1>1, PartsOfType DEF CheckpointLine, CheckpointLineFails, line
<1>4. MemOK' /\ CountOK' /\ PcOK' /\ TimeOK' /\ DiskOK'
  BY <1>2, <1>3 DEF MemOK, CountOK, PcOK, TimeOK, DiskOK, counters
<1>5. FlagsOK'
  BY <1>3, Zenon DEF FlagsOK
<1> QED BY <1>4, <1>5

\* checkpoint rotates the WAL.
LEMMA CheckpointRotateType == ASSUME TypeInv, CheckpointRotate PROVE TypeInv'
<1> USE DEF TypeInv
<1>1. MemOK' /\ CountOK' /\ PcOK' /\ DiskOK'
  BY EmptySeq DEF CheckpointRotate, MemOK, CountOK, PcOK, DiskOK, PcNames, counters
<1>2. TimeOK'
  <2>1. timeline' = <<timeline[Len(timeline)]>> \/ timeline' = timeline
    BY Zenon DEF CheckpointRotate
  <2>2. <<timeline[Len(timeline)]>> \in Seq(MapSet) /\ <<timeline[Len(timeline)]>> # <<>>
    BY LastType
  <2> QED BY <2>1, <2>2, Zenon DEF TimeOK
<1>3. FlagsOK'
  BY Zenon DEF CheckpointRotate, FlagsOK
<1> QED BY <1>1, <1>2, <1>3

\* A crash, of either kind, at any point.
LEMMA CrashType == ASSUME TypeInv, NEW kind \in {"kill", "power"}, Crash(kind) PROVE TypeInv'
<1> USE DEF TypeInv
<1>1. wal_file' \in Seq(LogRecord) /\ synced <= Len(wal_file') /\ snap_file' \in Str
  BY WalAfterType, SnapAfterType DEF Crash
<1>2. synced' = IF kind = "power" THEN Len(wal_file') ELSE synced
  BY DEF Crash
<1>3. DiskOK'
  BY <1>1, <1>2 DEF DiskOK
<1>4. MemOK' /\ CountOK' /\ PcOK' /\ TimeOK'
  BY EmptyMapType, EmptySeq, StoreAssumption
  DEF Crash, MemOK, CountOK, PcOK, TimeOK, PcNames
<1>5. FlagsOK'
  <2>1. fd_' = FALSE /\ snap_dirty' = (snap_dirty /\ kind # "power")
    BY DEF Crash
  <2>2. fd_' \in BOOLEAN
    BY <2>1, Zenon
  <2>3. snap_dirty' \in BOOLEAN
    BY <2>1, Zenon DEF FlagsOK
  <2> QED BY <2>2, <2>3 DEF FlagsOK
<1> QED BY <1>3, <1>4, <1>5

\* Every step keeps the types.
LEMMA TypeInvNext == TypeInv /\ [Next]_vars => TypeInv'
<1> SUFFICES ASSUME TypeInv, [Next]_vars PROVE TypeInv' OBVIOUS
<1>1. CASE UNCHANGED vars
  BY <1>1, FlushWalType, Zenon DEF vars, TypeInv, MemOK, DiskOK, FlagsOK, TimeOK, CountOK, PcOK
<1>2. CASE Next
  BY <1>2, OpenType, SetGroupCommitEveryType, WriteDroppedType, PutType, DelType, FlushWalType,
     FlushWriteType, FlushSyncType, FlushFailsType, CheckpointBeginType, CheckpointLineType,
     CheckpointRotateType, CrashType
  DEF Next
<1> QED BY <1>1, <1>2

\* Whatever the files come to hold, through torn records, cut snapshots and
\* failed system calls, open() rebuilds a map of strings; group_commit_every_
\* stays positive and the running flush never counts past its buffer.
THEOREM StoreTypes == Spec => []TypeOK
<1> QED BY TypeInvInit, TypeInvNext, TypeInvTypeOK, PTL DEF Spec
=============================================================================
