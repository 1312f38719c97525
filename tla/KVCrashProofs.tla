---------------------------- MODULE KVCrashProofs ----------------------------
(***************************************************************************)
(* What survives a crash of the store, for every set of keys and values,   *)
(* every group size and any number of writes: the fsynced records, the     *)
(* numbering of the log, the keys recovery returns, and the map itself.    *)
(***************************************************************************)
EXTENDS KVStoreProofs

-----------------------------------------------------------------------------
(* Fsynced records.                                                         *)

\* A log that holds what was fsynced of the WAL file.
KeepsSynced(g) == \A k \in 1..synced : k \in DOMAIN g /\ g[k] = wal_file[k]

\* What a crash leaves of the WAL file: a prefix that holds the fsynced
\* records, all of the file if only the process died, and maybe a torn record.
LEMMA WalAfterShape ==
    ASSUME DiskOK, NEW kind \in {"kill", "power"}, NEW g \in WalAfter(kind)
    PROVE  \E n \in synced..Len(wal_file) :
             /\ kind = "kill" => n = Len(wal_file)
             /\ \/ g = SubSeq(wal_file, 1, n)
                \/ "torn" \in Faults /\ g = Append(SubSeq(wal_file, 1, n), TornRecord)
<1> DEFINE whole == IF kind = "kill" THEN {Len(wal_file)} ELSE synced..Len(wal_file)
           torn == {n \in whole : n < Len(wal_file) \/ (pc = "flush" /\ Unwritten)}
<1>1. \A n \in whole : n \in synced..Len(wal_file) /\ (kind = "kill" => n = Len(wal_file))
  BY DEF DiskOK
<1>2. g \in {SubSeq(wal_file, 1, n) : n \in whole} \cup
        (IF "torn" \in Faults THEN {Append(SubSeq(wal_file, 1, n), TornRecord) : n \in torn} ELSE {})
  BY DEF WalAfter
<1>3. torn \subseteq whole
  OBVIOUS
<1> HIDE DEF whole, torn
<1> QED BY <1>1, <1>2, <1>3

\* A crash keeps the fsynced records, whatever part of the rest it keeps.
LEMMA WalAfterKeepsSynced ==
    ASSUME DiskOK, NEW kind \in {"kill", "power"}, NEW g \in WalAfter(kind)
    PROVE  KeepsSynced(g)
<1>1. PICK n \in synced..Len(wal_file) :
        g = SubSeq(wal_file, 1, n) \/ g = Append(SubSeq(wal_file, 1, n), TornRecord)
  BY WalAfterShape
<1> DEFINE s == SubSeq(wal_file, 1, n)
<1>2. s \in Seq(LogRecord) /\ Len(s) = n /\ \A k \in 1..n : s[k] = wal_file[k]
  BY DEF DiskOK
<1> HIDE DEF s
<1>3. \A k \in 1..n : k \in DOMAIN s /\ k \in DOMAIN Append(s, TornRecord) /\ Append(s, TornRecord)[k] = s[k]
  BY <1>2
<1>4. \A k \in 1..synced : k \in 1..n
  BY DEF DiskOK
<1> QED BY <1>1, <1>2, <1>3, <1>4 DEF KeepsSynced, s

\* One step: only the rotation of a checkpoint gives up fsynced records.
LEMMA FsyncedStep ==
    ASSUME TypeInv, Next PROVE (pc = "dump" /\ pc' = "idle") \/ KeepsSynced(wal_file')
<1> USE DEF TypeInv
<1>1. \A g \in Seq(LogRecord), r \in LogRecord :
        \A k \in 1..Len(g) : k \in DOMAIN Append(g, r) /\ Append(g, r)[k] = g[k]
  OBVIOUS
<1>2. wal_file \in Seq(LogRecord) /\ \A k \in 1..synced : k \in 1..Len(wal_file) /\ k \in DOMAIN wal_file
  BY DEF DiskOK
<1>3. ASSUME wal_file' = wal_file \/ \E r \in LogRecord : wal_file' = Append(wal_file, r)
      PROVE  KeepsSynced(wal_file')
  BY <1>1, <1>2, <1>3 DEF KeepsSynced
<1>4. CASE FlushWrite
  <2>1. NextRecord \in LogRecord
    BY <1>4 DEF FlushWrite, Unwritten, NextRecord, MemOK, LogRecord
  <2> QED BY <1>3, <1>4, <2>1 DEF FlushWrite
<1>5. CASE FlushWriteFails \/ FlushSyncFails
  <2>1. TornRecord \in LogRecord BY DEF LogRecord
  <2> QED BY <1>3, <1>5, <2>1 DEF FlushWriteFails, FlushSyncFails
<1>6. CASE \E kind \in {"kill", "power"} : Crash(kind)
  BY <1>6, WalAfterKeepsSynced DEF Crash
<1>7. CASE CheckpointRotate
  BY <1>7 DEF CheckpointRotate
<1>8. CASE ~FlushWrite /\ ~FlushWriteFails /\ ~FlushSyncFails /\ ~CheckpointRotate
             /\ ~\E kind \in {"kill", "power"} : Crash(kind)
  <2>1. wal_file' = wal_file
    BY <1>8, Zenon DEF Next, Open, SetGroupCommitEvery, WriteDropped, Put, Del, NextWrite, FlushWal,
       FlushWalEmpty, FlushWalClosed, FlushSync, CheckpointBegin, CheckpointLine,
       CheckpointLineFails, disk, vars
  <2> QED BY <1>3, <2>1
<1> QED BY <1>4, <1>5, <1>6, <1>7, <1>8

\* A record that was fsynced once stays in the WAL file through every crash,
\* torn write and failed system call, until a checkpoint rotates the file.
THEOREM FsyncedSurvives == Spec => FsyncedStays
<1>1. TypeInv /\ [Next]_vars =>
        [ (pc = "dump" /\ pc' = "idle")
          \/ \A k \in 1..synced : k \in DOMAIN wal_file' /\ wal_file'[k] = wal_file[k] ]_vars
  BY FsyncedStep DEF KeepsSynced
<1> QED BY <1>1, TypeInvInit, TypeInvNext, PTL DEF Spec, FsyncedStays
-----------------------------------------------------------------------------
(* The log: the records on disk, then those the buffer still has to write.  *)

LogOf(w, b, n) == w \o SubSeq(b, n + 1, Len(b))
TheLog == LogOf(wal_file, buffer_, written)

\* No record of the WAL file is torn.
WalGood == wal_file \in Seq(WalRecord)

\* l holds the records of w, then those of b after its first n.
IsLog(S, l, w, b, n) ==
    /\ l \in Seq(S) /\ Len(l) = Len(w) + (Len(b) - n)
    /\ \A i \in 1..Len(w) : l[i] = w[i]
    /\ \A i \in (Len(w) + 1)..(Len(w) + (Len(b) - n)) : l[i] = b[n + (i - Len(w))]

\* The records of a log of this shape.
LEMMA LogShape ==
    ASSUME NEW S, NEW w \in Seq(S), NEW b \in Seq(S), NEW n \in 0..Len(b)
    PROVE  IsLog(S, LogOf(w, b, n), w, b, n)
<1> DEFINE t == SubSeq(b, n + 1, Len(b))
<1>1. \A i \in (n + 1)..Len(b) : b[i] \in S
  BY ElementOfSeq
<1>2. t \in Seq(S) /\ Len(t) = Len(b) - n /\ \A i \in 1..(Len(b) - n) : t[i] = b[n + i]
  BY <1>1, SubSeqProperties
<1> HIDE DEF t
<1>3. /\ w \o t \in Seq(S) /\ Len(w \o t) = Len(w) + Len(t)
      /\ \A i \in 1..(Len(w) + Len(t)) : (w \o t)[i] = IF i <= Len(w) THEN w[i] ELSE t[i - Len(w)]
  BY <1>2, ConcatProperties
<1> DEFINE l == w \o t
<1> HIDE DEF l
<1>4. /\ l \in Seq(S) /\ Len(l) = Len(w) + (Len(b) - n)
      /\ \A i \in 1..Len(l) : l[i] = IF i <= Len(w) THEN w[i] ELSE t[i - Len(w)]
  BY <1>2, <1>3 DEF l
<1>5. ASSUME NEW i \in (Len(w) + 1)..Len(l) PROVE l[i] = b[n + (i - Len(w))]
  <2>1. i - Len(w) \in 1..(Len(b) - n) /\ i \in 1..Len(l) /\ ~(i <= Len(w))
    BY <1>4
  <2> QED BY <1>2, <1>4, <2>1
<1>6. \A i \in 1..Len(w) : l[i] = w[i]
  BY <1>4, SMTT(40)
<1> QED BY <1>4, <1>5, <1>6 DEF l, t, LogOf, IsLog

\* TheLog, in the states of the store.
LEMMA TheLogShape ==
    ASSUME TypeInv, WalGood
    PROVE  IsLog(WalRecord, TheLog, wal_file, buffer_, written)
  BY LogShape DEF TypeInv, MemOK, WalGood, TheLog

\* One more record in the buffer is one more record in the log.
LEMMA LogAppend ==
    ASSUME NEW S, NEW w \in Seq(S), NEW b \in Seq(S), NEW n \in 0..Len(b), NEW r \in S
    PROVE  LogOf(w, Append(b, r), n) = Append(LogOf(w, b, n), r)
<1> DEFINE c == Append(b, r)
           l == LogOf(w, b, n)
           m == Append(l, r)
           k == LogOf(w, c, n)
<1>1. PICK p \in Nat, q \in Nat : p = Len(w) /\ q = Len(b) /\ n \in 0..q
  OBVIOUS
<1>2. c \in Seq(S) /\ Len(c) = q + 1 /\ c[q + 1] = r /\ \A i \in 1..q : c[i] = b[i]
  BY <1>1
<1> HIDE DEF c
<1>3. /\ l \in Seq(S) /\ Len(l) = p + (q - n) /\ \A i \in 1..p : l[i] = w[i]
      /\ \A i \in (p + 1)..(p + (q - n)) : l[i] = b[n + (i - p)]
  <2>1. IsLog(S, l, w, b, n) BY LogShape
  <2> HIDE DEF l
  <2> QED BY <1>1, <2>1 DEF IsLog
<1>4. /\ k \in Seq(S) /\ Len(k) = p + (q + 1 - n) /\ \A i \in 1..p : k[i] = w[i]
      /\ \A i \in (p + 1)..(p + (q + 1 - n)) : k[i] = c[n + (i - p)]
  <2>1. n \in 0..Len(c) BY <1>1, <1>2
  <2>2. IsLog(S, k, w, c, n) BY <1>2, <2>1, LogShape
  <2> HIDE DEF k
  <2> QED BY <1>1, <1>2, <2>2, SMTT(40) DEF IsLog
<1> HIDE DEF l, k
<1>5. /\ m \in Seq(S) /\ Len(m) = p + (q - n) + 1 /\ m[p + (q - n) + 1] = r
      /\ \A i \in 1..(p + (q - n)) : m[i] = l[i]
  BY <1>3
<1> HIDE DEF m
<1>6. ASSUME NEW i \in 1..(p + (q - n) + 1) PROVE k[i] = m[i]
  <2>1. CASE i <= p
    <3>1. i \in 1..p /\ i \in 1..(p + (q - n)) BY <1>1, <2>1
    <3> QED BY <1>3, <1>4, <1>5, <3>1
  <2>2. CASE i > p /\ i <= p + (q - n)
    <3>1. /\ i \in (p + 1)..(p + (q - n)) /\ i \in (p + 1)..(p + (q + 1 - n))
          /\ n + (i - p) \in 1..q /\ i \in 1..(p + (q - n))
      BY <1>1, <2>2
    <3> QED BY <1>2, <1>3, <1>4, <1>5, <3>1
  <2>3. CASE i = p + (q - n) + 1
    <3>1. i \in (p + 1)..(p + (q + 1 - n)) /\ n + (i - p) = q + 1
      BY <1>1, <2>3
    <3>2. k[i] = c[n + (i - p)]
      BY <1>4, <3>1
    <3> QED BY <1>2, <1>5, <2>3, <3>1, <3>2
  <2> QED BY <1>1, <2>1, <2>2, <2>3
<1>7. Len(k) = Len(m) /\ Len(k) = p + (q - n) + 1
  BY <1>1, <1>4, <1>5
<1>8. k = m
  BY <1>4, <1>5, <1>6, <1>7, SeqEqual
<1> QED BY <1>8 DEF k, m, l, c

\* A record that moves from the buffer to the file keeps its place in the log.
LEMMA LogMove ==
    ASSUME NEW S, NEW w \in Seq(S), NEW b \in Seq(S), NEW n \in 0..(Len(b) - 1)
    PROVE  LogOf(Append(w, b[n + 1]), b, n + 1) = LogOf(w, b, n)
<1> DEFINE v == Append(w, b[n + 1])
           l == LogOf(w, b, n)
           k == LogOf(v, b, n + 1)
<1>1. PICK p \in Nat, q \in Nat : p = Len(w) /\ q = Len(b) /\ n \in 0..(q - 1)
  OBVIOUS
<1>2. b[n + 1] \in S
  BY <1>1, ElementOfSeq
<1>3. v \in Seq(S) /\ Len(v) = p + 1 /\ v[p + 1] = b[n + 1] /\ \A i \in 1..p : v[i] = w[i]
  BY <1>1, <1>2
<1> HIDE DEF v
<1>4. /\ l \in Seq(S) /\ Len(l) = p + (q - n) /\ \A i \in 1..p : l[i] = w[i]
      /\ \A i \in (p + 1)..(p + (q - n)) : l[i] = b[n + (i - p)]
  <2>1. n \in 0..Len(b) BY <1>1
  <2>2. IsLog(S, l, w, b, n) BY <2>1, LogShape
  <2> HIDE DEF l
  <2> QED BY <1>1, <2>2 DEF IsLog
<1>5. /\ k \in Seq(S) /\ Len(k) = (p + 1) + (q - (n + 1)) /\ \A i \in 1..(p + 1) : k[i] = v[i]
      /\ \A i \in ((p + 1) + 1)..((p + 1) + (q - (n + 1))) : k[i] = b[(n + 1) + (i - (p + 1))]
  <2>1. n + 1 \in 0..Len(b) BY <1>1
  <2>2. IsLog(S, k, v, b, n + 1) BY <1>3, <2>1, LogShape
  <2> HIDE DEF k
  <2> QED BY <1>1, <1>3, <2>2 DEF IsLog
<1> HIDE DEF l, k
<1>6. ASSUME NEW i \in 1..(p + (q - n)) PROVE k[i] = l[i]
  <2>1. CASE i <= p
    <3>1. i \in 1..p /\ i \in 1..(p + 1) BY <1>1, <2>1
    <3> QED BY <1>3, <1>4, <1>5, <3>1
  <2>2. CASE i = p + 1
    <3>1. i \in (p + 1)..(p + (q - n)) /\ i \in 1..(p + 1) /\ n + (i - p) = n + 1
      BY <1>1, <2>2
    <3>2. l[i] = b[n + (i - p)] BY <1>4, <3>1
    <3> QED BY <1>3, <1>5, <2>2, <3>1, <3>2
  <2>3. CASE i > p + 1
    <3>1. /\ i \in (p + 1)..(p + (q - n)) /\ i \in ((p + 1) + 1)..((p + 1) + (q - (n + 1)))
          /\ (n + 1) + (i - (p + 1)) = n + (i - p)
      BY <1>1, <2>3
    <3>2. k[i] = b[(n + 1) + (i - (p + 1))] /\ l[i] = b[n + (i - p)]
      BY <1>4, <1>5, <3>1
    <3> QED BY <3>1, <3>2
  <2> QED BY <1>1, <2>1, <2>2, <2>3
<1>7. Len(k) = Len(l) /\ Len(k) = p + (q - n)
  BY <1>1, <1>4, <1>5
<1>8. k = l
  BY <1>4, <1>5, <1>6, <1>7, SeqEqual
<1> QED BY <1>8 DEF k, l, v

\* put and del add their record at the end of the log.
LEMMA LogPut ==
    ASSUME TypeInv, WalGood, NEW r \in WalRecord,
           buffer_' = Append(buffer_, r), UNCHANGED <<wal_file, written>>
    PROVE  TheLog' = Append(TheLog, r)
<1>1. wal_file \in Seq(WalRecord) /\ buffer_ \in Seq(WalRecord) /\ written \in 0..Len(buffer_)
  BY DEF TypeInv, MemOK, WalGood
<1>2. TheLog' = LogOf(wal_file, Append(buffer_, r), written)
  BY DEF TheLog
<1> QED BY <1>1, <1>2, LogAppend DEF TheLog

\* A flush moves the first unwritten record from the buffer to the file.
LEMMA LogFlushWrite == ASSUME TypeInv, WalGood, FlushWrite PROVE TheLog' = TheLog /\ WalGood'
<1>1. wal_file \in Seq(WalRecord) /\ buffer_ \in Seq(WalRecord) /\ written \in 0..(Len(buffer_) - 1)
  BY DEF TypeInv, MemOK, WalGood, FlushWrite, Unwritten
<1>2. wal_file' = Append(wal_file, buffer_[written + 1]) /\ written' = written + 1 /\ buffer_' = buffer_
  BY DEF FlushWrite, NextRecord
<1>3. buffer_[written + 1] \in WalRecord
  BY <1>1
<1>4. TheLog' = LogOf(Append(wal_file, buffer_[written + 1]), buffer_, written + 1)
  BY <1>2 DEF TheLog
<1>5. WalGood'
  BY <1>1, <1>2, <1>3 DEF WalGood
<1> QED BY <1>1, <1>4, <1>5, LogMove DEF TheLog

\* A flush that is through, or a store just opened or killed, has nothing in
\* the log beyond the file.
LEMMA LogWritten ==
    ASSUME NEW S, NEW w \in Seq(S), NEW b \in Seq(S)
    PROVE  LogOf(w, b, Len(b)) = w
<1> DEFINE l == LogOf(w, b, Len(b))
<1>1. IsLog(S, l, w, b, Len(b))
  BY LogShape
<1> HIDE DEF l
<1>2. l \in Seq(S) /\ Len(l) = Len(w) /\ \A i \in 1..Len(l) : l[i] = w[i]
  BY <1>1 DEF IsLog
<1>3. l = w
  BY <1>2, SeqEqual
<1> QED BY <1>3 DEF l

\* The fsync that ends a flush leaves the log as it is, all of it on disk.
LEMMA LogFlushSync ==
    ASSUME TypeInv, WalGood, FlushSync PROVE TheLog = wal_file /\ TheLog' = wal_file'
<1>1. written = Len(buffer_) /\ buffer_ \in Seq(WalRecord) /\ wal_file \in Seq(WalRecord)
  BY DEF FlushSync, Unwritten, TypeInv, MemOK, WalGood
<1>2. /\ wal_file' = wal_file /\ buffer_' = <<>> /\ written' = Len(<<>>)
      /\ <<>> \in Seq(WalRecord)
  BY EmptySeq DEF FlushSync, BufferAfterFlush
<1> QED BY <1>1, <1>2, LogWritten DEF TheLog

-----------------------------------------------------------------------------
(* Without torn writes.                                                     *)

NoTorn == "torn" \notin Faults

\* Without torn writes every record of the WAL file is whole.
LEMMA WalGoodNext == ASSUME NoTorn, TypeInv, WalGood, [Next]_vars PROVE WalGood'
<1>1. CASE FlushWrite
  BY <1>1, LogFlushWrite
<1>2. CASE CheckpointRotate
  BY <1>2, EmptySeq DEF CheckpointRotate, WalGood
<1>3. ASSUME NEW kind \in {"kill", "power"}, Crash(kind) PROVE WalGood'
  <2>1. PICK n \in synced..Len(wal_file) : wal_file' = SubSeq(wal_file, 1, n)
    BY <1>3, WalAfterShape DEF Crash, TypeInv, NoTorn
  <2>2. n \in 0..Len(wal_file)
    BY DEF TypeInv, DiskOK
  <2> QED BY <2>1, <2>2 DEF WalGood
<1>4. CASE /\ ~FlushWrite /\ ~CheckpointRotate
           /\ ~\E kind \in {"kill", "power"} : Crash(kind)
  <2>1. wal_file' = wal_file
    BY <1>4, Zenon DEF NoTorn, Next, Open, SetGroupCommitEvery, WriteDropped, Put, Del, NextWrite,
       FlushWal, FlushWalEmpty, FlushWalClosed, FlushSync, FlushWriteFails, FlushSyncFails,
       CheckpointBegin, CheckpointLine, CheckpointLineFails, disk, vars
  <2> QED BY <2>1 DEF WalGood
<1> QED BY <1>1, <1>2, <1>3, <1>4

\* A new WAL file has no record at all.
LEMMA WalGoodInit == Init => WalGood
  BY EmptySeq DEF Init, WalGood

-----------------------------------------------------------------------------
(* Sequence numbers.                                                        *)

Numbered(l) == \A i, j \in 1..Len(l) : i < j => l[i].seq < l[j].seq
Below(l, s) == \A i \in 1..Len(l) : l[i].seq <= s

\* The two conjuncts of SeqIncreasing.
SeqInv ==
    /\ Numbered(TheLog)
    /\ pc # "closed" => Below(TheLog, seq_)

\* SeqInv says what SeqIncreasing says.
LEMMA SeqInvEquiv == ASSUME TypeInv, WalGood, SeqInv PROVE SeqIncreasing
<1>1. TheLog \in Seq(WalRecord)
  BY TheLogShape DEF IsLog
<1>2. DOMAIN TheLog = 1..Len(TheLog)
  BY <1>1
<1> QED BY <1>2 DEF SeqInv, SeqIncreasing, Numbered, Below, TheLog, LogOf

\* A record with the next number keeps a log numbered.
LEMMA NumberedAppend ==
    ASSUME NEW l \in Seq(WalRecord), NEW s \in Nat, Numbered(l), Below(l, s),
           NEW r \in WalRecord, r.seq = s + 1
    PROVE  Numbered(Append(l, r)) /\ Below(Append(l, r), s + 1)
<1> DEFINE m == Append(l, r)
<1>1. /\ m \in Seq(WalRecord) /\ Len(m) = Len(l) + 1 /\ Len(l) \in Nat /\ m[Len(l) + 1] = r
      /\ \A i \in 1..Len(l) : m[i] = l[i]
  OBVIOUS
<1> HIDE DEF m
<1>2. \A i \in 1..Len(l) : l[i].seq \in Nat
  BY RecordFields
<1>3. \A i \in 1..Len(m) : i \in 1..Len(l) \/ i = Len(l) + 1
  BY <1>1
<1>4. Below(m, s + 1)
  BY <1>1, <1>2, <1>3 DEF Below
<1>5. Numbered(m)
  <2> SUFFICES ASSUME NEW i \in 1..Len(m), NEW j \in 1..Len(m), i < j PROVE m[i].seq < m[j].seq
    BY DEF Numbered
  <2>1. i \in 1..Len(l)
    BY <1>1
  <2>2. CASE j \in 1..Len(l)
    BY <1>1, <2>1, <2>2 DEF Numbered
  <2>3. CASE j = Len(l) + 1
    BY <1>1, <1>2, <2>1, <2>3 DEF Below
  <2> QED BY <1>3, <2>2, <2>3
<1> QED BY <1>4, <1>5 DEF m

\* A part of a numbered log is numbered.
LEMMA NumberedPart ==
    ASSUME NEW l \in Seq(WalRecord), NEW m \in Seq(WalRecord), NEW d \in Nat, Len(m) + d <= Len(l),
           \A i \in 1..Len(m) : m[i] = l[i + d]
    PROVE  /\ Numbered(l) => Numbered(m)
           /\ \A s : Below(l, s) => Below(m, s)
<1>1. \A i \in 1..Len(m) : i + d \in 1..Len(l) /\ i \in Nat
  OBVIOUS
<1>2. \A i, j \in 1..Len(m) : i < j => i + d < j + d
  OBVIOUS
<1> QED BY <1>1, <1>2 DEF Numbered, Below

\* put and del.
LEMMA SeqInvWrite ==
    ASSUME TypeInv, WalGood, SeqInv, NextWrite, NEW r \in WalRecord, r.seq = seq_ + 1, Log(r), pc' # "closed"
    PROVE  SeqInv'
<1>1. TheLog' = Append(TheLog, r)
  BY LogPut DEF NextWrite, Log, disk
<1>2. TheLog \in Seq(WalRecord) /\ seq_ \in Nat
  BY TheLogShape DEF IsLog, TypeInv, MemOK
<1>3. Numbered(TheLog) /\ Below(TheLog, seq_) /\ seq_' = seq_ + 1
  BY DEF SeqInv, NextWrite
<1>4. Numbered(TheLog') /\ Below(TheLog', seq_')
  BY <1>1, <1>2, <1>3, NumberedAppend
<1> QED BY <1>4 DEF SeqInv

\* open: the highest number on disk is no lower than any.
LEMMA SeqInvOpen == ASSUME TypeInv, WalGood, SeqInv, Open PROVE SeqInv'
<1>1. TheLog = wal_file /\ TheLog' = wal_file
  <2>1. written = Len(buffer_) /\ buffer_ \in Seq(WalRecord)
    BY EmptySeq DEF TypeInv, PcOK, MemOK, Open
  <2>2. TheLog = wal_file
    BY <2>1, LogWritten DEF TheLog, WalGood
  <2> QED BY <2>2 DEF Open, TheLog, disk
<1>2. wal_file \in Seq(WalRecord) /\ wal_file \in Seq(LogRecord)
  BY DEF WalGood, TypeInv, DiskOK
<1>3. \A i \in 1..Len(wal_file) : wal_file[i].seq <= MaxSeq(wal_file)
  BY <1>2, GoodLenWhole, MaxSeqType
<1>4. seq_' = MaxSeq(wal_file) BY DEF Open
<1> QED BY <1>1, <1>3, <1>4 DEF SeqInv, Below

\* checkpoint drops what the file held.
LEMMA SeqInvRotate == ASSUME TypeInv, WalGood, SeqInv, CheckpointRotate PROVE SeqInv'
<1>1. /\ wal_file' = <<>> /\ UNCHANGED <<buffer_, written, seq_>> /\ pc = "dump"
  BY DEF CheckpointRotate
<1>3. IsLog(WalRecord, TheLog', <<>>, buffer_, written)
  <2>1. /\ <<>> \in Seq(WalRecord) /\ buffer_ \in Seq(WalRecord) /\ written \in 0..Len(buffer_)
        /\ TheLog' = LogOf(<<>>, buffer_, written)
    BY <1>1, EmptySeq DEF TypeInv, MemOK, TheLog
  <2> QED BY <2>1, LogShape
<1>4. IsLog(WalRecord, TheLog, wal_file, buffer_, written)
  BY TheLogShape
<1> DEFINE l == TheLog
           m == TheLog'
<1>5. PICK p \in Nat, q \in Nat : p = Len(wal_file) /\ q = Len(buffer_) /\ written = 0
  BY <1>1 DEF WalGood, TypeInv, MemOK, PcOK
<1> HIDE DEF l, m
<1>6. /\ m \in Seq(WalRecord) /\ Len(m) = q /\ \A i \in 1..q : m[i] = buffer_[i]
  <2>1. IsLog(WalRecord, m, <<>>, buffer_, 0) BY <1>3, <1>5 DEF m
  <2>2. Len(<<>>) = 0 OBVIOUS
  <2>3. \A i \in 1..q : i \in (0 + 1)..(0 + (q - 0)) /\ 0 + (i - 0) = i BY <1>5
  <2> QED BY <1>5, <2>1, <2>2, <2>3 DEF IsLog
<1>7. /\ l \in Seq(WalRecord) /\ Len(l) = p + q /\ \A i \in 1..q : l[i + p] = buffer_[i]
  <2>1. IsLog(WalRecord, l, wal_file, buffer_, 0) BY <1>4, <1>5 DEF l
  <2>2. \A i \in 1..q : i + p \in (p + 1)..(p + (q - 0)) /\ 0 + ((i + p) - p) = i BY <1>5
  <2> QED BY <1>5, <2>1, <2>2 DEF IsLog
<1>8. Numbered(l) => Numbered(m)
  BY <1>6, <1>7, NumberedPart
<1>9. Below(l, seq_) => Below(m, seq_)
  BY <1>6, <1>7, NumberedPart
<1> QED BY <1>1, <1>8, <1>9 DEF SeqInv, l, m

\* A crash cuts the log.
LEMMA SeqInvCrash ==
    ASSUME NoTorn, TypeInv, WalGood, SeqInv, NEW kind \in {"kill", "power"}, Crash(kind) PROVE SeqInv'
<1>1. PICK n \in synced..Len(wal_file) : wal_file' = SubSeq(wal_file, 1, n)
  BY WalAfterShape DEF Crash, TypeInv, NoTorn
<1>2. n \in 0..Len(wal_file) /\ wal_file \in Seq(WalRecord)
  BY DEF TypeInv, DiskOK, WalGood
<1>3. wal_file' \in Seq(WalRecord) /\ Len(wal_file') = n /\ \A i \in 1..n : wal_file'[i] = wal_file[i]
  BY <1>1, <1>2
<1>4. TheLog' = wal_file'
  <2>1. buffer_' = <<>> /\ written' = Len(<<>>) /\ <<>> \in Seq(WalRecord)
    BY EmptySeq DEF Crash
  <2> QED BY <1>3, <2>1, LogWritten DEF TheLog
<1>5. /\ TheLog \in Seq(WalRecord) /\ Len(wal_file) <= Len(TheLog)
      /\ \A i \in 1..Len(wal_file) : TheLog[i] = wal_file[i]
  BY <1>2, TheLogShape DEF IsLog, TypeInv, MemOK
<1> DEFINE l == TheLog
           m == wal_file'
<1>6. /\ l \in Seq(WalRecord) /\ m \in Seq(WalRecord) /\ Len(m) + 0 <= Len(l)
      /\ \A i \in 1..Len(m) : m[i] = l[i + 0]
  BY <1>2, <1>3, <1>5
<1> HIDE DEF l, m
<1>7. Numbered(l) => Numbered(m)
  BY <1>6, NumberedPart
<1> QED BY <1>4, <1>7 DEF SeqInv, Crash, l, m

\* Every step keeps the log numbered.
LEMMA SeqInvNext ==
    ASSUME NoTorn, "write" \notin Faults, "fsync" \notin Faults, TypeInv, WalGood, SeqInv, [Next]_vars
    PROVE  SeqInv'
<1>1. ASSUME UNCHANGED <<wal_file, buffer_, written, seq_, pc>> PROVE SeqInv'
  BY <1>1 DEF SeqInv, TheLog
<1>2. ASSUME UNCHANGED <<wal_file, buffer_, written, seq_>>, pc # "closed" PROVE SeqInv'
  BY <1>2 DEF SeqInv, TheLog
<1>3. CASE Open
  BY <1>3, SeqInvOpen
<1>4. CASE WriteDropped
  <2>1. /\ UNCHANGED <<wal_file, buffer_, written, pc>> /\ seq_' = seq_ + 1 /\ pc = "idle"
    BY <1>4 DEF WriteDropped, NextWrite, disk
  <2>2. Numbered(TheLog) /\ Below(TheLog, seq_) /\ TheLog \in Seq(WalRecord) /\ seq_ \in Nat
    BY <2>1, TheLogShape DEF SeqInv, IsLog, TypeInv, MemOK
  <2>3. \A i \in 1..Len(TheLog) : TheLog[i].seq \in Nat
    BY <2>2, RecordFields
  <2>4. Below(TheLog, seq_ + 1)
    BY <2>2, <2>3 DEF Below
  <2> QED BY <2>1, <2>2, <2>4 DEF SeqInv, TheLog
<1>5. ASSUME NEW k \in Key, NEW v \in Val, Put(k, v) PROVE SeqInv'
  <2> DEFINE r == WriteRecord("Put", seq_ + 1, k, v)
  <2>1. r \in WalRecord /\ r.seq = seq_ + 1
    <3>1. seq_ + 1 \in Nat /\ v \in Str BY StoreAssumption DEF TypeInv, MemOK
    <3>2. r \in WalRecord BY <3>1, WriteRecordType
    <3> QED BY <3>2 DEF WriteRecord
  <2>2. NextWrite /\ Log(r) /\ pc' # "closed"
    BY <1>5 DEF Put
  <2> HIDE DEF r
  <2> QED BY <2>1, <2>2, SeqInvWrite
<1>6. ASSUME NEW k \in Key, Del(k) PROVE SeqInv'
  <2> DEFINE r == WriteRecord("Del", seq_ + 1, k, <<>>)
  <2>1. r \in WalRecord /\ r.seq = seq_ + 1
    <3>1. seq_ + 1 \in Nat /\ <<>> \in Str BY EmptySeq DEF TypeInv, MemOK, Str
    <3>2. r \in WalRecord BY <3>1, WriteRecordType
    <3> QED BY <3>2 DEF WriteRecord
  <2>2. NextWrite /\ Log(r) /\ pc' # "closed"
    BY <1>6 DEF Del, NextWrite
  <2> HIDE DEF r
  <2> QED BY <2>1, <2>2, SeqInvWrite
<1>7. CASE FlushWrite
  BY <1>7, LogFlushWrite DEF SeqInv, FlushWrite
<1>8. CASE FlushSync
  <2>1. TheLog = wal_file /\ TheLog' = wal_file'
    BY <1>8, LogFlushSync
  <2> QED BY <1>8, <2>1 DEF SeqInv, FlushSync
<1>9. CASE CheckpointRotate
  BY <1>9, SeqInvRotate
<1>10. ASSUME NEW kind \in {"kill", "power"}, Crash(kind) PROVE SeqInv'
  BY <1>10, SeqInvCrash
<1>11. CASE FlushWriteFails \/ FlushSyncFails
  BY <1>11 DEF FlushWriteFails, FlushSyncFails
<1>12. CASE FlushWal \/ CheckpointBegin
  BY <1>2, <1>12, Zenon DEF FlushWal, CheckpointBegin, memory, disk
<1>13. CASE UNCHANGED vars \/ FlushWalEmpty \/ FlushWalClosed \/ \E n \in BatchSizes : SetGroupCommitEvery(n)
  BY <1>1, <1>13, Zenon DEF vars, FlushWalEmpty, FlushWalClosed, SetGroupCommitEvery, memory, disk
<1>14. CASE \E k \in dumping : CheckpointLine(k) \/ CheckpointLineFails(k)
  BY <1>1, <1>14, Zenon DEF CheckpointLine, CheckpointLineFails
<1> QED BY <1>3, <1>4, <1>5, <1>6, <1>7, <1>8, <1>9, <1>10, <1>11, <1>12, <1>13, <1>14, Zenon DEF Next

\* As long as no record is torn and no flush has to be tried again, a
\* sequence number names one write: through any number of kills, power
\* failures, restarts and checkpoints.
THEOREM NumbersIncrease ==
    ASSUME NoTorn, "write" \notin Faults, "fsync" \notin Faults
    PROVE  Spec => []SeqIncreasing
<1> DEFINE Inv == TypeInv /\ WalGood /\ SeqInv
<1>1. Init => Inv
  <2> SUFFICES ASSUME Init PROVE Inv OBVIOUS
  <2>1. TypeInv /\ WalGood BY TypeInvInit, WalGoodInit
  <2>2. TheLog = <<>> /\ pc = "closed"
    <3>1. <<>> \in Seq(WalRecord) /\ written = Len(<<>>) BY EmptySeq DEF Init
    <3> QED BY <3>1, LogWritten DEF Init, TheLog
  <2> QED BY <2>1, <2>2 DEF SeqInv, Numbered
<1>2. Inv /\ [Next]_vars => Inv'
  BY TypeInvNext, WalGoodNext, SeqInvNext
<1>3. Inv => SeqIncreasing
  BY SeqInvEquiv
<1> QED BY <1>1, <1>2, <1>3, PTL DEF Spec

-----------------------------------------------------------------------------
(* Plain strings: keys and values of one word, which the snapshot's text    *)
(* format can carry.                                                        *)

PlainStrings == \A s \in Key \cup Val : Len(s) = 1

PlainMap(m) == \A k \in DOMAIN m : k \in Key /\ Len(m[k]) = 1

PlainRecord(r) ==
    r.type # "Torn" => r.key \in Key /\ (r.type = "Put" => Len(r.val) = 1)

PlainLog(f) == \A i \in 1..Len(f) : PlainRecord(f[i])

\* Every word of a snapshot file that a reader takes for a key is one.
PlainFile(f) == \A j \in Nat : 2*j + 2 <= Len(f) => <<f[2*j + 1]>> \in Key

\* Only keys are on their way to the disk, and the running checkpoint has
\* written whole lines.
KeysInv ==
    /\ PlainMap(map_) /\ PlainLog(buffer_) /\ PlainLog(wal_file) /\ PlainFile(snap_file)
    /\ dumping # {} => \E h \in Nat : Len(snap_file) = 2*h

\* A string of one word.
LEMMA OneWord == ASSUME NEW s \in Str, Len(s) = 1 PROVE s[1] \in Word /\ s = <<s[1]>>
  BY DEF Str

\* A line made of two of them.
LEMMA TwoWords ==
    ASSUME NEW a \in Word, NEW b \in Word
    PROVE  /\ <<a>> \o <<b>> = <<a, b>> /\ <<a>> \o <<b>> \in Str
           /\ Len(<<a>> \o <<b>>) = 2 /\ (<<a>> \o <<b>>)[1] = a
<1> DEFINE s == <<a>> \o <<b>>
           t == <<a, b>>
<1>1. s \in Seq(Word) /\ Len(s) = 2 /\ s[1] = a /\ s[2] = b OBVIOUS
<1>2. t \in Seq(Word) /\ Len(t) = 2 /\ t[1] = a /\ t[2] = b OBVIOUS
<1> HIDE DEF s, t
<1>3. \A i \in 1..2 : s[i] = t[i]
  <2>1. \A i \in 1..2 : i = 1 \/ i = 2 OBVIOUS
  <2> QED BY <1>1, <1>2, <2>1
<1>4. s = t BY <1>1, <1>2, <1>3, SeqEqual
<1> QED BY <1>1, <1>4 DEF s, t, Str

\* Replaying plain records over a plain map gives a plain map.
LEMMA ReplayPlain ==
    ASSUME NEW m, NEW f \in Seq(LogRecord), PlainMap(m), PlainLog(f)
    PROVE  PlainMap(ReplayInto(m, f))
<1> DEFINE n == GoodLen(f)
           logged == {f[i].key : i \in 1..n}
           last(k) == f[Max(RecordsOf(f, n, k))]
           D == {x \in DOMAIN m \cup logged : x \in logged => last(x).type = "Put"}
           v(k) == IF k \in logged THEN last(k).val ELSE m[k]
<1>1. n \in 0..Len(f) /\ \A i \in 1..n : f[i] \in WalRecord
  BY GoodLenType
<1>2. \A i \in 1..n : i \in 1..Len(f) /\ f[i].type # "Torn"
  <2> HIDE DEF n
  <2>1. \A r \in WalRecord : r.type # "Torn" BY DEF WalRecord
  <2> QED BY <1>1, <2>1
<1> HIDE DEF n
<1>3. \A k \in logged : k \in Key
  BY <1>2 DEF PlainLog, PlainRecord
<1>4. \A k \in logged : last(k).type = "Put" => Len(last(k).val) = 1
  <2> TAKE k \in logged
  <2>1. \E i \in 1..n : f[i].key = k OBVIOUS
  <2>2. Max(RecordsOf(f, n, k)) \in 1..n
    <3> HIDE DEF logged
    <3> QED BY <1>1, <2>1, LastRecord
  <2> QED BY <1>2, <2>2 DEF PlainLog, PlainRecord
<1> HIDE DEF logged, last
<1>5. \A k \in D : k \in Key /\ Len(v(k)) = 1
  BY <1>3, <1>4 DEF PlainMap
<1>6. ReplayInto(m, f) = [k \in D |-> v(k)]
  BY DEF ReplayInto, n, logged, last
<1> HIDE DEF D, v
<1> QED BY <1>5, <1>6 DEF PlainMap

\* Reading a plain snapshot gives a plain map.
LEMMA LoadPlain ==
    ASSUME NEW f \in Str, PlainFile(f) PROVE PlainMap(LoadFromFile(f))
<1> DEFINE D == {<<f[2*i - 1]>> : i \in 1..(Len(f) \div 2)}
           v(k) == <<f[2 * Max(PairsOf(f, k[1]))]>>
<1>1. ASSUME NEW i \in 1..(Len(f) \div 2) PROVE <<f[2*i - 1]>> \in Key
  <2>1. PICK j \in Nat : j = i - 1 OBVIOUS
  <2>2. 2*j + 2 <= Len(f) /\ 2*j + 1 = 2*i - 1
    BY <2>1 DEF Str
  <2> QED BY <2>2 DEF PlainFile
<1>2. \A k \in D : k \in Key
  BY <1>1
<1>3. \A k : Len(v(k)) = 1
  OBVIOUS
<1>4. LoadFromFile(f) = [k \in D |-> v(k)]
  BY DEF LoadFromFile
<1> HIDE DEF D, v
<1> QED BY <1>2, <1>3, <1>4 DEF PlainMap

\* What recovery returns under KeysInv.
LEMMA RecoveredPlain == ASSUME TypeInv, KeysInv PROVE PlainMap(Recovered)
<1>1. PlainMap(LoadFromFile(snap_file))
  BY LoadPlain DEF KeysInv, TypeInv, DiskOK
<1> QED BY <1>1, ReplayPlain DEF KeysInv, TypeInv, DiskOK, Recovered

\* Part of a line after whole lines: a key is only read with a partner.
LEMMA PlainExtend ==
    ASSUME NEW f \in Str, NEW g \in Str, NEW h \in Nat, Len(f) = 2*h, PlainFile(f),
           Len(g) <= 2, Len(g) = 2 => <<g[1]>> \in Key
    PROVE  PlainFile(f \o g)
<1> DEFINE l == f \o g
<1>1. /\ Len(l) = 2*h + Len(g) /\ Len(g) \in Nat
      /\ \A i \in 1..(2*h) : l[i] = f[i]
      /\ Len(g) = 2 => l[2*h + 1] = g[1]
  BY SMTT(40) DEF Str
<1> HIDE DEF l
<1>2. ASSUME NEW j \in Nat, 2*j + 2 <= Len(l) PROVE <<l[2*j + 1]>> \in Key
  <2>1. CASE j < h
    <3>1. 2*j + 2 <= Len(f) /\ 2*j + 1 \in 1..(2*h) BY <2>1
    <3> QED BY <1>1, <3>1 DEF PlainFile
  <2>2. CASE j >= h
    <3>1. PICK x \in Nat : x = Len(g) BY <1>1
    <3>2. x <= 2 /\ 2*j + 2 <= 2*h + x BY <1>1, <1>2, <3>1
    <3>3. j = h /\ x = 2 BY <2>2, <3>2
    <3> QED BY <1>1, <3>1, <3>3
  <2> QED BY <2>1, <2>2
<1> QED BY <1>2 DEF PlainFile, l

\* A crash that cuts a snapshot file makes up no key.
LEMMA PlainParts ==
    ASSUME NEW f \in Str, PlainFile(f), NEW g \in PartsOf(f) PROVE PlainFile(g)
<1>1. CASE \E n \in 0..Len(f) : g = SubSeq(f, 1, n)
  <2>1. PICK n \in 0..Len(f) : g = SubSeq(f, 1, n) BY <1>1
  <2>2. Len(g) = n /\ \A i \in 1..n : g[i] = f[i] BY <2>1 DEF Str
  <2>3. \A j \in Nat : 2*j + 2 <= n => 2*j + 2 <= Len(f) /\ 2*j + 1 \in 1..n BY DEF Str
  <2> QED BY <2>2, <2>3 DEF PlainFile
<1>2. CASE \E n \in 0..(Len(f) - 1) : g = Append(SubSeq(f, 1, n), Stub)
  <2>1. PICK n \in 0..(Len(f) - 1) : g = Append(SubSeq(f, 1, n), Stub) BY <1>2
  <2> DEFINE s == SubSeq(f, 1, n)
  <2>2. s \in Str /\ Len(s) = n /\ \A i \in 1..n : s[i] = f[i] BY DEF Str
  <2> HIDE DEF s
  <2>3. Len(g) = n + 1 /\ \A i \in 1..n : g[i] = f[i] BY <2>1, <2>2 DEF s, Str
  <2>4. \A j \in Nat : 2*j + 2 <= n + 1 => 2*j + 2 <= Len(f) /\ 2*j + 1 \in 1..n BY DEF Str
  <2> QED BY <2>3, <2>4 DEF PlainFile
<1> QED BY <1>1, <1>2 DEF PartsOf

\* A log with one more plain record.
LEMMA PlainAppend ==
    ASSUME NEW f \in Seq(LogRecord), PlainLog(f), NEW r \in LogRecord, PlainRecord(r)
    PROVE  PlainLog(Append(f, r))
<1> DEFINE g == Append(f, r)
<1>1. Len(g) = Len(f) + 1 /\ g[Len(f) + 1] = r /\ \A i \in 1..Len(f) : g[i] = f[i]
  OBVIOUS
<1>2. \A i \in 1..(Len(f) + 1) : i \in 1..Len(f) \/ i = Len(f) + 1
  OBVIOUS
<1> HIDE DEF g
<1>3. PlainLog(g) BY <1>1, <1>2 DEF PlainLog
<1> QED BY <1>3 DEF g

\* The record of a caller's put or del.
LEMMA PlainWrite ==
    ASSUME NEW k \in Key, NEW s, NEW t \in {"Put", "Del"}, NEW v, t = "Put" => Len(v) = 1
    PROVE  PlainRecord(WriteRecord(t, s, k, v))
  BY DEF PlainRecord, WriteRecord

\* A torn record is read as no record.
LEMMA PlainTorn == PlainRecord(TornRecord) /\ TornRecord \in LogRecord
  BY DEF PlainRecord, TornRecord, LogRecord

\* put and del.
LEMMA KeysInvWrite ==
    ASSUME TypeInv, KeysInv, NextWrite, NEW r \in WalRecord, Log(r), PlainRecord(r), PlainMap(map_')
    PROVE  KeysInv'
<1>1. buffer_ \in Seq(LogRecord)
  <2>1. buffer_ \in Seq(WalRecord) BY DEF TypeInv, MemOK
  <2> QED BY <2>1, GoodSeq
<1>2. PlainLog(buffer_')
  BY <1>1, PlainAppend DEF KeysInv, Log, LogRecord
<1> QED BY <1>2 DEF KeysInv, NextWrite, disk

\* A crash.
LEMMA KeysInvCrash ==
    ASSUME TypeInv, KeysInv, NEW kind \in {"kill", "power"}, Crash(kind) PROVE KeysInv'
<1>1. PlainLog(wal_file')
  <2>1. PICK n \in synced..Len(wal_file) :
          \/ wal_file' = SubSeq(wal_file, 1, n)
          \/ wal_file' = Append(SubSeq(wal_file, 1, n), TornRecord)
    BY WalAfterShape DEF Crash, TypeInv
  <2> DEFINE s == SubSeq(wal_file, 1, n)
  <2>2. n \in 0..Len(wal_file) /\ wal_file \in Seq(LogRecord) BY DEF TypeInv, DiskOK
  <2>3. s \in Seq(LogRecord) /\ Len(s) = n /\ \A i \in 1..n : i \in 1..Len(wal_file) /\ s[i] = wal_file[i]
    BY <2>2
  <2> HIDE DEF s
  <2>4. PlainLog(s) BY <2>3 DEF PlainLog, KeysInv
  <2>5. PlainLog(Append(s, TornRecord)) BY <2>3, <2>4, PlainAppend, PlainTorn
  <2> QED BY <2>1, <2>4, <2>5 DEF s
<1>2. PlainFile(snap_file')
  BY PlainParts DEF Crash, SnapAfter, KeysInv, TypeInv, DiskOK
<1>3. PlainMap(map_') /\ PlainLog(buffer_') /\ dumping' = {}
  BY EmptySeq DEF Crash, PlainMap, PlainLog, EmptyMap
<1> QED BY <1>1, <1>2, <1>3 DEF KeysInv

\* A line of the snapshot, whole or cut.
LEMMA KeysInvLine ==
    ASSUME PlainStrings, TypeInv, KeysInv, NEW k \in dumping, CheckpointLine(k) \/ CheckpointLineFails(k)
    PROVE  KeysInv'
<1>1. k \in Key /\ Len(k) = 1 /\ Len(map_[k]) = 1 /\ k \in Str /\ map_[k] \in Str /\ snap_file \in Str
  BY DEF TypeInv, MemOK, MapSet, DiskOK, KeysInv, PlainMap, PlainStrings
<1> DEFINE line == SnapshotLine(k, map_[k])
<1>2. line = <<k[1], map_[k][1]>> /\ line \in Str /\ Len(line) = 2 /\ line[1] = k[1] /\ k = <<k[1]>>
  <2>1. k[1] \in Word /\ map_[k][1] \in Word /\ k = <<k[1]>> /\ map_[k] = <<map_[k][1]>>
    BY <1>1, OneWord
  <2>2. line = <<k[1]>> \o <<map_[k][1]>> BY <2>1 DEF SnapshotLine
  <2> HIDE DEF line
  <2> QED BY <2>1, <2>2, TwoWords
<1> HIDE DEF line
<1>3. PICK h \in Nat : Len(snap_file) = 2*h
  BY DEF KeysInv
<1>4. /\ UNCHANGED <<map_, buffer_, wal_file>>
  BY DEF CheckpointLine, CheckpointLineFails
<1>5. CASE CheckpointLine(k)
  <2>1. snap_file' = snap_file \o line BY <1>5 DEF CheckpointLine, line
  <2>2. PlainFile(snap_file')
    <3>1. Len(line) <= 2 /\ <<line[1]>> \in Key /\ PlainFile(snap_file) BY <1>1, <1>2 DEF KeysInv
    <3> QED BY <1>1, <1>2, <1>3, <2>1, <3>1, PlainExtend
  <2>3. Len(snap_file') = 2*(h + 1) BY <1>1, <1>2, <1>3, <2>1 DEF Str
  <2> QED BY <1>4, <2>2, <2>3 DEF KeysInv
<1>6. CASE CheckpointLineFails(k)
  <2>1. PICK g \in PartsOf(line) : snap_file' = snap_file \o g BY <1>6 DEF CheckpointLineFails, line
  <2>2. g \in Str BY <1>2, <2>1, PartsOfType
  <2>3. Len(g) <= 2 /\ (Len(g) = 2 => g[1] = line[1])
    <3>1. CASE \E n \in 0..Len(line) : g = SubSeq(line, 1, n)
      BY <1>2, <3>1 DEF Str
    <3>2. CASE \E n \in 0..(Len(line) - 1) : g = Append(SubSeq(line, 1, n), Stub)
      <4>0. \A n \in 0..(2 - 1) : n \in 0..1 OBVIOUS
      <4>1. PICK n \in 0..1 : g = Append(SubSeq(line, 1, n), Stub) BY <1>2, <3>2, <4>0
      <4> DEFINE s == SubSeq(line, 1, n)
      <4>2. s \in Str /\ Len(s) = n /\ \A i \in 1..n : s[i] = line[i] BY <1>2 DEF Str
      <4> HIDE DEF s
      <4>3. Len(g) = n + 1 /\ \A i \in 1..n : g[i] = line[i] BY <4>1, <4>2 DEF s, Str
      <4> QED BY <4>3
    <3> QED BY <2>1, <3>1, <3>2 DEF PartsOf
  <2>4. PlainFile(snap_file')
    BY <1>1, <1>2, <1>3, <2>1, <2>2, <2>3, PlainExtend DEF KeysInv
  <2>5. dumping' = {} BY <1>6 DEF CheckpointLineFails
  <2> QED BY <1>4, <2>4, <2>5 DEF KeysInv
<1> QED BY <1>5, <1>6

\* Every step keeps strange words out of the files.
LEMMA KeysInvNext == ASSUME PlainStrings, TypeInv, KeysInv, [Next]_vars PROVE KeysInv'
<1>1. ASSUME UNCHANGED <<map_, buffer_, wal_file, snap_file, dumping>> PROVE KeysInv'
  BY <1>1 DEF KeysInv
<1>2. CASE Open
  BY <1>2, RecoveredPlain DEF Open, KeysInv, disk
<1>3. ASSUME NEW k \in Key, NEW v \in Val, Put(k, v) PROVE KeysInv'
  <2> DEFINE r == WriteRecord("Put", seq_ + 1, k, v)
  <2>1. Len(v) = 1 /\ seq_ + 1 \in Nat /\ v \in Str BY StoreAssumption DEF PlainStrings, TypeInv, MemOK
  <2>2. r \in WalRecord /\ PlainRecord(r) BY <2>1, WriteRecordType, PlainWrite
  <2>3. NextWrite /\ Log(r) /\ map_' = MapPut(map_, k, v) BY <1>3 DEF Put
  <2>4. PlainMap(map_') BY <2>1, <2>3 DEF KeysInv, PlainMap, MapPut
  <2> HIDE DEF r
  <2> QED BY <2>2, <2>3, <2>4, KeysInvWrite
<1>4. ASSUME NEW k \in Key, Del(k) PROVE KeysInv'
  <2> DEFINE r == WriteRecord("Del", seq_ + 1, k, <<>>)
  <2>1. seq_ + 1 \in Nat /\ <<>> \in Str BY EmptySeq DEF TypeInv, MemOK, Str
  <2>2. r \in WalRecord /\ PlainRecord(r) BY <2>1, WriteRecordType, PlainWrite
  <2>3. NextWrite /\ Log(r) /\ (map_' = MapErase(map_, k) \/ map_' = map_) BY <1>4 DEF Del
  <2>4. PlainMap(map_') BY <2>3 DEF KeysInv, PlainMap, MapErase
  <2> HIDE DEF r
  <2> QED BY <2>2, <2>3, <2>4, KeysInvWrite
<1>5. CASE FlushWrite
  <2>1. wal_file' = Append(wal_file, NextRecord) /\ UNCHANGED <<map_, buffer_, snap_file, dumping>>
    BY <1>5 DEF FlushWrite
  <2>2. written + 1 \in 1..Len(buffer_)
    BY <1>5 DEF FlushWrite, Unwritten, TypeInv, MemOK
  <2>3. NextRecord \in LogRecord /\ PlainRecord(NextRecord)
    BY <2>2 DEF NextRecord, KeysInv, PlainLog, TypeInv, MemOK, LogRecord
  <2>4. PlainLog(wal_file') BY <2>1, <2>3, PlainAppend DEF KeysInv, TypeInv, DiskOK
  <2> QED BY <2>1, <2>4 DEF KeysInv
<1>6. CASE FlushSync
  <2>1. PlainMap(map_') BY <1>6 DEF FlushSync, KeysInv, PlainMap
  <2>2. PlainLog(buffer_') BY <1>6, EmptySeq DEF FlushSync, BufferAfterFlush, PlainLog
  <2> QED BY <1>6, <2>1, <2>2 DEF FlushSync, KeysInv
<1>7. CASE FlushWriteFails \/ FlushSyncFails
  <2>1. /\ UNCHANGED <<map_, buffer_, snap_file, dumping>>
        /\ wal_file' = wal_file \/ wal_file' = Append(wal_file, TornRecord)
    BY <1>7 DEF FlushWriteFails, FlushSyncFails, FlushFails, BufferAfterFailure
  <2>2. PlainLog(wal_file') BY <2>1, PlainAppend, PlainTorn DEF KeysInv, TypeInv, DiskOK
  <2> QED BY <2>1, <2>2 DEF KeysInv
<1>8. CASE CheckpointBegin
  <2>1. PlainFile(snap_file') /\ Len(snap_file') = 2*0
    BY <1>8, EmptySeq DEF CheckpointBegin, PlainFile
  <2> QED BY <1>8, <2>1 DEF CheckpointBegin, KeysInv
<1>9. CASE \E k \in dumping : CheckpointLine(k) \/ CheckpointLineFails(k)
  BY <1>9, KeysInvLine
<1>10. CASE CheckpointRotate
  <2>1. PlainLog(wal_file') BY <1>10, EmptySeq DEF CheckpointRotate, PlainLog
  <2> QED BY <1>10, <2>1 DEF CheckpointRotate, KeysInv
<1>11. ASSUME NEW kind \in {"kill", "power"}, Crash(kind) PROVE KeysInv'
  BY <1>11, KeysInvCrash
<1>12. CASE UNCHANGED vars \/ FlushWal \/ FlushWalEmpty \/ FlushWalClosed \/ WriteDropped
              \/ \E n \in BatchSizes : SetGroupCommitEvery(n)
  BY <1>1, <1>12, Zenon DEF vars, FlushWal, FlushWalEmpty, FlushWalClosed, WriteDropped, NextWrite,
     SetGroupCommitEvery, memory, disk
<1> QED BY <1>2, <1>3, <1>4, <1>5, <1>6, <1>7, <1>8, <1>9, <1>10, <1>11, <1>12, Zenon DEF Next

\* New files hold no key.
LEMMA KeysInvInit == Init => KeysInv
  BY EmptySeq DEF Init, KeysInv, PlainMap, PlainLog, PlainFile, EmptyMap

\* With keys and values of one word, recovery never makes up a key: not from
\* a snapshot cut inside a word or a pair, not from a torn log, through any
\* number of crashes and failed system calls.
THEOREM NoMadeUpKeys == ASSUME PlainStrings PROVE Spec => []RecoveredKeys
<1> DEFINE Inv == TypeInv /\ KeysInv
<1>1. Init => Inv
  BY TypeInvInit, KeysInvInit
<1>2. Inv /\ [Next]_vars => Inv'
  BY TypeInvNext, KeysInvNext
<1>3. Inv => RecoveredKeys
  BY RecoveredPlain DEF RecoveredKeys, PlainMap
<1> QED BY <1>1, <1>2, <1>3, PTL DEF Spec

-----------------------------------------------------------------------------
(* The live map and the disk.                                               *)

\* The map once the running del, if any, has erased its key.
Rest(m, K) == [k \in DOMAIN m \ K |-> m[k]]

\* Between operations the buffer leads from what the disk holds to map_.
\* During a flush replaying what it has already written changes nothing, so
\* that giving up half way is harmless.  During a checkpoint the buffer holds
\* nothing map_ does not, and the snapshot file the part of it already dumped.
RecInv ==
    /\ pc = "idle" => map_ = ReplayInto(Recovered, buffer_)
    /\ pc = "flush" =>
         /\ Rest(map_, erasing) = ReplayInto(Recovered, buffer_)
         /\ ReplayInto(Recovered, SubSeq(buffer_, 1, written)) = Recovered
         /\ erasing # {} => "del" \in Ops
    /\ pc = "dump" =>
         /\ map_ = ReplayInto(map_, buffer_)
         /\ LoadFromFile(snap_file) = Rest(map_, dumping)

\* A failed flush may be tried again, but not the del that started it: that
\* del has not changed map_ and its record is still in the buffer.
DelsSucceed == "del" \in Ops => "write" \notin Faults /\ "fsync" \notin Faults

\* Erasing nothing.
LEMMA RestNone == ASSUME NEW m \in MapSet PROVE Rest(m, {}) = m
<1>1. m = [k \in DOMAIN m |-> m[k]] BY DEF MapSet
<1> QED BY <1>1 DEF Rest

\* put and del between two flushes, and at the start of one.
LEMMA RecInvWrite ==
    ASSUME TypeInv, RecInv, NextWrite, NEW r \in WalRecord, Log(r)
    PROVE  /\ ReplayInto(Recovered', buffer_') = ApplyRecord(map_, r)
           /\ ReplayInto(Recovered', SubSeq(buffer_', 1, written')) = Recovered'
<1>1. Recovered' = Recovered
  BY DEF NextWrite, Recovered, disk
<1>2. buffer_ \in Seq(WalRecord) /\ map_ = ReplayInto(Recovered, buffer_) /\ buffer_' = Append(buffer_, r)
  BY DEF TypeInv, MemOK, RecInv, NextWrite, Log
<1>3. ReplayInto(Recovered, Append(buffer_, r)) = ApplyRecord(ReplayInto(Recovered, buffer_), r)
  BY <1>2, ReplayAppend
<1>4. SubSeq(buffer_', 1, written') = <<>>
  BY SubSeqEmpty DEF NextWrite, TypeInv, PcOK
<1>5. ReplayInto(Recovered, <<>>) = Recovered
  BY RecoveredType, ReplayEmpty DEF TypeInv
<1> QED BY <1>1, <1>2, <1>3, <1>4, <1>5

\* One record written.
LEMMA RecInvFlushWrite == ASSUME TypeInv, WalGood, RecInv, FlushWrite PROVE RecInv'
<1> DEFINE r == buffer_[written + 1]
           s == SubSeq(buffer_, 1, written)
<1>1. /\ wal_file' = Append(wal_file, r) /\ written' = written + 1 /\ pc = "flush" /\ pc' = "flush"
      /\ UNCHANGED <<map_, erasing, buffer_, snap_file>>
  BY DEF FlushWrite, NextRecord
<1>2. written + 1 \in 1..Len(buffer_) /\ buffer_ \in Seq(WalRecord) /\ written \in Nat
  BY DEF FlushWrite, Unwritten, TypeInv, MemOK
<1>3. r \in WalRecord /\ s \in Seq(WalRecord)
  BY <1>2
<1>4. SubSeq(buffer_, 1, written + 1) = Append(s, r)
  <2> DEFINE a == SubSeq(buffer_, 1, written + 1)
             b == Append(s, r)
  <2>1. a \in Seq(WalRecord) /\ Len(a) = written + 1 /\ \A i \in 1..(written + 1) : a[i] = buffer_[i]
    BY <1>2
  <2>2. Len(s) = written /\ \A i \in 1..written : s[i] = buffer_[i]
    BY <1>2
  <2> HIDE DEF r, s
  <2>3. b \in Seq(WalRecord) /\ Len(b) = written + 1 /\ b[written + 1] = r /\ \A i \in 1..written : b[i] = s[i]
    BY <1>2, <1>3, <2>2
  <2> HIDE DEF a, b
  <2>4. \A i \in 1..(written + 1) : a[i] = b[i]
    <3>1. \A i \in 1..(written + 1) : i \in 1..written \/ i = written + 1 BY <1>2
    <3> QED BY <2>1, <2>2, <2>3, <3>1 DEF r
  <2>5. a = b BY <2>1, <2>3, <2>4, SeqEqual
  <2> QED BY <2>5 DEF a, b
<1> HIDE DEF r, s
<1>5. Recovered' = ApplyRecord(Recovered, r)
  <2>1. Recovered' = ReplayInto(LoadFromFile(snap_file), Append(wal_file, r))
    BY <1>1 DEF Recovered
  <2> QED BY <1>3, <2>1, ReplayAppend DEF Recovered, WalGood
<1>6. ReplayInto(ApplyRecord(Recovered, r), buffer_) = ReplayInto(Recovered, buffer_)
  <2>1. \E i \in 1..Len(buffer_) : r = buffer_[i] BY <1>2 DEF r
  <2> QED BY <1>2, <2>1, MovedHidden
<1>7. ReplayInto(ApplyRecord(Recovered, r), Append(s, r)) = ApplyRecord(Recovered, r)
  <2>1. ReplayInto(Recovered, s) = Recovered BY <1>1 DEF RecInv, s
  <2> QED BY <1>3, <2>1, MovedOnce
<1>8. SubSeq(buffer_', 1, written') = Append(s, r)
  BY <1>1, <1>4
<1> QED BY <1>1, <1>5, <1>6, <1>7, <1>8 DEF RecInv

\* The fsync that ends a flush.
LEMMA RecInvFlushSync == ASSUME TypeInv, RecInv, FlushSync PROVE RecInv'
<1>1. /\ map_' = Rest(map_, erasing) /\ buffer_' = <<>> /\ pc' = "idle" /\ pc = "flush"
      /\ Recovered' = Recovered
  BY DEF FlushSync, Rest, BufferAfterFlush, Recovered
<1>2. SubSeq(buffer_, 1, written) = buffer_
  BY SubSeqFull DEF FlushSync, Unwritten, TypeInv, MemOK
<1>3. map_' = Recovered
  BY <1>1, <1>2 DEF RecInv
<1>4. ReplayInto(Recovered, <<>>) = Recovered
  BY RecoveredType, ReplayEmpty DEF TypeInv
<1> QED BY <1>1, <1>3, <1>4 DEF RecInv

\* One line of the snapshot.
LEMMA RecInvLine ==
    ASSUME PlainStrings, TypeInv, KeysInv, RecInv, NEW k \in dumping, CheckpointLine(k)
    PROVE  RecInv'
<1>1. k \in Key /\ Len(k) = 1 /\ Len(map_[k]) = 1 /\ k \in Str /\ map_[k] \in Str /\ snap_file \in Str /\ k \in DOMAIN map_
  BY DEF TypeInv, MemOK, MapSet, DiskOK, KeysInv, PlainMap, PlainStrings
<1>2. PICK a \in Word, b \in Word : k = <<a>> /\ map_[k] = <<b>>
  BY <1>1, OneWord
<1>3. snap_file' = snap_file \o <<a, b>>
  <2>1. snap_file' = snap_file \o (k \o map_[k]) BY DEF CheckpointLine, SnapshotLine
  <2>2. k \o map_[k] = <<a, b>> BY <1>2, TwoWords
  <2> QED BY <2>1, <2>2
<1>4. PICK h \in Nat : Len(snap_file) = 2*h
  BY DEF KeysInv
<1>5. LoadFromFile(snap_file') = MapPut(LoadFromFile(snap_file), k, map_[k])
  BY <1>1, <1>2, <1>3, <1>4, LoadLine
<1>6. /\ pc = "dump" /\ pc' = "dump" /\ dumping' = dumping \ {k} /\ UNCHANGED <<map_, buffer_>>
  BY DEF CheckpointLine
<1>7. LoadFromFile(snap_file) = Rest(map_, dumping) /\ map_ = ReplayInto(map_, buffer_)
  BY <1>6 DEF RecInv
<1>8. MapPut(Rest(map_, dumping), k, map_[k]) = Rest(map_, dumping \ {k})
  <2>1. (DOMAIN map_ \ dumping) \cup {k} = DOMAIN map_ \ (dumping \ {k})
    BY <1>1
  <2> QED BY <1>1, <2>1 DEF MapPut, Rest
<1> QED BY <1>5, <1>6, <1>7, <1>8 DEF RecInv

\* The rotation: the snapshot holds the whole map.
LEMMA RecInvRotate == ASSUME TypeInv, RecInv, CheckpointRotate PROVE RecInv'
<1>1. /\ wal_file' = <<>> /\ pc = "dump" /\ pc' = "idle" /\ dumping = {}
      /\ UNCHANGED <<map_, buffer_, snap_file>>
  BY DEF CheckpointRotate
<1>2. LoadFromFile(snap_file) = map_ /\ map_ = ReplayInto(map_, buffer_) /\ map_ \in MapSet
  BY <1>1, RestNone DEF RecInv, TypeInv, MemOK
<1>3. Recovered' = map_
  BY <1>1, <1>2, ReplayEmpty DEF Recovered
<1> QED BY <1>1, <1>2, <1>3 DEF RecInv

\* Every step keeps the map and the disk together.
LEMMA RecInvNext ==
    ASSUME NoTorn, "dump" \notin Faults, DelsSucceed, PlainStrings,
           TypeInv, WalGood, KeysInv, RecInv, [Next]_vars
    PROVE  RecInv'
<1>1. ASSUME UNCHANGED <<map_, buffer_, wal_file, snap_file, dumping, written, erasing, pc>> PROVE RecInv'
  BY <1>1 DEF RecInv, Recovered
<1>2. CASE Open
  <2>1. map_' = Recovered /\ buffer_' = <<>> /\ Recovered' = Recovered /\ pc' = "idle"
    BY <1>2 DEF Open, Recovered, disk, TypeInv, PcOK
  <2>2. ReplayInto(Recovered, <<>>) = Recovered
    BY RecoveredType, ReplayEmpty DEF TypeInv
  <2> QED BY <2>1, <2>2 DEF RecInv
<1>3. ASSUME NEW k \in Key, NEW v \in Val, Put(k, v) PROVE RecInv'
  <2> DEFINE r == WriteRecord("Put", seq_ + 1, k, v)
  <2>1. seq_ + 1 \in Nat /\ v \in Str BY StoreAssumption DEF TypeInv, MemOK
  <2>2. r \in WalRecord BY <2>1, WriteRecordType
  <2>3. /\ NextWrite /\ Log(r) /\ pc' \in {"flush", "idle"} /\ erasing' = {}
        /\ map_' = ApplyRecord(map_, r)
    BY <1>3 DEF Put, NextWrite, ApplyRecord, WriteRecord, TypeInv, PcOK
  <2> HIDE DEF r
  <2>4. map_' \in MapSet BY <2>2, <2>3, ApplyRecordType DEF TypeInv, MemOK
  <2>5. Rest(map_', erasing') = map_' BY <2>3, <2>4, RestNone
  <2> QED BY <2>2, <2>3, <2>5, RecInvWrite DEF RecInv
<1>4. ASSUME NEW k \in Key, Del(k) PROVE RecInv'
  <2> DEFINE r == WriteRecord("Del", seq_ + 1, k, <<>>)
  <2>1. seq_ + 1 \in Nat /\ <<>> \in Str BY EmptySeq DEF TypeInv, MemOK, Str
  <2>2. r \in WalRecord /\ ApplyRecord(map_, r) = Rest(map_, {k})
    BY <2>1, WriteRecordType DEF ApplyRecord, WriteRecord, MapErase, Rest
  <2>3. /\ NextWrite /\ Log(r) /\ "del" \in Ops
        /\ \/ pc' = "flush" /\ erasing' = {k} /\ map_' = map_
           \/ map_' = Rest(map_, {k}) /\ pc' = "idle"
    BY <1>4 DEF Del, NextWrite, MapErase, Rest
  <2> HIDE DEF r
  <2> QED BY <2>2, <2>3, RecInvWrite DEF RecInv
<1>5. CASE FlushWal
  <2>1. /\ pc = "idle" /\ pc' = "flush" /\ UNCHANGED <<map_, buffer_, wal_file, snap_file, written, erasing>>
    BY <1>5 DEF FlushWal, memory, disk
  <2>2. written = 0 /\ erasing = {} /\ map_ \in MapSet /\ Recovered \in MapSet
    BY <2>1, RecoveredType DEF TypeInv, PcOK, MemOK
  <2>3. SubSeq(buffer_, 1, written) = <<>> BY <2>2, SubSeqEmpty
  <2>4. Rest(map_, erasing) = map_ BY <2>2, RestNone
  <2>5. ReplayInto(Recovered, <<>>) = Recovered BY <2>2, ReplayEmpty
  <2> QED BY <2>1, <2>2, <2>3, <2>4, <2>5 DEF RecInv, Recovered
<1>6. CASE FlushWrite
  BY <1>6, RecInvFlushWrite
<1>7. CASE FlushSync
  BY <1>7, RecInvFlushSync
<1>8. CASE FlushWriteFails \/ FlushSyncFails
  <2>1. /\ pc = "flush" /\ pc' = "idle" /\ UNCHANGED <<map_, buffer_, wal_file, snap_file>>
        /\ "write" \in Faults \/ "fsync" \in Faults
    BY <1>8 DEF FlushWriteFails, FlushSyncFails, FlushFails, BufferAfterFailure, NoTorn
  <2>2. erasing = {} /\ map_ \in MapSet
    BY <2>1 DEF RecInv, DelsSucceed, TypeInv, MemOK
  <2>3. map_ = ReplayInto(Recovered, buffer_)
    BY <2>1, <2>2, RestNone DEF RecInv
  <2> QED BY <2>1, <2>3 DEF RecInv, Recovered
<1>9. CASE CheckpointBegin
  <2>1. /\ pc = "idle" /\ pc' = "dump" /\ UNCHANGED <<map_, buffer_>> /\ snap_file' = <<>> /\ dumping' = DOMAIN map_
    BY <1>9 DEF CheckpointBegin
  <2>2. map_ = ReplayInto(map_, buffer_)
    BY <2>1, ReplayTwice DEF RecInv, TypeInv, MemOK
  <2>3. LoadFromFile(<<>>) = Rest(map_, DOMAIN map_)
    <3>1. DOMAIN map_ \ DOMAIN map_ = {} OBVIOUS
    <3> QED BY <3>1, LoadEmpty, Zenon DEF Rest, EmptyMap
  <2> QED BY <2>1, <2>2, <2>3 DEF RecInv
<1>10. CASE \E k \in dumping : CheckpointLine(k) \/ CheckpointLineFails(k)
  BY <1>10, RecInvLine DEF CheckpointLineFails
<1>11. CASE CheckpointRotate
  BY <1>11, RecInvRotate
<1>12. CASE \E kind \in {"kill", "power"} : Crash(kind)
  BY <1>12 DEF Crash, RecInv
<1>13. CASE UNCHANGED vars \/ FlushWalEmpty \/ FlushWalClosed \/ WriteDropped
              \/ \E n \in BatchSizes : SetGroupCommitEvery(n)
  BY <1>1, <1>13, Zenon DEF vars, FlushWalEmpty, FlushWalClosed, WriteDropped, NextWrite,
     SetGroupCommitEvery, memory, disk
<1> QED BY <1>2, <1>3, <1>4, <1>5, <1>6, <1>7, <1>8, <1>9, <1>10, <1>11, <1>12, <1>13, Zenon DEF Next

\* With strings of one word, whole writes and a snapshot stream that does not
\* fail, the files and the buffer always determine the live map: through any
\* crash, any number of checkpoints and restarts, a WAL that could not be
\* reopened, and (where no del is in flight) flushes that failed half way and
\* were tried again.
THEOREM DiskFollowsMap ==
    ASSUME NoTorn, "dump" \notin Faults, DelsSucceed, PlainStrings
    PROVE  Spec => []Recoverable
<1> DEFINE Inv == TypeInv /\ WalGood /\ KeysInv /\ RecInv
<1>1. Init => Inv
  BY TypeInvInit, WalGoodInit, KeysInvInit DEF Init, RecInv
<1>2. Inv /\ [Next]_vars => Inv'
  BY TypeInvNext, WalGoodNext, KeysInvNext, RecInvNext
<1>3. Inv => Recoverable
  BY DEF RecInv, Recoverable
<1> QED BY <1>1, <1>2, <1>3, PTL DEF Spec

-----------------------------------------------------------------------------
(* The timeline and the live map.                                           *)

Newest == timeline[Len(timeline)]

OnTimeline(m) == \E i \in 1..Len(timeline) : timeline[i] = m

\* While the store is open the timeline ends in the map a caller sees, or
\* will see once the running del has returned.
CurInv ==
    /\ pc # "closed" => Rest(map_, erasing) = Newest
    /\ erasing # {} => "del" \in Ops

\* The end of a timeline that was cut back or continued.
LEMMA NewestOf ==
    ASSUME NEW tl \in Seq(MapSet), NEW m
    PROVE  /\ Append(tl, m)[Len(Append(tl, m))] = m
           /\ (<<m>>)[Len(<<m>>)] = m
           /\ \A i \in 1..Len(tl) : i \in 1..Len(Append(tl, m)) /\ Append(tl, m)[i] = tl[i]
  OBVIOUS

\* put and del continue the timeline with the map they lead to.
LEMMA CurInvWrite ==
    ASSUME TypeInv, CurInv, NEW r \in WalRecord, Log(r), pc = "idle" PROVE Newest' = ApplyRecord(map_, r) /\ map_ = Newest
<1>1. timeline' = Append(timeline, ApplyRecord(map_, r)) /\ timeline \in Seq(MapSet)
  BY DEF Log, TypeInv, TimeOK
<1>2. Newest' = ApplyRecord(map_, r)
  BY <1>1, NewestOf DEF Newest
<1>3. erasing = {} /\ map_ \in MapSet
  BY DEF TypeInv, PcOK, MemOK
<1> QED BY <1>2, <1>3, RestNone DEF CurInv

\* Every step keeps the timeline ending in the live map.
LEMMA CurInvNext == ASSUME DelsSucceed, TypeInv, CurInv, [Next]_vars PROVE CurInv'
<1>1. ASSUME UNCHANGED <<map_, erasing, timeline>>, pc # "closed" \/ pc' = pc PROVE CurInv'
  BY <1>1 DEF CurInv, Newest
<1>2. CASE Open
  <2>1. /\ map_' = Recovered /\ timeline' = CutTo(timeline, Recovered) /\ erasing' = {}
        /\ Recovered \in MapSet
    BY <1>2, RecoveredType DEF Open, TypeInv, PcOK
  <2>2. Newest' = Recovered
    BY <2>1, CutToType DEF Newest, TypeInv, TimeOK
  <2> QED BY <2>1, <2>2, RestNone DEF CurInv
<1>3. ASSUME NEW k \in Key, NEW v \in Val, Put(k, v) PROVE CurInv'
  <2> DEFINE r == WriteRecord("Put", seq_ + 1, k, v)
  <2>1. seq_ + 1 \in Nat /\ v \in Str BY StoreAssumption DEF TypeInv, MemOK
  <2>2. r \in WalRecord BY <2>1, WriteRecordType
  <2>3. NextWrite /\ Log(r) /\ pc = "idle" /\ erasing' = {} /\ map_' = ApplyRecord(map_, r)
    BY <1>3 DEF Put, NextWrite, ApplyRecord, WriteRecord, TypeInv, PcOK
  <2> HIDE DEF r
  <2>4. map_' \in MapSet BY <2>2, <2>3, ApplyRecordType DEF TypeInv, MemOK
  <2>5. Rest(map_', erasing') = map_' BY <2>3, <2>4, RestNone
  <2> QED BY <2>2, <2>3, <2>5, CurInvWrite DEF CurInv
<1>4. ASSUME NEW k \in Key, Del(k) PROVE CurInv'
  <2> DEFINE r == WriteRecord("Del", seq_ + 1, k, <<>>)
  <2>1. seq_ + 1 \in Nat /\ <<>> \in Str BY EmptySeq DEF TypeInv, MemOK, Str
  <2>2. r \in WalRecord /\ ApplyRecord(map_, r) = Rest(map_, {k})
    BY <2>1, WriteRecordType DEF ApplyRecord, WriteRecord, MapErase, Rest
  <2>3. /\ NextWrite /\ Log(r) /\ "del" \in Ops /\ pc = "idle" /\ erasing = {}
        /\ \/ erasing' = {k} /\ map_' = map_
           \/ map_' = Rest(map_, {k}) /\ erasing' = erasing
    BY <1>4 DEF Del, NextWrite, MapErase, Rest, TypeInv, PcOK
  <2>4. Rest(map_, {k}) \in MapSet BY RestrictType DEF Rest, TypeInv, MemOK
  <2>5. Rest(Rest(map_, {k}), {}) = Rest(map_, {k}) BY <2>4, RestNone
  <2> HIDE DEF r
  <2> QED BY <2>2, <2>3, <2>5, CurInvWrite DEF CurInv
<1>5. CASE FlushSync
  <2>1. /\ map_' = Rest(map_, erasing) /\ erasing' = {} /\ timeline' = <<Newest>> /\ pc = "flush"
    BY <1>5 DEF FlushSync, Rest, Newest
  <2>2. Newest' = Newest BY <2>1, NewestOf DEF Newest, TypeInv, TimeOK
  <2>3. map_' \in MapSet BY <2>1, RestrictType DEF Rest, TypeInv, MemOK
  <2>4. Rest(map_', erasing') = map_' BY <2>1, <2>3, RestNone
  <2> QED BY <2>1, <2>2, <2>4 DEF CurInv
<1>6. CASE FlushWalEmpty \/ CheckpointRotate
  <2>1. UNCHANGED <<map_, erasing>> /\ pc # "closed" /\ (timeline' = <<Newest>> \/ timeline' = timeline)
    BY <1>6, Zenon DEF FlushWalEmpty, CheckpointRotate, Newest, memory
  <2>2. Newest' = Newest BY <2>1, NewestOf DEF Newest, TypeInv, TimeOK
  <2> QED BY <2>1, <2>2 DEF CurInv
<1>7. CASE FlushWriteFails \/ FlushSyncFails
  <2>1. /\ erasing' = {} /\ UNCHANGED <<map_, timeline>> /\ pc = "flush"
        /\ "write" \in Faults \/ "fsync" \in Faults
    BY <1>7 DEF FlushWriteFails, FlushSyncFails, FlushFails
  <2>2. erasing = {} BY <2>1 DEF CurInv, DelsSucceed
  <2> QED BY <2>1, <2>2 DEF CurInv, Newest
<1>8. CASE \E kind \in {"kill", "power"} : Crash(kind)
  BY <1>8 DEF Crash, CurInv
<1>9. CASE UNCHANGED vars \/ FlushWalClosed \/ WriteDropped \/ \E n \in BatchSizes : SetGroupCommitEvery(n)
  BY <1>1, <1>9, Zenon DEF vars, FlushWalClosed, WriteDropped, NextWrite, SetGroupCommitEvery
<1>10. CASE FlushWal \/ FlushWrite
  <2>1. UNCHANGED <<map_, erasing, timeline>> /\ pc # "closed"
    BY <1>10, Zenon DEF FlushWal, FlushWrite, memory
  <2> QED BY <1>1, <2>1
<1>11. CASE CheckpointBegin \/ \E k \in dumping : CheckpointLine(k) \/ CheckpointLineFails(k)
  <2>1. UNCHANGED <<map_, erasing, timeline>> /\ pc # "closed"
    BY <1>11, Zenon DEF CheckpointBegin, CheckpointLine, CheckpointLineFails
  <2> QED BY <1>1, <2>1
<1> QED BY <1>2, <1>3, <1>4, <1>5, <1>6, <1>7, <1>8, <1>9, <1>10, <1>11, Zenon DEF Next

\* A new store.
LEMMA CurInvInit == Init => CurInv
  BY DEF Init, CurInv

-----------------------------------------------------------------------------
(* The refinement: a step of the engine is a step of CrashSafeMap, provided *)
(* recovery finds its way back to the timeline.                             *)

\* CrashConsistent, with the domain of the timeline written out.
Consistent == pc = "closed" => OnTimeline(Recovered)

\* Consistent is CrashConsistent.
LEMMA ConsistentEquiv == ASSUME TypeInv PROVE Consistent <=> CrashConsistent
<1>1. DOMAIN timeline = 1..Len(timeline)
  BY DEF TypeInv, TimeOK
<1> QED BY <1>1 DEF Consistent, CrashConsistent, OnTimeline

\* One step.
LEMMA PromiseStep ==
    ASSUME TypeInv, CurInv, Consistent, [Next]_vars
    PROVE  [Promise!Next]_<<timeline, pc # "closed">>
<1>1. CASE Open
  <2>1. /\ pc = "closed" /\ pc' = "idle" /\ timeline' = CutTo(timeline, Recovered)
        /\ Recovered \in MapSet /\ timeline \in Seq(MapSet) /\ timeline # <<>>
    BY <1>1, RecoveredType DEF Open, TypeInv, TimeOK
  <2>2. \E i \in DOMAIN timeline : timeline[i] = Recovered
    BY <2>1, ConsistentEquiv DEF CrashConsistent
  <2>3. \E i \in 1..Len(timeline) : timeline' = SubSeq(timeline, 1, i)
    BY <2>1, <2>2, CutToType
  <2>4. Promise!Recover
    BY <2>1, <2>3 DEF Promise!Recover
  <2> QED BY <2>4 DEF Promise!Next
<1>2. ASSUME NEW k \in Key, NEW v \in Val, Put(k, v) PROVE Promise!Next
  <2> DEFINE r == WriteRecord("Put", seq_ + 1, k, v)
  <2>1. seq_ + 1 \in Nat /\ v \in Str BY StoreAssumption DEF TypeInv, MemOK
  <2>2. r \in WalRecord BY <2>1, WriteRecordType
  <2>3. Log(r) /\ pc = "idle" /\ pc' \in {"idle", "flush"} /\ timeline' = Append(timeline, MapPut(map_, k, v))
    BY <1>2 DEF Put, NextWrite, Log, ApplyRecord, WriteRecord
  <2> HIDE DEF r
  <2>4. map_ = timeline[Len(timeline)]
    BY <2>2, <2>3, CurInvWrite DEF Newest
  <2>5. Promise!Put(k, v)
    BY <2>3, <2>4 DEF Promise!Put, Promise!Current, MapPut, Promise!MapPut
  <2> QED BY <2>5 DEF Promise!Next
<1>3. ASSUME NEW k \in Key, Del(k) PROVE Promise!Next
  <2> DEFINE r == WriteRecord("Del", seq_ + 1, k, <<>>)
  <2>1. seq_ + 1 \in Nat /\ <<>> \in Str BY EmptySeq DEF TypeInv, MemOK, Str
  <2>2. r \in WalRecord BY <2>1, WriteRecordType
  <2>3. Log(r) /\ pc = "idle" /\ pc' \in {"idle", "flush"} /\ timeline' = Append(timeline, MapErase(map_, k))
    BY <1>3 DEF Del, NextWrite, Log, ApplyRecord, WriteRecord
  <2> HIDE DEF r
  <2>4. map_ = timeline[Len(timeline)]
    BY <2>2, <2>3, CurInvWrite DEF Newest
  <2>5. Promise!Del(k)
    BY <2>3, <2>4 DEF Promise!Del, Promise!Current, MapErase, Promise!MapErase
  <2> QED BY <2>5 DEF Promise!Next
<1>4. ASSUME timeline' = <<timeline[Len(timeline)]>>, pc # "closed", pc' # "closed" PROVE Promise!Next
  BY <1>4 DEF Promise!Next, Promise!Boundary, Promise!Current
<1>5. ASSUME timeline' = timeline, pc # "closed", pc' # "closed"
      PROVE  UNCHANGED <<timeline, pc # "closed">>
  BY <1>5
<1>6. CASE FlushSync \/ FlushWalEmpty
  BY <1>4, <1>6 DEF FlushSync, FlushWalEmpty
<1>7. CASE CheckpointRotate
  <2>1. pc # "closed" /\ pc' # "closed" /\ (timeline' = <<timeline[Len(timeline)]>> \/ timeline' = timeline)
    BY <1>7, Zenon DEF CheckpointRotate
  <2> QED BY <1>4, <1>5, <2>1
<1>8. CASE \E kind \in {"kill", "power"} : Crash(kind)
  <2>1. pc # "closed" /\ pc' = "closed" /\ timeline' = timeline
    BY <1>8, StoreAssumption DEF Crash
  <2>2. Promise!Crash
    BY <2>1 DEF Promise!Crash
  <2> QED BY <2>2 DEF Promise!Next
<1>9. CASE WriteDropped \/ FlushWal \/ FlushWalClosed \/ \E n \in BatchSizes : SetGroupCommitEvery(n)
  <2>1. timeline' = timeline /\ pc = "idle" /\ pc' \in {"idle", "flush"}
    BY <1>9, Zenon DEF WriteDropped, NextWrite, FlushWal, FlushWalClosed, SetGroupCommitEvery, vars
  <2> QED BY <1>5, <2>1
<1>10. CASE FlushWrite \/ FlushWriteFails \/ FlushSyncFails
  <2>1. timeline' = timeline /\ pc = "flush" /\ pc' \in {"idle", "flush"}
    BY <1>10, Zenon DEF FlushWrite, FlushWriteFails, FlushSyncFails, FlushFails
  <2> QED BY <1>5, <2>1
<1>11. CASE CheckpointBegin \/ \E k \in dumping : CheckpointLine(k) \/ CheckpointLineFails(k)
  <2>1. timeline' = timeline /\ pc \in {"idle", "dump"} /\ pc' = "dump"
    BY <1>11, Zenon DEF CheckpointBegin, CheckpointLine, CheckpointLineFails
  <2> QED BY <1>5, <2>1
<1>12. CASE UNCHANGED vars
  BY <1>12 DEF vars
<1> QED BY <1>1, <1>2, <1>3, <1>6, <1>7, <1>8, <1>9, <1>10, <1>11, <1>12, Zenon DEF Next

\* The initial states of the engine are initial states of the promise.
LEMMA PromiseInit == Init => Promise!Init
  BY DEF Init, Promise!Init, EmptyMap, Promise!EmptyMap

-----------------------------------------------------------------------------
(* A process that is only ever killed between operations.                   *)

CleanKills == Faults \subseteq {"kill", "reopen"} /\ CrashPoints \subseteq {"idle"}

\* Between operations the disk holds a map of the timeline.
DiskOnTime == pc \in {"idle", "closed"} => OnTimeline(Recovered)

\* The end of the timeline is on it.
LEMMA NewestOnTimeline == ASSUME TypeInv PROVE OnTimeline(Newest)
<1>1. Len(timeline) \in 1..Len(timeline)
  BY DEF TypeInv, TimeOK
<1> QED BY <1>1 DEF OnTimeline, Newest

\* When the disk alone determines the live map, it is on the timeline.
LEMMA SettledOnTime ==
    ASSUME TypeInv, RecInv, CurInv, pc = "idle", buffer_ = <<>> PROVE Recovered = Newest
<1>1. erasing = {} /\ map_ \in MapSet /\ Recovered \in MapSet
  BY RecoveredType DEF TypeInv, PcOK, MemOK
<1>2. map_ = Newest
  BY <1>1, RestNone DEF CurInv
<1>3. map_ = Recovered
  BY <1>1, ReplayEmpty DEF RecInv
<1> QED BY <1>2, <1>3

\* Every step keeps the disk on the timeline.
LEMMA DiskOnTimeNext ==
    ASSUME CleanKills, DelsSucceed, TypeInv, TypeInv', RecInv, RecInv', CurInv, CurInv', DiskOnTime, [Next]_vars
    PROVE  DiskOnTime'
<1>1. ASSUME UNCHANGED <<wal_file, snap_file, timeline>>, pc' = pc \/ pc = "idle" PROVE DiskOnTime'
  BY <1>1, StoreAssumption DEF DiskOnTime, OnTimeline, Recovered, TypeInv, MemOK, PcNames
<1>2. ASSUME UNCHANGED <<wal_file, snap_file>>, pc = "idle", timeline' = Append(timeline, timeline'[Len(timeline')])
      PROVE  DiskOnTime'
  <2>1. OnTimeline(Recovered) /\ Recovered' = Recovered /\ timeline \in Seq(MapSet)
    BY <1>2 DEF DiskOnTime, Recovered, TypeInv, TimeOK
  <2>2. OnTimeline(Recovered)'
    BY <1>2, <2>1, NewestOf DEF OnTimeline
  <2> QED BY <2>1, <2>2 DEF DiskOnTime
<1>3. CASE Open
  <2>1. /\ timeline' = CutTo(timeline, Recovered) /\ Recovered \in MapSet /\ Recovered' = Recovered
        /\ timeline \in Seq(MapSet) /\ timeline # <<>>
    BY <1>3, RecoveredType DEF Open, TypeInv, TimeOK, Recovered, disk
  <2>2. timeline'[Len(timeline')] = Recovered /\ timeline' \in Seq(MapSet) /\ timeline' # <<>>
    BY <2>1, CutToType
  <2>3. Len(timeline') \in 1..Len(timeline')
    BY <2>2
  <2> QED BY <2>1, <2>2, <2>3 DEF DiskOnTime, OnTimeline
<1>4. ASSUME NEW r, Log(r), NextWrite PROVE DiskOnTime'
  <2>1. timeline' = Append(timeline, ApplyRecord(map_, r)) /\ timeline \in Seq(MapSet)
        /\ UNCHANGED <<wal_file, snap_file>> /\ pc = "idle"
    BY <1>4 DEF Log, NextWrite, TypeInv, TimeOK, disk
  <2>2. timeline' = Append(timeline, timeline'[Len(timeline')])
    BY <2>1, NewestOf
  <2> QED BY <1>2, <2>1, <2>2
<1>5. CASE (\E k \in Key, v \in Val : Put(k, v)) \/ (\E k \in Key : Del(k))
  BY <1>4, <1>5 DEF Put, Del
<1>6. CASE FlushSync
  <2>1. pc = "flush" /\ pc' = "idle" /\ Recovered' = Recovered /\ timeline' = <<Newest>>
    BY <1>6 DEF FlushSync, Recovered, Newest
  <2>2. SubSeq(buffer_, 1, written) = buffer_
    BY <1>6, SubSeqFull DEF FlushSync, Unwritten, TypeInv, MemOK
  <2>3. Recovered = Newest
    BY <2>1, <2>2 DEF RecInv, CurInv
  <2>4. timeline'[1] = Newest /\ 1 \in 1..Len(timeline')
    BY <2>1
  <2> QED BY <2>1, <2>3, <2>4 DEF DiskOnTime, OnTimeline
<1>7. CASE FlushWalEmpty
  <2>1. pc = "idle" /\ buffer_ = <<>> /\ Recovered' = Recovered /\ timeline' = <<Newest>>
    BY <1>7 DEF FlushWalEmpty, Recovered, Newest, disk
  <2>2. Recovered = Newest
    BY <2>1, SettledOnTime
  <2>3. timeline'[1] = Newest /\ 1 \in 1..Len(timeline')
    BY <2>1
  <2> QED BY <2>1, <2>2, <2>3 DEF DiskOnTime, OnTimeline
<1>8. CASE CheckpointRotate
  <2>1. /\ wal_file' = <<>> /\ pc = "dump" /\ dumping = {} /\ UNCHANGED <<map_, snap_file>>
    BY <1>8 DEF CheckpointRotate
  <2>2. LoadFromFile(snap_file) = map_ /\ map_ \in MapSet /\ erasing = {}
    BY <2>1, RestNone DEF RecInv, TypeInv, MemOK, PcOK
  <2>3. Recovered' = map_
    BY <2>1, <2>2, ReplayEmpty DEF Recovered
  <2>4. map_ = Newest
    BY <2>1, <2>2, RestNone DEF CurInv
  <2>5. timeline' = <<Newest>> \/ timeline' = timeline
    BY <1>8, Zenon DEF CheckpointRotate, Newest
  <2>6. Len(timeline') \in 1..Len(timeline') /\ timeline'[Len(timeline')] = Newest
    BY <2>5, NewestOf DEF TypeInv, TimeOK, Newest
  <2> QED BY <2>3, <2>4, <2>6 DEF DiskOnTime, OnTimeline
<1>9. ASSUME NEW kind \in {"kill", "power"}, Crash(kind) PROVE DiskOnTime'
  <2>1. kind = "kill" /\ pc = "idle" /\ timeline' = timeline
    BY <1>9 DEF CleanKills, Crash
  <2>2. snap_file' = snap_file
    BY <1>9, <2>1 DEF Crash, SnapAfter
  <2>3. wal_file' = SubSeq(wal_file, 1, Len(wal_file))
    BY <1>9, <2>1, WalAfterShape DEF CleanKills, Crash, TypeInv
  <2>4. wal_file' = wal_file
    BY <2>3, SubSeqFull DEF TypeInv, DiskOK
  <2> QED BY <2>1, <2>2, <2>4 DEF DiskOnTime, OnTimeline, Recovered
<1>10. CASE UNCHANGED vars \/ FlushWalClosed \/ WriteDropped \/ \E n \in BatchSizes : SetGroupCommitEvery(n)
  BY <1>1, <1>10, Zenon DEF vars, FlushWalClosed, WriteDropped, NextWrite, SetGroupCommitEvery, disk
<1>11. CASE FlushWal \/ FlushWrite
  BY <1>11 DEF FlushWal, FlushWrite, DiskOnTime
<1>12. CASE FlushWriteFails \/ FlushSyncFails
  BY <1>12 DEF FlushWriteFails, FlushSyncFails, CleanKills
<1>13. CASE CheckpointBegin \/ \E k \in dumping : CheckpointLine(k) \/ CheckpointLineFails(k)
  BY <1>13 DEF CheckpointBegin, CheckpointLine, CheckpointLineFails, DiskOnTime
<1> QED BY <1>3, <1>5, <1>6, <1>7, <1>8, <1>9, <1>10, <1>11, <1>12, <1>13, Zenon DEF Next

\* With checkpoints and a WAL that may fail to reopen, a store that is killed
\* between operations keeps its promise: each step is a write, a durability
\* boundary, a crash or a recovery of CrashSafeMap, and recovery returns to a
\* map of the timeline.
THEOREM CheckpointsKeepPromise ==
    ASSUME CleanKills, PlainStrings
    PROVE  Spec => []CrashConsistent /\ ImplementsPromise
<1> DEFINE Inv == TypeInv /\ WalGood /\ KeysInv /\ RecInv /\ CurInv /\ DiskOnTime
<1>1. NoTorn /\ "dump" \notin Faults /\ DelsSucceed
  BY DEF CleanKills, NoTorn, DelsSucceed
<1>2. Init => Inv
  <2> SUFFICES ASSUME Init PROVE Inv OBVIOUS
  <2>1. TypeInv /\ WalGood /\ KeysInv /\ CurInv /\ RecInv
    BY TypeInvInit, WalGoodInit, KeysInvInit, CurInvInit DEF Init, RecInv
  <2>2. Recovered = EmptyMap
    BY LoadEmpty, ReplayEmpty, EmptyMapType DEF Init, Recovered
  <2>3. Newest = EmptyMap
    BY DEF Init, Newest
  <2> QED BY <2>1, <2>2, <2>3, NewestOnTimeline DEF DiskOnTime
<1>3. Inv /\ [Next]_vars => Inv'
  <2> SUFFICES ASSUME Inv, [Next]_vars PROVE Inv' OBVIOUS
  <2>1. TypeInv' /\ WalGood' /\ KeysInv' /\ RecInv' /\ CurInv'
    BY <1>1, TypeInvNext, WalGoodNext, KeysInvNext, RecInvNext, CurInvNext
  <2>2. DiskOnTime'
    BY <1>1, <2>1, DiskOnTimeNext
  <2> QED BY <2>1, <2>2
<1>4. Inv => CrashConsistent /\ Consistent
  BY ConsistentEquiv DEF DiskOnTime, Consistent
<1>5. Inv /\ [Next]_vars => [Promise!Next]_<<timeline, pc # "closed">>
  BY <1>4, PromiseStep
<1> QED BY <1>2, <1>3, <1>4, <1>5, PromiseInit, PTL DEF Spec, ImplementsPromise, Promise!Spec

-----------------------------------------------------------------------------
(* A store without checkpoints, crashing at any system call.                *)

LogOnly == "checkpoint" \notin Ops /\ "write" \notin Faults /\ "fsync" \notin Faults

\* Crashes that can be repeated: whole records, and always the same kind.
\* A torn record hides all that is appended after it, and a flush after a
\* kill takes records for durable that only a kill preserves.
OneKind == "torn" \notin Faults /\ ~({"kill", "power"} \subseteq Faults)

\* The log has not been through a crash of the other sort.
LiveLog == crashes = 0 \/ OneKind

\* The records no crash can take away, and the map after n records.
Floor == IF "power" \in Faults THEN synced ELSE Len(wal_file)
LogMap(l, n) == ReplayInto(EmptyMap, SubSeq(l, 1, n))

\* Every point of the log a crash can cut back to is on the timeline.
PointsOnTime == \A n \in Floor..Len(TheLog) : OnTimeline(LogMap(TheLog, n))

\* The timeline ends in the map of the whole log, and what a settled store
\* has written is safe.
LogInv ==
    /\ snap_file = <<>> /\ pc # "dump"
    /\ LiveLog =>
         /\ WalGood
         /\ PointsOnTime
         /\ pc # "closed" => Newest = LogMap(TheLog, Len(TheLog))
         /\ pc # "flush" /\ buffer_ = <<>> => Floor = Len(wal_file)
    /\ Consistent

\* The points of a log that a record is added to.
LEMMA LogMapAppend ==
    ASSUME NEW l \in Seq(WalRecord), NEW r \in WalRecord
    PROVE  /\ Len(Append(l, r)) = Len(l) + 1
           /\ \A n \in 0..Len(l) : LogMap(Append(l, r), n) = LogMap(l, n)
           /\ LogMap(Append(l, r), Len(l) + 1) = ApplyRecord(LogMap(l, Len(l)), r)
<1> DEFINE g == Append(l, r)
<1>1. /\ g \in Seq(WalRecord) /\ Len(g) = Len(l) + 1 /\ Len(l) \in Nat
      /\ \A i \in 1..Len(l) : g[i] = l[i]
  OBVIOUS
<1>2. ReplayInto(EmptyMap, g) = ApplyRecord(ReplayInto(EmptyMap, l), r)
  BY ReplayAppend
<1> HIDE DEF g
<1>3. ASSUME NEW n \in 0..Len(l) PROVE SubSeq(g, 1, n) = SubSeq(l, 1, n)
  <2> DEFINE a == SubSeq(g, 1, n)
             b == SubSeq(l, 1, n)
  <2>1. a \in Seq(WalRecord) /\ Len(a) = n /\ \A i \in 1..n : a[i] = g[i] BY <1>1
  <2>2. b \in Seq(WalRecord) /\ Len(b) = n /\ \A i \in 1..n : b[i] = l[i] BY <1>1
  <2> HIDE DEF a, b
  <2>3. \A i \in 1..n : a[i] = b[i] BY <1>1, <2>1, <2>2
  <2>4. a = b BY <2>1, <2>2, <2>3, SeqEqual
  <2> QED BY <2>4 DEF a, b
<1>4. SubSeq(g, 1, Len(l) + 1) = g /\ SubSeq(l, 1, Len(l)) = l
  BY <1>1, SubSeqFull
<1>5. \A n \in 0..Len(l) : LogMap(g, n) = LogMap(l, n)
  BY <1>3 DEF LogMap
<1>6. LogMap(g, Len(l) + 1) = ApplyRecord(LogMap(l, Len(l)), r)
  BY <1>2, <1>4 DEF LogMap
<1> QED BY <1>1, <1>5, <1>6 DEF g

\* A point within the file is a point of the file.
LEMMA LogMapFile ==
    ASSUME TypeInv, WalGood, NEW n \in 0..Len(wal_file)
    PROVE  /\ TheLog \in Seq(WalRecord) /\ n <= Len(TheLog)
           /\ LogMap(TheLog, n) = ReplayInto(EmptyMap, SubSeq(wal_file, 1, n))
<1>1. /\ TheLog \in Seq(WalRecord) /\ n \in 0..Len(TheLog) /\ wal_file \in Seq(WalRecord)
      /\ \A i \in 1..Len(wal_file) : TheLog[i] = wal_file[i]
  <2>1. /\ TheLog \in Seq(WalRecord) /\ Len(TheLog) = Len(wal_file) + (Len(buffer_) - written)
        /\ \A i \in 1..Len(wal_file) : TheLog[i] = wal_file[i]
    BY TheLogShape DEF IsLog
  <2>2. Len(wal_file) \in Nat /\ Len(buffer_) - written \in Nat /\ wal_file \in Seq(WalRecord)
    BY DEF TypeInv, MemOK, WalGood
  <2> QED BY <2>1, <2>2
<1>2. SubSeq(TheLog, 1, n) = SubSeq(wal_file, 1, n)
  <2> DEFINE a == SubSeq(TheLog, 1, n)
             b == SubSeq(wal_file, 1, n)
  <2>1. a \in Seq(WalRecord) /\ Len(a) = n /\ \A i \in 1..n : a[i] = TheLog[i] BY <1>1
  <2>2. b \in Seq(WalRecord) /\ Len(b) = n /\ \A i \in 1..n : b[i] = wal_file[i] BY <1>1
  <2> HIDE DEF a, b
  <2>3. \A i \in 1..n : a[i] = b[i] BY <1>1, <2>1, <2>2
  <2>4. a = b BY <2>1, <2>2, <2>3, SeqEqual
  <2> QED BY <2>4 DEF a, b
<1>3. n <= Len(TheLog)
  BY <1>1
<1>4. LogMap(TheLog, n) = ReplayInto(EmptyMap, SubSeq(wal_file, 1, n))
  BY <1>2, Zenon DEF LogMap
<1> QED BY <1>1, <1>3, <1>4

\* What recovery returns when there is no snapshot.
LEMMA RecoveredLog ==
    ASSUME TypeInv, WalGood, snap_file = <<>>, TheLog = wal_file
    PROVE  Recovered = LogMap(TheLog, Len(TheLog))
<1>1. SubSeq(wal_file, 1, Len(wal_file)) = wal_file
  BY SubSeqFull DEF WalGood
<1> QED BY <1>1, LoadEmpty DEF Recovered, LogMap

\* The points of the log left to look at once everything is safe.
LEMMA OnlyPoint ==
    ASSUME NEW a \in Nat, NEW n \in a..a PROVE n = a
  OBVIOUS

\* put and del.
LEMMA LogInvWrite ==
    ASSUME TypeInv, CurInv, LogInv, NextWrite, NEW r \in WalRecord, Log(r), pc' \in {"idle", "flush"}
    PROVE  LogInv'
<1>1. /\ pc = "idle" /\ UNCHANGED <<wal_file, snap_file, synced, crashes, written>>
      /\ timeline' = Append(timeline, ApplyRecord(map_, r)) /\ buffer_' = Append(buffer_, r)
      /\ timeline \in Seq(MapSet) /\ buffer_ \in Seq(WalRecord)
  BY DEF NextWrite, Log, disk, TypeInv, TimeOK, MemOK
<1>2. map_ = Newest /\ Newest' = ApplyRecord(Newest, r)
  BY <1>1, CurInvWrite
<1>3. ASSUME LiveLog
      PROVE  PointsOnTime' /\ Newest' = LogMap(TheLog', Len(TheLog'))
  <2>1. /\ WalGood /\ Newest = LogMap(TheLog, Len(TheLog))
        /\ \A n \in Floor..Len(TheLog) : OnTimeline(LogMap(TheLog, n))
    BY <1>1, <1>3 DEF LogInv, PointsOnTime
  <2>2. TheLog' = Append(TheLog, r)
    BY <1>1, <2>1, LogPut
  <2>3. TheLog \in Seq(WalRecord) /\ Len(TheLog) \in Nat /\ Floor \in Nat
    BY <2>1, TheLogShape DEF IsLog, Floor, TypeInv, DiskOK
  <2>4. /\ Len(TheLog') = Len(TheLog) + 1
        /\ \A n \in 0..Len(TheLog) : LogMap(TheLog', n) = LogMap(TheLog, n)
        /\ LogMap(TheLog', Len(TheLog) + 1) = ApplyRecord(LogMap(TheLog, Len(TheLog)), r)
    BY <2>2, <2>3, LogMapAppend
  <2>5. Newest' = LogMap(TheLog', Len(TheLog'))
    BY <1>2, <2>1, <2>4
  <2>6. ASSUME NEW m, OnTimeline(m) PROVE \E i \in 1..Len(timeline') : timeline'[i] = m
    BY <1>1, <2>6, NewestOf DEF OnTimeline
  <2>7. \E i \in 1..Len(timeline') : timeline'[i] = Newest'
    <3>1. Len(timeline') \in 1..Len(timeline') BY <1>1
    <3> QED BY <3>1 DEF Newest
  <2>8. ASSUME NEW n \in Floor..Len(TheLog')
        PROVE  \E i \in 1..Len(timeline') : timeline'[i] = LogMap(TheLog', n)
    <3>1. CASE n <= Len(TheLog)
      <4>1. n \in 0..Len(TheLog) /\ n \in Floor..Len(TheLog) BY <2>3, <3>1
      <4> QED BY <2>1, <2>4, <2>6, <4>1
    <3>2. CASE n > Len(TheLog)
      <4>1. n = Len(TheLog') BY <2>3, <2>4, <3>2
      <4> QED BY <2>5, <2>7, <4>1
    <3> QED BY <2>3, <3>1, <3>2
  <2>9. Floor' = Floor
    BY <1>1 DEF Floor
  <2> QED BY <2>5, <2>8, <2>9 DEF OnTimeline, PointsOnTime
<1>4. buffer_' # <<>>
  BY <1>1
<1>5. LiveLog' <=> LiveLog
  BY <1>1 DEF LiveLog
<1>6. Floor' = Floor /\ (WalGood' <=> WalGood)
  BY <1>1 DEF Floor, WalGood
<1> QED BY <1>1, <1>3, <1>4, <1>5, <1>6 DEF LogInv, Consistent

\* One record written: the points a kill can cut back to become fewer.
LEMMA LogInvFlushWrite == ASSUME TypeInv, LogInv, FlushWrite PROVE LogInv'
<1>1. /\ pc = "flush" /\ UNCHANGED <<pc, snap_file, synced, timeline, buffer_, crashes>>
      /\ wal_file' = Append(wal_file, NextRecord)
  BY DEF FlushWrite, counters
<1>2. ASSUME LiveLog
      PROVE  WalGood' /\ PointsOnTime' /\ Newest' = LogMap(TheLog', Len(TheLog'))
  <2>1. TheLog' = TheLog /\ WalGood' /\ WalGood
    BY <1>2, LogFlushWrite DEF LogInv
  <2>2. Floor \in Nat /\ Floor' \in Nat /\ Floor <= Floor' /\ Len(TheLog) \in Nat
    <3>1. NextRecord \in WalRecord
      BY DEF FlushWrite, Unwritten, NextRecord, TypeInv, MemOK
    <3>2. Len(wal_file') = Len(wal_file) + 1 /\ Len(wal_file) \in Nat /\ synced \in Nat
      BY <1>1, <2>1, <3>1 DEF WalGood, TypeInv, DiskOK
    <3>3. Len(TheLog) \in Nat
      BY <2>1, TheLogShape DEF IsLog
    <3> QED BY <1>1, <3>2, <3>3 DEF Floor
  <2>3. \A n \in Floor'..Len(TheLog) : n \in Floor..Len(TheLog)
    BY <2>2
  <2>4. \A n \in Floor'..Len(TheLog) : OnTimeline(LogMap(TheLog, n))
    BY <1>2, <2>3 DEF LogInv, PointsOnTime
  <2>5. Newest = LogMap(TheLog, Len(TheLog)) /\ Newest' = Newest
    BY <1>1, <1>2 DEF LogInv, Newest
  <2> QED BY <1>1, <2>1, <2>4, <2>5 DEF OnTimeline, PointsOnTime
<1>3. LiveLog' <=> LiveLog
  BY <1>1 DEF LiveLog
<1> QED BY <1>1, <1>2, <1>3 DEF LogInv, Consistent

\* A durability boundary: the fsync that ends a flush, or a flush with
\* nothing to write.
LEMMA LogInvBoundary == ASSUME TypeInv, LogInv, FlushSync \/ FlushWalEmpty PROVE LogInv'
<1>1. /\ timeline' = <<Newest>> /\ pc' = "idle" /\ pc # "closed" /\ UNCHANGED <<wal_file, snap_file, crashes>>
  BY DEF FlushSync, FlushWalEmpty, Newest, disk, counters
<1>2. Newest' = Newest /\ 1 \in 1..Len(timeline') /\ timeline'[1] = Newest
  BY <1>1 DEF Newest
<1>3. ASSUME LiveLog PROVE Floor' = Len(wal_file) /\ TheLog' = TheLog /\ TheLog = wal_file /\ WalGood
  <2>1. WalGood BY <1>3 DEF LogInv
  <2>2. CASE FlushSync
    <3>1. TheLog = wal_file /\ TheLog' = wal_file' BY <2>1, <2>2, LogFlushSync
    <3>2. Floor' = Len(wal_file) BY <1>1, <2>2 DEF FlushSync, SyncedByFlush, Floor
    <3> QED BY <1>1, <2>1, <3>1, <3>2
  <2>3. CASE FlushWalEmpty
    <3>1. /\ pc = "idle" /\ buffer_ = <<>> /\ UNCHANGED <<buffer_, written, synced>>
      BY <2>3 DEF FlushWalEmpty, memory, disk
    <3>2. written = Len(buffer_) /\ buffer_ \in Seq(WalRecord)
      BY <3>1, EmptySeq DEF TypeInv, PcOK, MemOK
    <3>3. TheLog = wal_file BY <2>1, <3>2, LogWritten DEF TheLog, WalGood
    <3>4. Floor = Len(wal_file) BY <1>3, <3>1 DEF LogInv
    <3> QED BY <1>1, <2>1, <3>1, <3>3, <3>4 DEF TheLog, Floor
  <2> QED BY <2>2, <2>3
<1>4. ASSUME LiveLog
      PROVE  PointsOnTime' /\ Newest' = LogMap(TheLog', Len(TheLog'))
  <2>1. Newest = LogMap(TheLog, Len(TheLog))
    BY <1>1, <1>4 DEF LogInv
  <2>2. Len(TheLog) \in Nat
    BY <1>3, <1>4 DEF WalGood
  <2>3. \A n \in Floor'..Len(TheLog') : n = Len(TheLog)
    BY <1>3, <1>4, <2>2, OnlyPoint
  <2> QED BY <1>2, <1>3, <1>4, <2>1, <2>3 DEF OnTimeline, PointsOnTime
<1>5. LiveLog' <=> LiveLog
  BY <1>1 DEF LiveLog
<1>6. LiveLog => WalGood' /\ Floor' = Len(wal_file')
  BY <1>1, <1>3 DEF WalGood
<1> QED BY <1>1, <1>4, <1>5, <1>6 DEF LogInv, Consistent

\* open.
LEMMA LogInvOpen == ASSUME TypeInv, LogInv, Open PROVE LogInv'
<1>1. /\ pc = "closed" /\ pc' = "idle" /\ timeline' = CutTo(timeline, Recovered) /\ Recovered \in MapSet
      /\ UNCHANGED <<wal_file, snap_file, synced, crashes, buffer_, written>>
      /\ timeline \in Seq(MapSet) /\ timeline # <<>>
  BY RecoveredType DEF Open, TypeInv, TimeOK, disk, counters
<1>2. Newest' = Recovered /\ Len(timeline') \in 1..Len(timeline')
  <2>1. timeline' \in Seq(MapSet) /\ timeline' # <<>> /\ timeline'[Len(timeline')] = Recovered
    BY <1>1, CutToType
  <2> QED BY <2>1 DEF Newest
<1>3. ASSUME LiveLog PROVE WalGood /\ TheLog' = TheLog /\ TheLog = wal_file /\ Floor' = Len(wal_file)
  <2>1. WalGood BY <1>3 DEF LogInv
  <2>2. written = Len(buffer_) /\ buffer_ \in Seq(WalRecord) /\ buffer_ = <<>>
    BY <1>1, EmptySeq DEF TypeInv, PcOK, MemOK
  <2>3. TheLog = wal_file BY <2>1, <2>2, LogWritten DEF TheLog, WalGood
  <2>4. Floor = Len(wal_file) BY <1>1, <1>3, <2>2 DEF LogInv
  <2> QED BY <1>1, <2>1, <2>3, <2>4 DEF TheLog, Floor
<1>4. ASSUME LiveLog
      PROVE  PointsOnTime' /\ Newest' = LogMap(TheLog', Len(TheLog'))
  <2>1. Newest' = LogMap(TheLog', Len(TheLog'))
    BY <1>2, <1>3, <1>4, RecoveredLog DEF LogInv
  <2>2. Len(TheLog') \in Nat
    BY <1>3, <1>4 DEF WalGood
  <2>3. \A n \in Floor'..Len(TheLog') : n = Len(TheLog')
    BY <1>3, <1>4, <2>2, OnlyPoint
  <2> QED BY <1>2, <2>1, <2>3 DEF OnTimeline, Newest, PointsOnTime
<1>5. LiveLog' <=> LiveLog
  BY <1>1 DEF LiveLog
<1>6. LiveLog => WalGood' /\ Floor' = Len(wal_file')
  BY <1>1, <1>3 DEF WalGood
<1> QED BY <1>1, <1>4, <1>5, <1>6 DEF LogInv, Consistent

\* A crash at any system call.
LEMMA LogInvCrash ==
    ASSUME OneKind \/ MaxCrashes <= 1, TypeInv, LogInv, NEW kind \in {"kill", "power"}, Crash(kind)
    PROVE  LogInv'
<1>1. /\ pc' = "closed" /\ timeline' = timeline /\ crashes' = crashes + 1 /\ kind \in Faults
      /\ buffer_' = <<>> /\ written' = 0 /\ crashes < MaxCrashes /\ pc # "dump"
      /\ synced' = (IF kind = "power" THEN Len(wal_file') ELSE synced)
  BY DEF Crash, LogInv
<1>2. LiveLog /\ WalGood
  BY <1>1, StoreAssumption DEF LiveLog, LogInv, TypeInv, CountOK
<1>3. snap_file' = <<>>
  <2>1. snap_file = <<>> BY DEF LogInv
  <2>2. snap_file' \in PartsOf(snap_file) \/ snap_file' = snap_file
    BY DEF Crash, SnapAfter
  <2>3. \A g \in PartsOf(<<>>) : g = <<>>
    <3>1. Len(<<>>) = 0 /\ SubSeq(<<>>, 1, 0) = <<>> BY SubSeqEmpty
    <3>2. \A n \in 0..0 : n = 0 OBVIOUS
    <3>3. 0..(0 - 1) = {} OBVIOUS
    <3> QED BY <3>1, <3>2, <3>3 DEF PartsOf
  <2> QED BY <2>1, <2>2, <2>3
<1>4. PICK n \in synced..Len(wal_file) :
        /\ kind = "kill" => n = Len(wal_file)
        /\ \/ wal_file' = SubSeq(wal_file, 1, n)
           \/ "torn" \in Faults /\ wal_file' = Append(SubSeq(wal_file, 1, n), TornRecord)
  BY WalAfterShape DEF Crash, TypeInv
<1>5. n \in 0..Len(wal_file) /\ n \in Floor..Len(TheLog)
  <2>1. n \in 0..Len(wal_file) BY DEF TypeInv, DiskOK
  <2>2. n <= Len(TheLog) /\ TheLog \in Seq(WalRecord) BY <1>2, <2>1, LogMapFile
  <2>3. Floor \in Nat /\ Floor <= n
    BY <1>1, <1>4, <2>1 DEF Floor, TypeInv, DiskOK
  <2> QED BY <2>1, <2>2, <2>3
<1> DEFINE s == SubSeq(wal_file, 1, n)
<1>6. s \in Seq(WalRecord)
  BY <1>2, <1>5 DEF WalGood
<1>7. OnTimeline(ReplayInto(EmptyMap, s))
  <2>1. OnTimeline(LogMap(TheLog, n)) BY <1>2, <1>5 DEF LogInv, PointsOnTime
  <2>2. LogMap(TheLog, n) = ReplayInto(EmptyMap, s) BY <1>2, <1>5, LogMapFile
  <2> QED BY <2>1, <2>2
<1> HIDE DEF s
<1>8. Recovered' = ReplayInto(EmptyMap, s)
  <2>1. Recovered' = ReplayInto(EmptyMap, wal_file') BY <1>3, LoadEmpty DEF Recovered
  <2> QED BY <1>4, <1>6, <2>1, ReplayTorn DEF s
<1>9. Consistent'
  BY <1>1, <1>7, <1>8 DEF Consistent, OnTimeline
<1>10. ASSUME LiveLog'
       PROVE  WalGood' /\ Floor' = Len(wal_file') /\ PointsOnTime'
  <2>1. OneKind
    BY <1>1, <1>10 DEF LiveLog, TypeInv, CountOK
  <2>2. wal_file' = s /\ WalGood'
    BY <1>4, <1>6, <2>1 DEF OneKind, s, WalGood
  <2>3. Floor' = Len(wal_file')
    BY <1>1, <2>1 DEF OneKind, Floor
  <2>4. TheLog' = wal_file'
    <3>1. written' = Len(<<>>) /\ <<>> \in Seq(WalRecord) BY <1>1, EmptySeq
    <3> QED BY <1>1, <2>2, <3>1, LogWritten DEF TheLog, WalGood
  <2>5. LogMap(TheLog', Len(TheLog')) = ReplayInto(EmptyMap, s)
    BY <1>6, <2>2, <2>4, SubSeqFull DEF LogMap
  <2>6. \A i \in Floor'..Len(TheLog') : i = Len(TheLog')
    <3>1. Len(TheLog') \in Nat BY <1>6, <2>2, <2>4
    <3> QED BY <2>3, <2>4, <3>1, OnlyPoint
  <2> QED BY <1>1, <1>7, <2>2, <2>3, <2>5, <2>6 DEF OnTimeline, PointsOnTime
<1> QED BY <1>1, <1>3, <1>9, <1>10 DEF LogInv

\* Every step.
LEMMA LogInvNext ==
    ASSUME LogOnly, OneKind \/ MaxCrashes <= 1, TypeInv, CurInv, LogInv, [Next]_vars PROVE LogInv'
<1>1. ASSUME UNCHANGED <<wal_file, snap_file, synced, timeline, buffer_, written, crashes>>,
             pc' = pc \/ (pc = "idle" /\ pc' = "flush")
      PROVE  LogInv'
  <2>1. /\ TheLog' = TheLog /\ Floor' = Floor /\ Newest' = Newest /\ Recovered' = Recovered
        /\ (LiveLog' <=> LiveLog) /\ (WalGood' <=> WalGood)
    BY <1>1 DEF TheLog, Floor, Newest, Recovered, LiveLog, WalGood
  <2>2. PointsOnTime' <=> PointsOnTime
    BY <1>1, <2>1 DEF PointsOnTime, OnTimeline
  <2> QED BY <1>1, <2>1, <2>2 DEF LogInv, Consistent, OnTimeline
<1>2. CASE Open
  BY <1>2, LogInvOpen
<1>3. ASSUME NEW k \in Key, NEW v \in Val, Put(k, v) PROVE LogInv'
  <2> DEFINE r == WriteRecord("Put", seq_ + 1, k, v)
  <2>1. seq_ + 1 \in Nat /\ v \in Str BY StoreAssumption DEF TypeInv, MemOK
  <2>2. r \in WalRecord BY <2>1, WriteRecordType
  <2>3. NextWrite /\ Log(r) /\ pc' \in {"idle", "flush"} BY <1>3 DEF Put
  <2> HIDE DEF r
  <2> QED BY <2>2, <2>3, LogInvWrite
<1>4. ASSUME NEW k \in Key, Del(k) PROVE LogInv'
  <2> DEFINE r == WriteRecord("Del", seq_ + 1, k, <<>>)
  <2>1. seq_ + 1 \in Nat /\ <<>> \in Str BY EmptySeq DEF TypeInv, MemOK, Str
  <2>2. r \in WalRecord BY <2>1, WriteRecordType
  <2>3. NextWrite /\ Log(r) /\ pc' \in {"idle", "flush"} BY <1>4 DEF Del, NextWrite
  <2> HIDE DEF r
  <2> QED BY <2>2, <2>3, LogInvWrite
<1>5. CASE FlushWrite
  BY <1>5, LogInvFlushWrite
<1>6. CASE FlushSync \/ FlushWalEmpty
  BY <1>6, LogInvBoundary
<1>7. CASE FlushWriteFails \/ FlushSyncFails \/ CheckpointBegin
  BY <1>7 DEF LogOnly, FlushWriteFails, FlushSyncFails, CheckpointBegin
<1>8. CASE CheckpointRotate \/ \E k \in dumping : CheckpointLine(k) \/ CheckpointLineFails(k)
  BY <1>8 DEF CheckpointRotate, CheckpointLine, CheckpointLineFails, LogInv
<1>9. ASSUME NEW kind \in {"kill", "power"}, Crash(kind) PROVE LogInv'
  BY <1>9, LogInvCrash
<1>10. CASE UNCHANGED vars \/ FlushWalClosed \/ WriteDropped \/ FlushWal
               \/ \E n \in BatchSizes : SetGroupCommitEvery(n)
  BY <1>1, <1>10, Zenon DEF vars, FlushWalClosed, WriteDropped, FlushWal, NextWrite,
     SetGroupCommitEvery, memory, disk, counters
<1> QED BY <1>2, <1>3, <1>4, <1>5, <1>6, <1>7, <1>8, <1>9, <1>10, Zenon DEF Next

\* A new store.
LEMMA LogInvInit == Init => LogInv
<1> SUFFICES ASSUME Init PROVE LogInv OBVIOUS
<1>1. TypeInv /\ WalGood
  BY TypeInvInit, WalGoodInit
<1>2. TheLog = wal_file /\ Floor = Len(wal_file) /\ Len(wal_file) = 0
  <2>1. written = Len(buffer_) /\ buffer_ \in Seq(WalRecord)
    BY EmptySeq DEF Init
  <2> QED BY <1>1, <2>1, LogWritten, EmptySeq DEF TheLog, WalGood, Init, Floor
<1>3. Recovered = EmptyMap /\ Newest = EmptyMap
  BY LoadEmpty, ReplayEmpty, EmptyMapType DEF Init, Recovered, Newest
<1>4. LogMap(TheLog, Len(TheLog)) = EmptyMap
  BY <1>1, <1>2, <1>3, RecoveredLog DEF Init
<1>5. OnTimeline(EmptyMap)
  BY <1>1, <1>3, NewestOnTimeline
<1>6. \A n \in Floor..Len(TheLog) : n = Len(TheLog)
  BY <1>2, OnlyPoint
<1>7. PointsOnTime
  BY <1>4, <1>5, <1>6 DEF PointsOnTime
<1> QED BY <1>1, <1>2, <1>3, <1>5, <1>7 DEF LogInv, Consistent, Init

\* A store without checkpoints keeps the promise of CrashSafeMap whatever
\* system call a crash cuts short: a successful flush is permanent, a crash
\* costs at most a suffix of the later writes, and recovery never mixes two
\* points in time.  That holds through any number of kills, or of power
\* failures, with whole records, and through one crash of either kind that
\* may leave part of a record.
THEOREM LogKeepsPromise ==
    ASSUME LogOnly, OneKind \/ MaxCrashes <= 1
    PROVE  Spec => []CrashConsistent /\ ImplementsPromise
<1> DEFINE Inv == TypeInv /\ CurInv /\ LogInv
<1>1. DelsSucceed
  BY DEF LogOnly, DelsSucceed
<1>2. Init => Inv
  BY TypeInvInit, CurInvInit, LogInvInit
<1>3. Inv /\ [Next]_vars => Inv'
  BY <1>1, TypeInvNext, CurInvNext, LogInvNext
<1>4. Inv => CrashConsistent /\ Consistent
  BY ConsistentEquiv DEF LogInv
<1>5. Inv /\ [Next]_vars => [Promise!Next]_<<timeline, pc # "closed">>
  BY <1>4, PromiseStep
<1> QED BY <1>2, <1>3, <1>4, <1>5, PromiseInit, PTL DEF Spec, ImplementsPromise, Promise!Spec

-----------------------------------------------------------------------------
(* Group commit.                                                            *)

\* Counting modulo the group size g.
NextInGroupOK(g, s) ==
    s % g \in 0..(g - 1) /\ ((s + 1) % g # 0 => (s + 1) % g = (s % g) + 1)

\* One more write is one more in its group, or completes it.
LEMMA NextInGroup == \A g \in Nat \ {0}, s \in Nat : NextInGroupOK(g, s)
<1> SUFFICES ASSUME NEW g \in Nat \ {0}, NEW s \in Nat PROVE NextInGroupOK(g, s)
  OBVIOUS
<1>1. PICK q \in Int, t \in 0..(g - 1) : s = g*q + t /\ t = s % g
  <2>1. s % g \in 0..(g - 1) OBVIOUS
  <2>2. s = g*(s \div g) + (s % g) OBVIOUS
  <2>3. s \div g \in Int OBVIOUS
  <2> QED BY <2>1, <2>2, <2>3
<1>2. \A p \in Int, u \in 0..(g - 1) : (g*p + u) % g = u
  OBVIOUS
<1>3. CASE t + 1 \in 0..(g - 1)
  <2>1. s + 1 = g*q + (t + 1) BY <1>1
  <2>2. (g*q + (t + 1)) % g = t + 1 BY <1>2, <1>3
  <2> QED BY <1>1, <2>1, <2>2 DEF NextInGroupOK
<1>4. CASE t + 1 = g
  <2>1. g*(q + 1) = g*q + g OBVIOUS
  <2>2. g*q \in Int OBVIOUS
  <2>3. s + 1 = g*(q + 1) + 0
    <3>1. PICK z \in Int : z = g*q BY <2>2
    <3>0. s = z + t BY <1>1, <3>1
    <3>2. s + 1 = z + g BY <1>4, <3>0
    <3>3. PICK y \in Int : y = g*(q + 1) BY <2>1, <2>2
    <3>4. y = z + g BY <2>1, <3>1, <3>3
    <3>5. s + 1 = y + 0 BY <3>2, <3>4
    <3> QED BY <3>3, <3>5, Zenon
  <2>4. (g*(q + 1) + 0) % g = 0 BY <1>2
  <2> QED BY <1>1, <2>3, <2>4 DEF NextInGroupOK
<1> QED BY <1>1, <1>3, <1>4

\* The buffer holds no more than the writes since the last full group.
GroupInv ==
    /\ pc \in {"idle", "dump"} => Len(buffer_) <= seq_ % group_commit_every_
    /\ pc # "closed" => fd_

\* No write is dropped, and every flush empties the buffer.
FlushesWork == "write" \notin Faults /\ "fsync" \notin Faults /\ "reopen" \notin Faults

\* put and del.
LEMMA GroupInvWrite ==
    ASSUME TypeInv, GroupInv, NextWrite, NEW r \in WalRecord, Log(r), pc' \in {"idle", "flush"},
           GroupFull => pc' = "flush"
    PROVE  GroupInv'
<1>1. /\ pc = "idle" /\ UNCHANGED <<group_commit_every_, fd_>> /\ seq_' = seq_ + 1 /\ buffer_' = Append(buffer_, r)
  BY DEF NextWrite, Log
<1>2. /\ group_commit_every_ \in Nat \ {0} /\ seq_ \in Nat /\ buffer_ \in Seq(WalRecord) /\ fd_
  BY <1>1 DEF TypeInv, MemOK, GroupInv
<1>3. fd_' BY <1>1, <1>2, Zenon
<1>4. CASE pc' = "flush" BY <1>3, <1>4 DEF GroupInv
<1>5. CASE ~GroupFull
  <2>1. (seq_ + 1) % group_commit_every_ # 0 BY <1>5 DEF GroupFull
  <2>2. /\ (seq_ + 1) % group_commit_every_ = (seq_ % group_commit_every_) + 1
        /\ seq_ % group_commit_every_ \in Int
    <3>1. NextInGroupOK(group_commit_every_, seq_) BY <1>2, NextInGroup
    <3> QED BY <1>2, <2>1, <3>1 DEF NextInGroupOK
  <2>3. Len(buffer_) <= seq_ % group_commit_every_ BY <1>1 DEF GroupInv
  <2>4. Len(buffer_') = Len(buffer_) + 1 /\ Len(buffer_) \in Nat BY <1>1, <1>2
  <2>5. Len(buffer_') <= (seq_ + 1) % group_commit_every_
    <3> DEFINE x == seq_ % group_commit_every_
               y == (seq_ + 1) % group_commit_every_
    <3>1. y = x + 1 /\ x \in Int /\ Len(buffer_) <= x BY <2>2, <2>3
    <3> HIDE DEF x, y
    <3>2. Len(buffer_') <= y BY <2>4, <3>1
    <3> QED BY <3>2 DEF y
  <2> QED BY <1>1, <1>3, <2>5 DEF GroupInv
<1> QED BY <1>4, <1>5

\* Every step.
LEMMA GroupInvNext ==
    ASSUME "batch" \notin Ops, FlushesWork, TypeInv, GroupInv, [Next]_vars PROVE GroupInv'
<1>1. ASSUME UNCHANGED <<buffer_, seq_, group_commit_every_, fd_>>,
             pc' = pc \/ (pc \in {"idle", "dump"} /\ pc' # "closed")
      PROVE  GroupInv'
  BY <1>1, Zenon DEF GroupInv
<1>2. ASSUME buffer_' = <<>>, fd_', seq_' \in Nat, group_commit_every_' \in Nat \ {0} PROVE GroupInv'
  <2>1. Len(buffer_') = 0 BY <1>2, EmptySeq
  <2>2. NextInGroupOK(group_commit_every_', seq_') BY <1>2, NextInGroup
  <2>3. Len(buffer_') <= seq_' % group_commit_every_'
    <3>1. seq_' % group_commit_every_' \in 0..(group_commit_every_' - 1) BY <2>2 DEF NextInGroupOK
    <3>2. \A g \in Nat \ {0} : \A r \in 0..(g - 1) : 0 <= r OBVIOUS
    <3>3. 0 <= seq_' % group_commit_every_' BY <1>2, <3>1, <3>2, Zenon
    <3> QED BY <2>1, <3>3, Zenon
  <2> QED BY <1>2, <2>3 DEF GroupInv
<1>3. TypeInv' BY TypeInvNext
<1>4. CASE Open
  <2>1. buffer_' = <<>> BY <1>4 DEF Open, TypeInv, PcOK
  <2>2. fd_' BY <1>4, Zenon DEF Open
  <2> QED BY <1>2, <1>3, <2>1, <2>2 DEF TypeInv, MemOK
<1>5. CASE FlushSync
  <2>1. buffer_' = <<>> BY <1>5 DEF FlushSync, BufferAfterFlush
  <2>2. fd_' BY <1>5, Zenon DEF FlushSync, GroupInv
  <2> QED BY <1>2, <1>3, <2>1, <2>2 DEF TypeInv, MemOK
<1>6. ASSUME NEW k \in Key, NEW v \in Val, Put(k, v) PROVE GroupInv'
  <2> DEFINE r == WriteRecord("Put", seq_ + 1, k, v)
  <2>1. seq_ + 1 \in Nat /\ v \in Str BY StoreAssumption DEF TypeInv, MemOK
  <2>2. r \in WalRecord BY <2>1, WriteRecordType
  <2>3. NextWrite /\ Log(r) /\ pc' \in {"idle", "flush"} /\ (GroupFull => pc' = "flush") BY <1>6 DEF Put
  <2> HIDE DEF r
  <2> QED BY <2>2, <2>3, GroupInvWrite
<1>7. ASSUME NEW k \in Key, Del(k) PROVE GroupInv'
  <2> DEFINE r == WriteRecord("Del", seq_ + 1, k, <<>>)
  <2>1. seq_ + 1 \in Nat /\ <<>> \in Str BY EmptySeq DEF TypeInv, MemOK, Str
  <2>2. r \in WalRecord BY <2>1, WriteRecordType
  <2>3. NextWrite /\ Log(r) /\ pc' \in {"idle", "flush"} /\ (GroupFull => pc' = "flush")
    BY <1>7 DEF Del, NextWrite
  <2> HIDE DEF r
  <2> QED BY <2>2, <2>3, GroupInvWrite
<1>8. CASE WriteDropped \/ \E n \in BatchSizes : SetGroupCommitEvery(n)
  BY <1>8, Zenon DEF WriteDropped, NextWrite, SetGroupCommitEvery, GroupInv
<1>9. CASE FlushWriteFails \/ FlushSyncFails
  BY <1>9 DEF FlushWriteFails, FlushSyncFails, FlushesWork
<1>10. CASE CheckpointRotate
  <2>1. UNCHANGED <<buffer_, seq_, group_commit_every_>> /\ pc = "dump" /\ pc' = "idle"
    BY <1>10 DEF CheckpointRotate
  <2>2. fd_' BY <1>10, Zenon DEF CheckpointRotate, FlushesWork
  <2> QED BY <2>1, <2>2, Zenon DEF GroupInv
<1>11. CASE FlushWal \/ FlushWalEmpty \/ FlushWalClosed \/ UNCHANGED vars
  BY <1>1, <1>11, Zenon DEF FlushWal, FlushWalEmpty, FlushWalClosed, memory, vars
<1>12. CASE FlushWrite
  BY <1>12, Zenon DEF FlushWrite, GroupInv
<1>13. CASE CheckpointBegin \/ \E k \in dumping : CheckpointLine(k) \/ CheckpointLineFails(k)
  BY <1>1, <1>13, Zenon DEF CheckpointBegin, CheckpointLine, CheckpointLineFails
<1>14. CASE \E kind \in {"kill", "power"} : Crash(kind)
  BY <1>14, Zenon DEF Crash, GroupInv
<1> QED BY <1>4, <1>5, <1>6, <1>7, <1>8, <1>9, <1>10, <1>11, <1>12, <1>13, <1>14, Zenon DEF Next

\* As long as flushes succeed and nobody changes the group size, fewer than
\* group_commit_every_ writes wait in the buffer between operations: the
\* count restarts nowhere, though restarts resume the numbering anywhere and
\* callers flush when they like.
THEOREM GroupsStaySmall ==
    ASSUME "batch" \notin Ops, FlushesWork
    PROVE  Spec => []GroupCommitBound
<1> DEFINE Inv == TypeInv /\ GroupInv
<1>1. Init => Inv
  BY TypeInvInit, Zenon DEF Init, GroupInv
<1>2. Inv /\ [Next]_vars => Inv'
  BY TypeInvNext, GroupInvNext
<1>3. Inv => GroupCommitBound
  <2> SUFFICES ASSUME Inv, pc = "idle" PROVE Len(buffer_) < group_commit_every_
    BY DEF GroupCommitBound
  <2>1. /\ group_commit_every_ \in Nat \ {0} /\ seq_ \in Nat /\ Len(buffer_) \in Nat
        /\ Len(buffer_) <= seq_ % group_commit_every_
    BY DEF TypeInv, MemOK, GroupInv
  <2>2. NextInGroupOK(group_commit_every_, seq_)
    BY <2>1, NextInGroup
  <2> QED BY <2>1, <2>2 DEF NextInGroupOK
<1> QED BY <1>1, <1>2, <1>3, PTL DEF Spec
=============================================================================
