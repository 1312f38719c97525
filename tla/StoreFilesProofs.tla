-------------------------- MODULE StoreFilesProofs --------------------------
(***************************************************************************)
(* What reading the two files back yields, for files of every length: the  *)
(* result is always a map of strings, and one more record in the log has   *)
(* the effect of that record on the map.                                   *)
(***************************************************************************)
EXTENDS StoreFiles, SequenceTheorems, Extrema

\* The maps from strings to strings, as a set.
MapSet == UNION {[D -> Str] : D \in SUBSET Str}

LogRecord == WalRecord \cup {TornRecord}

\* The set of maps from strings to strings, as a set.
LEMMA MapSetIsMap == \A m : m \in MapSet <=> IsMap(m)
  BY DEF MapSet, IsMap

\* map_[key] = value.
LEMMA MapPutType ==
    ASSUME NEW m \in MapSet, NEW k \in Str, NEW v \in Str
    PROVE  MapPut(m, k, v) \in MapSet
<1> DEFINE D == DOMAIN m \cup {k}
<1>1. D \in SUBSET Str /\ \A x \in DOMAIN m : m[x] \in Str
  BY DEF MapSet
<1>2. MapPut(m, k, v) \in [D -> Str]
  BY <1>1 DEF MapPut
<1> HIDE DEF D
<1> QED BY <1>1, <1>2 DEF MapSet

\* map_.erase(key), for any set of keys.
LEMMA RestrictType ==
    ASSUME NEW m \in MapSet, NEW D
    PROVE  [x \in DOMAIN m \ D |-> m[x]] \in MapSet
<1> DEFINE E == DOMAIN m \ D
<1>1. E \in SUBSET Str /\ \A x \in DOMAIN m : m[x] \in Str
  BY DEF MapSet
<1>2. [x \in E |-> m[x]] \in [E -> Str]
  BY <1>1
<1> HIDE DEF E
<1>3. [x \in E |-> m[x]] \in MapSet
  BY <1>1, <1>2 DEF MapSet
<1> QED BY <1>3 DEF E

\* One record replayed over a map gives a map.
LEMMA ApplyRecordType ==
    ASSUME NEW m \in MapSet, NEW r \in WalRecord
    PROVE  ApplyRecord(m, r) \in MapSet
<1>1. r.key \in Str /\ r.val \in Str
  BY DEF WalRecord
<1> QED BY <1>1, MapPutType, RestrictType DEF ApplyRecord, MapErase

\* Replay stops at a position of the file, with good records only before it.
LEMMA GoodLenType ==
    ASSUME NEW f \in Seq(LogRecord)
    PROVE  /\ GoodLen(f) \in 0..Len(f)
           /\ \A i \in 1..GoodLen(f) : f[i] \in WalRecord
           /\ \A n \in 0..Len(f) : (\A i \in 1..n : f[i].type # "Torn") => n <= GoodLen(f)
<1> DEFINE S == {n \in 0..Len(f) : \A i \in 1..n : f[i].type # "Torn"}
<1>1. S \in SUBSET Nat /\ 0 \in S /\ \A n \in S : n <= Len(f) /\ Len(f) \in Nat
  OBVIOUS
<1>2. Max(S) \in S /\ \A n \in S : n <= Max(S)
  <2> HIDE DEF S
  <2> QED BY <1>1, MaxOfBounded
<1>3. \A i \in 1..Len(f) : f[i] \in LogRecord
  BY ElementOfSeq
<1>4. TornRecord.type = "Torn"
  BY DEF TornRecord
<1>5. \A i \in 1..Max(S) : f[i] \in WalRecord
  BY <1>2, <1>3, <1>4 DEF LogRecord
<1> QED BY <1>2, <1>5 DEF GoodLen

\* A key of the log has a last record.
LEMMA LastRecord ==
    ASSUME NEW f \in Seq(LogRecord), NEW n \in 0..Len(f), NEW k, \E i \in 1..n : f[i].key = k
    PROVE  LET last == Max(RecordsOf(f, n, k))
           IN  /\ last \in 1..n /\ f[last].key = k
               /\ \A i \in 1..n : f[i].key = k => i <= last
<1> DEFINE S == RecordsOf(f, n, k)
<1>1. S \in SUBSET Nat /\ S # {} /\ n \in Nat /\ \A y \in S : y <= n
  BY DEF RecordsOf
<1>2. Max(S) \in S /\ \A y \in S : y <= Max(S)
  <2> HIDE DEF S
  <2> QED BY <1>1, MaxOfBounded
<1> QED BY <1>2 DEF RecordsOf

\* Replaying a log over a map gives a map.
LEMMA ReplayIntoType ==
    ASSUME NEW m \in MapSet, NEW f \in Seq(LogRecord)
    PROVE  ReplayInto(m, f) \in MapSet
<1> DEFINE n == GoodLen(f)
           logged == {f[i].key : i \in 1..n}
           last(k) == f[Max(RecordsOf(f, n, k))]
           D == {x \in DOMAIN m \cup logged : x \in logged => last(x).type = "Put"}
           v(k) == IF k \in logged THEN last(k).val ELSE m[k]
<1>1. n \in 0..Len(f) /\ \A i \in 1..n : f[i] \in WalRecord
  BY GoodLenType
<1> HIDE DEF n
<1>2. logged \subseteq Str
  BY <1>1 DEF WalRecord
<1>3. \A k \in logged : last(k).val \in Str
  <2> TAKE k \in logged
  <2>1. \E i \in 1..n : f[i].key = k OBVIOUS
  <2>2. Max(RecordsOf(f, n, k)) \in 1..n
    <3> HIDE DEF logged
    <3> QED BY <1>1, <2>1, LastRecord
  <2> QED BY <1>1, <2>2 DEF WalRecord
<1> HIDE DEF logged, last
<1>4. D \subseteq Str /\ \A k \in D : v(k) \in Str
  BY <1>2, <1>3 DEF MapSet
<1>5. [k \in D |-> v(k)] \in [D -> Str] /\ D \in SUBSET Str
  BY <1>4
<1>6. ReplayInto(m, f) = [k \in D |-> v(k)]
  BY DEF ReplayInto, n, logged, last
<1> QED BY <1>5, <1>6 DEF MapSet

\* Reading a snapshot gives a map.
LEMMA LoadFromFileType ==
    ASSUME NEW f \in Str
    PROVE  LoadFromFile(f) \in MapSet
<1> DEFINE h == Len(f) \div 2
           D == {<<f[2*i - 1]>> : i \in 1..h}
           v(k) == <<f[2 * Max(PairsOf(f, k[1]))]>>
<1>1. h \in Nat /\ 2 * h <= Len(f) /\ Len(f) \in Nat
  BY DEF Str
<1>2. \A i \in 1..Len(f) : f[i] \in Word
  BY ElementOfSeq DEF Str
<1>3. \A i \in 1..h : 2*i - 1 \in 1..Len(f) /\ 2*i \in 1..Len(f)
  <2> HIDE DEF h
  <2> QED BY <1>1
<1>4. D \subseteq Str
  <2> HIDE DEF h
  <2>1. \A w \in Word : <<w>> \in Seq(Word) OBVIOUS
  <2>2. \A i \in 1..h : f[2*i - 1] \in Word BY <1>2, <1>3
  <2> QED BY <2>1, <2>2 DEF Str
<1>5. \A k \in D : v(k) \in Str
  <2> TAKE k \in D
  <2>1. PICK i \in 1..h : k = <<f[2*i - 1]>> OBVIOUS
  <2> DEFINE S == PairsOf(f, k[1])
  <2>2. i \in S BY <2>1 DEF PairsOf
  <2>3. S \in SUBSET Nat /\ \A y \in S : y <= h /\ y \in 1..h BY <1>1 DEF PairsOf
  <2> HIDE DEF S, h
  <2>4. Max(S) \in S BY <1>1, <2>2, <2>3, MaxOfBounded
  <2>5. 2 * Max(S) \in 1..Len(f) BY <1>3, <2>3, <2>4
  <2> QED BY <1>2, <2>5 DEF Str, S
<1>6. [k \in D |-> v(k)] \in [D -> Str]
  <2> HIDE DEF D, v
  <2> QED BY <1>5
<1>7. LoadFromFile(f) = [k \in D |-> v(k)]
  BY DEF LoadFromFile
<1> HIDE DEF D, v
<1> QED BY <1>4, <1>6, <1>7 DEF MapSet

\* The highest sequence number of a log is a natural.
LEMMA MaxSeqType ==
    ASSUME NEW f \in Seq(LogRecord)
    PROVE  /\ MaxSeq(f) \in Nat
           /\ \A i \in 1..GoodLen(f) : f[i].seq <= MaxSeq(f)
<1> DEFINE n == GoodLen(f)
           g == [i \in 1..n |-> f[i].seq]
           T == {f[i].seq : i \in 1..n}
           S == {0} \cup T
<1>1. n \in Nat /\ \A i \in 1..n : f[i].seq \in Nat
  BY GoodLenType DEF WalRecord
<1> HIDE DEF n
<1>2. IsFiniteSet(1..n)
  BY <1>1, FS_Interval
<1>3. g \in Surjection(1..n, T)
  BY DEF Surjection
<1>4. IsFiniteSet(T)
  <2> HIDE DEF g, T
  <2> QED BY <1>2, <1>3, FS_Surjection
<1>5. IsFiniteSet(S)
  <2> HIDE DEF T
  <2> QED BY <1>4, FS_AddElement
<1>6. S \in SUBSET Nat /\ S # {} /\ T \subseteq S
  BY <1>1
<1>7. Max(S) \in S /\ \A y \in S : y <= Max(S)
  <2> HIDE DEF S
  <2> QED BY <1>5, <1>6, MaxIsGreatest
<1>8. MaxSeq(f) = Max(S)
  BY DEF MaxSeq, n
<1> QED BY <1>6, <1>7, <1>8 DEF n

-----------------------------------------------------------------------------
(* Replaying a log without torn records, one record at a time.              *)

\* The keys of a log, and the record that decides what becomes of one.
Logged(f) == {f[i].key : i \in 1..Len(f)}
LastOf(f, k) == f[Max(RecordsOf(f, Len(f), k))]

\* The two maps agree on every key outside K.
AgreeOutside(m1, m2, K) ==
    /\ DOMAIN m1 \ K = DOMAIN m2 \ K
    /\ \A k \in DOMAIN m1 \ K : m1[k] = m2[k]

\* What a record of such a log is made of.
LEMMA RecordFields ==
    ASSUME NEW f \in Seq(WalRecord), NEW i \in 1..Len(f)
    PROVE  /\ f[i] \in WalRecord /\ f[i].seq \in Nat /\ f[i].type \in {"Put", "Del"}
           /\ f[i].key \in Str /\ f[i].val \in Str
<1>1. f[i] \in WalRecord BY ElementOfSeq
<1>2. \A r \in WalRecord : r.seq \in Nat /\ r.type \in {"Put", "Del"} /\ r.key \in Str /\ r.val \in Str
  BY DEF WalRecord
<1> QED BY <1>1, <1>2

\* Such a log is a log.
LEMMA GoodSeq == ASSUME NEW f \in Seq(WalRecord) PROVE f \in Seq(LogRecord)
<1>1. Len(f) \in Nat /\ f = [i \in 1..Len(f) |-> f[i]] OBVIOUS
<1>2. \A i \in 1..Len(f) : f[i] \in LogRecord BY ElementOfSeq DEF LogRecord
<1> QED BY <1>1, <1>2

\* A log without torn records is read to its end.
LEMMA GoodLenWhole == ASSUME NEW f \in Seq(WalRecord) PROVE GoodLen(f) = Len(f)
<1>1. \A i \in 1..Len(f) : f[i].type # "Torn"
  BY RecordFields
<1>2. f \in Seq(LogRecord)
  BY GoodSeq
<1> QED BY <1>1, <1>2, GoodLenType

\* ReplayInto for such a log.
LEMMA ReplayIntoGood ==
    ASSUME NEW m, NEW f \in Seq(WalRecord)
    PROVE  ReplayInto(m, f) =
             [k \in {x \in DOMAIN m \cup Logged(f) : x \in Logged(f) => LastOf(f, x).type = "Put"}
                |-> IF k \in Logged(f) THEN LastOf(f, k).val ELSE m[k]]
  BY GoodLenWhole, Zenon DEF ReplayInto, Logged, LastOf

\* Replaying hides what the map was at the keys of the log.
LEMMA ReplayAgree ==
    ASSUME NEW m1, NEW m2, NEW f \in Seq(WalRecord), AgreeOutside(m1, m2, Logged(f))
    PROVE  ReplayInto(m1, f) = ReplayInto(m2, f)
<1> DEFINE D(m) == {x \in DOMAIN m \cup Logged(f) : x \in Logged(f) => LastOf(f, x).type = "Put"}
           v(m, k) == IF k \in Logged(f) THEN LastOf(f, k).val ELSE m[k]
<1>1. ReplayInto(m1, f) = [k \in D(m1) |-> v(m1, k)] /\ ReplayInto(m2, f) = [k \in D(m2) |-> v(m2, k)]
  BY ReplayIntoGood, ZenonT(60)
<1>2. D(m1) = D(m2)
  BY DEF AgreeOutside
<1>3. \A k \in D(m1) : v(m1, k) = v(m2, k)
  BY DEF AgreeOutside
<1> HIDE DEF D, v
<1> QED BY <1>1, <1>2, <1>3

\* Replaying leaves every other key alone.
LEMMA ReplayOutside ==
    ASSUME NEW m, NEW f \in Seq(WalRecord)
    PROVE  AgreeOutside(ReplayInto(m, f), m, Logged(f))
<1> DEFINE D == {x \in DOMAIN m \cup Logged(f) : x \in Logged(f) => LastOf(f, x).type = "Put"}
           a == [k \in D |-> IF k \in Logged(f) THEN LastOf(f, k).val ELSE m[k]]
<1>1. ReplayInto(m, f) = a
  BY ReplayIntoGood, ZenonT(60)
<1>2. DOMAIN a \ Logged(f) = DOMAIN m \ Logged(f) /\ \A k \in DOMAIN a \ Logged(f) : a[k] = m[k]
  OBVIOUS
<1> HIDE DEF a
<1> QED BY <1>1, <1>2 DEF AgreeOutside

\* Replaying a log twice is replaying it once.
LEMMA ReplayTwice ==
    ASSUME NEW m, NEW f \in Seq(WalRecord)
    PROVE  ReplayInto(ReplayInto(m, f), f) = ReplayInto(m, f)
  BY ReplayAgree, ReplayOutside

\* An empty log changes nothing.
LEMMA ReplayEmpty ==
    ASSUME NEW m \in MapSet PROVE ReplayInto(m, <<>>) = m
<1>1. PICK e \in Seq(WalRecord) : e = <<>>
  BY EmptySeq
<1>2. Logged(e) = {}
  BY <1>1 DEF Logged
<1>3. ReplayInto(m, e) =
        [k \in {x \in DOMAIN m \cup Logged(e) : x \in Logged(e) => LastOf(e, x).type = "Put"}
           |-> IF k \in Logged(e) THEN LastOf(e, k).val ELSE m[k]]
  BY ReplayIntoGood, ZenonT(60)
<1>4. m = [k \in DOMAIN m |-> m[k]]
  BY DEF MapSet
<1>5. ReplayInto(m, e) = [k \in DOMAIN m |-> m[k]]
  BY <1>2, <1>3
<1> QED BY <1>1, <1>4, <1>5

\* The last record of a log decides about its key, and about no other.
LEMMA LastOfAppend ==
    ASSUME NEW f \in Seq(WalRecord), NEW r \in WalRecord
    PROVE  /\ Logged(Append(f, r)) = Logged(f) \cup {r.key}
           /\ LastOf(Append(f, r), r.key) = r
           /\ \A k \in Logged(f) : k # r.key => LastOf(Append(f, r), k) = LastOf(f, k)
<1> DEFINE g == Append(f, r)
           n == Len(f)
<1>1. /\ g \in Seq(WalRecord) /\ Len(g) = n + 1 /\ n \in Nat /\ g[n + 1] = r
      /\ \A i \in 1..n : g[i] = f[i]
  OBVIOUS
<1>2. g \in Seq(LogRecord) /\ f \in Seq(LogRecord)
  BY <1>1, GoodSeq
<1> HIDE DEF g
<1>3. Logged(g) = Logged(f) \cup {r.key}
  BY <1>1 DEF Logged
<1>4. LastOf(g, r.key) = r
  <2> DEFINE last == Max(RecordsOf(g, n + 1, r.key))
  <2>1. last \in 1..(n + 1) /\ n + 1 <= last
    BY <1>1, <1>2, LastRecord
  <2>2. last = n + 1
    <3> HIDE DEF last
    <3> QED BY <1>1, <2>1
  <2> QED BY <1>1, <2>2 DEF LastOf
<1>5. ASSUME NEW k \in Logged(f), k # r.key PROVE LastOf(g, k) = LastOf(f, k)
  <2>1. RecordsOf(g, n + 1, k) = RecordsOf(f, n, k)
    BY <1>1, <1>5 DEF RecordsOf
  <2>2. Max(RecordsOf(f, n, k)) \in 1..n
    BY <1>1, <1>2, <1>5, LastRecord DEF Logged
  <2> QED BY <1>1, <2>1, <2>2 DEF LastOf
<1> QED BY <1>3, <1>4, <1>5 DEF g

\* One more record in the log has the effect of that record on the map: the
\* closed form of ReplayInto takes the steps of replay_into's loop.
LEMMA ReplayAppend ==
    ASSUME NEW m, NEW f \in Seq(WalRecord), NEW r \in WalRecord
    PROVE  ReplayInto(m, Append(f, r)) = ApplyRecord(ReplayInto(m, f), r)
<1> DEFINE g == Append(f, r)
           a == ReplayInto(m, g)
           b == ReplayInto(m, f)
<1>1. /\ Logged(g) = Logged(f) \cup {r.key} /\ LastOf(g, r.key) = r
      /\ \A k \in Logged(f) : k # r.key => LastOf(g, k) = LastOf(f, k)
  BY LastOfAppend
<1>2. g \in Seq(WalRecord) OBVIOUS
<1> HIDE DEF g
<1>3. a = [k \in {x \in DOMAIN m \cup Logged(g) : x \in Logged(g) => LastOf(g, x).type = "Put"}
             |-> IF k \in Logged(g) THEN LastOf(g, k).val ELSE m[k]]
  BY <1>2, ReplayIntoGood, ZenonT(60)
<1>4. b = [k \in {x \in DOMAIN m \cup Logged(f) : x \in Logged(f) => LastOf(f, x).type = "Put"}
             |-> IF k \in Logged(f) THEN LastOf(f, k).val ELSE m[k]]
  BY ReplayIntoGood, ZenonT(60)
<1> HIDE DEF a, b
<1>5. CASE r.type = "Put"
  <2>1. DOMAIN a = DOMAIN b \cup {r.key}
    BY <1>1, <1>3, <1>4, <1>5
  <2>2. \A k \in DOMAIN a : a[k] = IF k = r.key THEN r.val ELSE b[k]
    BY <1>1, <1>3, <1>4, <1>5
  <2>3. a = [k \in DOMAIN b \cup {r.key} |-> IF k = r.key THEN r.val ELSE b[k]]
    BY <1>3, <2>1, <2>2
  <2> QED BY <1>5, <2>3 DEF ApplyRecord, MapPut, a, b, g
<1>6. CASE r.type # "Put"
  <2>1. DOMAIN a = DOMAIN b \ {r.key}
    BY <1>1, <1>3, <1>4, <1>6
  <2>2. \A k \in DOMAIN a : a[k] = b[k]
    BY <1>1, <1>3, <1>4, <1>6
  <2>3. a = [k \in DOMAIN b \ {r.key} |-> b[k]]
    BY <1>3, <2>1, <2>2
  <2> QED BY <1>6, <2>3 DEF ApplyRecord, MapErase, a, b, g
<1> QED BY <1>5, <1>6

\* A record overwrites what the map was at its key.
LEMMA ApplyAgree ==
    ASSUME NEW m1, NEW m2, NEW r, AgreeOutside(m1, m2, {r.key})
    PROVE  ApplyRecord(m1, r) = ApplyRecord(m2, r)
<1>1. MapPut(m1, r.key, r.val) = MapPut(m2, r.key, r.val)
  BY DEF MapPut, AgreeOutside
<1>2. MapErase(m1, r.key) = MapErase(m2, r.key)
  BY DEF MapErase, AgreeOutside
<1> QED BY <1>1, <1>2 DEF ApplyRecord

\* A record leaves every other key alone.
LEMMA ApplyOutside ==
    ASSUME NEW m, NEW r PROVE AgreeOutside(ApplyRecord(m, r), m, {r.key})
<1>1. AgreeOutside(MapPut(m, r.key, r.val), m, {r.key})
  BY DEF MapPut, AgreeOutside
<1>2. AgreeOutside(MapErase(m, r.key), m, {r.key})
  BY DEF MapErase, AgreeOutside
<1> QED BY <1>1, <1>2 DEF ApplyRecord

\* Where two maps agree they still agree after the same log was replayed.
LEMMA ReplayKeepsAgreement ==
    ASSUME NEW m1, NEW m2, NEW K, NEW f \in Seq(WalRecord), AgreeOutside(m1, m2, K)
    PROVE  AgreeOutside(ReplayInto(m1, f), ReplayInto(m2, f), K)
<1> DEFINE D(m) == {x \in DOMAIN m \cup Logged(f) : x \in Logged(f) => LastOf(f, x).type = "Put"}
           v(m, k) == IF k \in Logged(f) THEN LastOf(f, k).val ELSE m[k]
           a(m) == [k \in D(m) |-> v(m, k)]
<1>1. ReplayInto(m1, f) = a(m1) /\ ReplayInto(m2, f) = a(m2)
  BY ReplayIntoGood, ZenonT(60)
<1>2. D(m1) \ K = D(m2) \ K
  BY DEF AgreeOutside
<1>3. \A k \in D(m1) \ K : v(m1, k) = v(m2, k)
  BY DEF AgreeOutside
<1>4. /\ DOMAIN a(m1) = D(m1) /\ DOMAIN a(m2) = D(m2)
      /\ \A k \in D(m1) : a(m1)[k] = v(m1, k)
      /\ \A k \in D(m2) : a(m2)[k] = v(m2, k)
  <2> HIDE DEF D, v
  <2> QED OBVIOUS
<1> HIDE DEF D, v, a
<1>5. AgreeOutside(a(m1), a(m2), K)
  BY <1>2, <1>3, <1>4 DEF AgreeOutside
<1> QED BY <1>1, <1>5

\* A flush moves a record from the buffer to the file before the buffer is
\* emptied.  If replaying the records already moved changes nothing, then
\* replaying those and the next one changes nothing once it has moved too.
LEMMA MovedOnce ==
    ASSUME NEW m, NEW f \in Seq(WalRecord), NEW r \in WalRecord, ReplayInto(m, f) = m
    PROVE  ReplayInto(ApplyRecord(m, r), Append(f, r)) = ApplyRecord(m, r)
<1> DEFINE n == ApplyRecord(m, r)
<1>1. AgreeOutside(n, m, {r.key})
  BY ApplyOutside
<1> HIDE DEF n
<1>2. AgreeOutside(ReplayInto(n, f), m, {r.key})
  <2>1. AgreeOutside(ReplayInto(n, f), ReplayInto(m, f), {r.key})
    BY <1>1, ReplayKeepsAgreement
  <2> QED BY <2>1
<1>3. ReplayInto(n, Append(f, r)) = ApplyRecord(ReplayInto(n, f), r)
  BY ReplayAppend
<1>4. ApplyRecord(ReplayInto(n, f), r) = ApplyRecord(m, r)
  <2> DEFINE q == ReplayInto(n, f)
  <2> HIDE DEF q
  <2>1. AgreeOutside(q, m, {r.key}) BY <1>2 DEF q
  <2>2. ApplyRecord(q, r) = ApplyRecord(m, r) BY <2>1, ApplyAgree
  <2> QED BY <2>2 DEF q
<1> QED BY <1>3, <1>4 DEF n

\* Moving a record of the buffer to the file does not change what replaying
\* the whole buffer gives.
LEMMA MovedHidden ==
    ASSUME NEW m, NEW f \in Seq(WalRecord), NEW i \in 1..Len(f)
    PROVE  ReplayInto(ApplyRecord(m, f[i]), f) = ReplayInto(m, f)
<1> DEFINE n == ApplyRecord(m, f[i])
<1>1. AgreeOutside(n, m, {f[i].key})
  BY ApplyOutside
<1>2. f[i].key \in Logged(f)
  BY DEF Logged
<1> HIDE DEF n
<1>3. AgreeOutside(n, m, Logged(f))
  BY <1>1, <1>2 DEF AgreeOutside
<1>4. ReplayInto(n, f) = ReplayInto(m, f)
  BY <1>3, ReplayAgree
<1> QED BY <1>4 DEF n

\* A torn record at the end of the log is read as if it were not there.
LEMMA ReplayTorn ==
    ASSUME NEW m, NEW f \in Seq(WalRecord)
    PROVE  ReplayInto(m, Append(f, TornRecord)) = ReplayInto(m, f)
<1> DEFINE g == Append(f, TornRecord)
           n == Len(f)
<1>1. f \in Seq(LogRecord) /\ TornRecord \in LogRecord /\ TornRecord.type = "Torn"
  BY GoodSeq DEF LogRecord, TornRecord
<1>2. /\ g \in Seq(LogRecord) /\ Len(g) = n + 1 /\ n \in Nat /\ g[n + 1] = TornRecord
      /\ \A i \in 1..n : g[i] = f[i]
  BY <1>1
<1> HIDE DEF g
<1>3. GoodLen(g) = n
  <2>1. GoodLen(g) \in 0..(n + 1) /\ \A i \in 1..GoodLen(g) : g[i] \in WalRecord
    BY <1>2, GoodLenType
  <2>2. \A i \in 1..n : g[i].type # "Torn"
    BY <1>2, RecordFields
  <2>3. n <= GoodLen(g)
    BY <1>2, <2>2, GoodLenType, SMTT(30)
  <2>4. GoodLen(g) # n + 1
    <3>1. TornRecord \notin WalRecord BY DEF TornRecord, WalRecord
    <3>2. n + 1 \in 1..(n + 1) BY <1>2
    <3> QED BY <1>2, <2>1, <3>1, <3>2
  <2> QED BY <1>2, <2>1, <2>3, <2>4
<1>4. GoodLen(f) = n
  BY GoodLenWhole
<1>5. /\ {g[i].key : i \in 1..n} = {f[i].key : i \in 1..n}
      /\ \A k : RecordsOf(g, n, k) = RecordsOf(f, n, k)
  BY <1>2 DEF RecordsOf
<1>6. \A k \in {f[i].key : i \in 1..n} : Max(RecordsOf(f, n, k)) \in 1..n
  <2> TAKE k \in {f[i].key : i \in 1..n}
  <2>1. \E i \in 1..n : f[i].key = k OBVIOUS
  <2> QED BY <1>1, <1>2, <2>1, LastRecord
<1> DEFINE K == {f[i].key : i \in 1..n}
           L(h, k) == h[Max(RecordsOf(f, n, k))]
           D(h) == {x \in DOMAIN m \cup K : x \in K => L(h, x).type = "Put"}
<1>7. \A k \in K : L(g, k) = L(f, k)
  BY <1>2, <1>6
<1>8. ReplayInto(m, f) = [k \in D(f) |-> IF k \in K THEN L(f, k).val ELSE m[k]]
  BY <1>4, Zenon DEF ReplayInto
<1>9. ReplayInto(m, g) = [k \in D(g) |-> IF k \in K THEN L(g, k).val ELSE m[k]]
  <2> DEFINE Kg == {g[i].key : i \in 1..n}
             Lg(k) == g[Max(RecordsOf(g, n, k))]
  <2>1. ReplayInto(m, g) = [k \in {x \in DOMAIN m \cup Kg : x \in Kg => Lg(x).type = "Put"}
                              |-> IF k \in Kg THEN Lg(k).val ELSE m[k]]
    BY <1>3, Zenon DEF ReplayInto
  <2>2. Kg = K /\ \A k : Lg(k) = L(g, k)
    BY <1>5
  <2> HIDE DEF Kg, Lg, K, L
  <2> QED BY <2>1, <2>2
<1> HIDE DEF K, L
<1>10. D(g) = D(f)
  BY <1>7
<1>11. \A k \in D(f) : (IF k \in K THEN L(g, k).val ELSE m[k]) = (IF k \in K THEN L(f, k).val ELSE m[k])
  BY <1>7
<1> HIDE DEF D
<1>12. ReplayInto(m, g) = ReplayInto(m, f)
  BY <1>8, <1>9, <1>10, <1>11
<1> QED BY <1>12 DEF g

-----------------------------------------------------------------------------
(* Reading back a snapshot, one line at a time.                             *)

\* The snapshot of an empty map, or a snapshot file just truncated.
LEMMA LoadEmpty == LoadFromFile(<<>>) = EmptyMap
<1>1. Len(<<>>) \div 2 = 0 OBVIOUS
<1>2. {<<(<<>>)[2*i - 1]>> : i \in 1..(Len(<<>>) \div 2)} = {}
  BY <1>1
<1> QED BY <1>2, Zenon DEF LoadFromFile, EmptyMap

\* A snapshot file that ends with a whole line yields that line's pair, over
\* what the lines before it yield.
LEMMA LoadLine ==
    ASSUME NEW f \in Str, NEW h \in Nat, Len(f) = 2 * h, NEW a \in Word, NEW b \in Word
    PROVE  LoadFromFile(f \o <<a, b>>) = MapPut(LoadFromFile(f), <<a>>, <<b>>)
<1> DEFINE g == f \o <<a, b>>
           Dg == {<<g[2*i - 1]>> : i \in 1..(Len(g) \div 2)}
           Df == {<<f[2*i - 1]>> : i \in 1..(Len(f) \div 2)}
           vg(k) == <<g[2 * Max(PairsOf(g, k[1]))]>>
           vf(k) == <<f[2 * Max(PairsOf(f, k[1]))]>>
<1>1. /\ Len(g) = 2 * h + 2 /\ g[2*h + 1] = a /\ g[2*h + 2] = b
      /\ \A i \in 1..(2*h) : g[i] = f[i]
  BY DEF Str
<1>2. Len(g) \div 2 = h + 1 /\ Len(f) \div 2 = h
  <2> HIDE DEF g
  <2> QED BY <1>1
<1> HIDE DEF g
<1>3. \A i \in 1..h : g[2*i - 1] = f[2*i - 1] /\ g[2*i] = f[2*i]
  BY <1>1
<1>4. g[2*(h + 1) - 1] = a /\ g[2*(h + 1)] = b
  BY <1>1
<1>5. Dg = Df \cup {<<a>>}
  <2>1. \A i \in 1..(h + 1) : i \in 1..h \/ i = h + 1 OBVIOUS
  <2>2. 1..h \subseteq 1..(h + 1) /\ h + 1 \in 1..(h + 1) OBVIOUS
  <2> QED BY <1>2, <1>3, <1>4, <2>1, <2>2, ZenonT(60)
<1>6. vg(<<a>>) = <<b>>
  <2> DEFINE S == PairsOf(g, a)
  <2>1. h + 1 \in S /\ S \in SUBSET Nat /\ h + 1 \in Nat /\ \A y \in S : y <= h + 1
    BY <1>2, <1>4 DEF PairsOf
  <2> HIDE DEF S
  <2>2. Max(S) \in S /\ \A y \in S : y <= Max(S)
    BY <2>1, MaxOfBounded
  <2>3. Max(S) = h + 1
    <3> DEFINE x == Max(S)
    <3>1. x \in Nat /\ x <= h + 1 /\ h + 1 <= x BY <2>1, <2>2
    <3> HIDE DEF x
    <3> QED BY <3>1 DEF x
  <2>4. (<<a>>)[1] = a OBVIOUS
  <2> QED BY <1>4, <2>3, <2>4 DEF S
<1>7. ASSUME NEW k \in Df, k # <<a>> PROVE vg(k) = vf(k)
  <2>1. PICK i \in 1..h : k = <<f[2*i - 1]>> BY <1>2
  <2>2. k[1] = f[2*i - 1] /\ k[1] # a
    BY <1>7, <2>1
  <2> DEFINE S == PairsOf(f, k[1])
  <2>3. PairsOf(g, k[1]) = S
    <3>1. \A j \in 1..(h + 1) : j \in 1..h \/ j = h + 1 OBVIOUS
    <3>2. 1..h \subseteq 1..(h + 1) OBVIOUS
    <3> QED BY <1>2, <1>3, <1>4, <2>2, <3>1, <3>2 DEF PairsOf
  <2>4. S \in SUBSET Nat /\ i \in S /\ \A y \in S : y <= h /\ y \in 1..h
    BY <1>2, <2>2 DEF PairsOf
  <2> HIDE DEF S
  <2>5. Max(S) \in S BY <2>4, MaxOfBounded
  <2> QED BY <1>3, <2>3, <2>4, <2>5, SMTT(30) DEF S
<1>8. LoadFromFile(g) = [k \in Dg |-> vg(k)] /\ LoadFromFile(f) = [k \in Df |-> vf(k)]
  BY DEF LoadFromFile
<1> HIDE DEF Dg, Df, vg, vf
<1>9. [k \in Dg |-> vg(k)] = MapPut([k \in Df |-> vf(k)], <<a>>, <<b>>)
  BY <1>5, <1>6, <1>7 DEF MapPut
<1> QED BY <1>8, <1>9 DEF g

-----------------------------------------------------------------------------
(* The closed forms are the loops.  Written for the part of a file that was *)
(* read so far, each closed form takes the steps of its loop; a recursive   *)
(* function has one solution, so the loop computes it.                      *)

\* The first n elements of a sequence, and one more.
LEMMA Part ==
    ASSUME NEW S, NEW f \in Seq(S), NEW n \in 0..Len(f)
    PROVE  /\ SubSeq(f, 1, n) \in Seq(S) /\ Len(SubSeq(f, 1, n)) = n
           /\ \A i \in 1..n : SubSeq(f, 1, n)[i] = f[i]
           /\ n < Len(f) => SubSeq(f, 1, n + 1) = Append(SubSeq(f, 1, n), f[n + 1])
<1>1. SubSeq(f, 1, n) \in Seq(S) /\ Len(SubSeq(f, 1, n)) = n /\ \A i \in 1..n : SubSeq(f, 1, n)[i] = f[i]
  OBVIOUS
<1>2. n < Len(f) => SubSeq(f, 1, n + 1) = Append(SubSeq(f, 1, n), f[n + 1])
  OBVIOUS
<1> QED BY <1>1, <1>2

\* The part of a log before the first torn record.
LEMMA GoodPart ==
    ASSUME NEW f \in Seq(LogRecord), NEW n \in 0..GoodLen(f)
    PROVE  SubSeq(f, 1, n) \in Seq(WalRecord)
<1> DEFINE g == SubSeq(f, 1, n)
<1>1. GoodLen(f) \in 0..Len(f) /\ \A i \in 1..GoodLen(f) : f[i] \in WalRecord
  BY GoodLenType
<1>2. n \in 0..Len(f)
  BY <1>1
<1>3. g \in Seq(LogRecord) /\ Len(g) = n /\ \A i \in 1..n : g[i] = f[i]
  BY <1>2, Part
<1>4. \A i \in 1..Len(g) : g[i] \in WalRecord
  BY <1>1, <1>2, <1>3
<1> HIDE DEF g
<1>5. g = [i \in 1..Len(g) |-> g[i]] /\ Len(g) \in Nat
  BY <1>3
<1> QED BY <1>4, <1>5 DEF g

\* Replay reads the part of the log before the first torn record, and no more.
LEMMA ReplayGoodPart ==
    ASSUME NEW m, NEW f \in Seq(LogRecord)
    PROVE  ReplayInto(m, f) = ReplayInto(m, SubSeq(f, 1, GoodLen(f)))
<1> DEFINE n == GoodLen(f)
           g == SubSeq(f, 1, n)
<1>1. n \in 0..Len(f) /\ n \in Nat /\ g \in Seq(WalRecord)
  BY GoodLenType, GoodPart
<1>2. Len(g) = n /\ \A i \in 1..n : g[i] = f[i]
  BY <1>1, Part
<1>3. GoodLen(g) = n
  BY <1>1, <1>2, GoodLenWhole
<1> DEFINE K == {f[i].key : i \in 1..n}
           L(k) == f[Max(RecordsOf(f, n, k))]
<1>4. ReplayInto(m, f) = [k \in {x \in DOMAIN m \cup K : x \in K => L(x).type = "Put"}
                            |-> IF k \in K THEN L(k).val ELSE m[k]]
  BY Zenon DEF ReplayInto
<1> HIDE DEF n, g
<1>5. Logged(g) = K
  BY <1>2 DEF Logged
<1>6. \A k \in K : LastOf(g, k) = L(k)
  <2> TAKE k \in K
  <2>1. RecordsOf(g, n, k) = RecordsOf(f, n, k)
    BY <1>2 DEF RecordsOf
  <2>2. \E i \in 1..n : g[i].key = k
    BY <1>2
  <2>3. Max(RecordsOf(g, n, k)) \in 1..n
    <3>1. g \in Seq(LogRecord) BY <1>1, GoodSeq
    <3> QED BY <1>1, <1>2, <2>2, <3>1, LastRecord
  <2> QED BY <1>2, <2>1, <2>3 DEF LastOf
<1> DEFINE D == {x \in DOMAIN m \cup K : x \in K => L(x).type = "Put"}
           E == {x \in DOMAIN m \cup K : x \in K => LastOf(g, x).type = "Put"}
           u(k) == IF k \in K THEN L(k).val ELSE m[k]
           v(k) == IF k \in K THEN LastOf(g, k).val ELSE m[k]
<1>7. ReplayInto(m, g) = [k \in E |-> v(k)]
  <2>1. ReplayInto(m, g) =
             [k \in {x \in DOMAIN m \cup Logged(g) : x \in Logged(g) => LastOf(g, x).type = "Put"}
                |-> IF k \in Logged(g) THEN LastOf(g, k).val ELSE m[k]]
    BY <1>1, ReplayIntoGood, ZenonT(60)
  <2> HIDE DEF K
  <2> QED BY <1>5, <2>1
<1>8. D = E /\ \A k \in E : u(k) = v(k)
  <2> HIDE DEF K, L
  <2> QED BY <1>6
<1>9. ReplayInto(m, f) = [k \in D |-> u(k)]
  BY <1>4
<1> HIDE DEF D, E, u, v
<1>10. ReplayInto(m, f) = ReplayInto(m, g)
  BY <1>7, <1>8, <1>9
<1> QED BY <1>10 DEF n, g

\* The same for the highest sequence number.
LEMMA MaxSeqGoodPart ==
    ASSUME NEW f \in Seq(LogRecord)
    PROVE  MaxSeq(f) = MaxSeq(SubSeq(f, 1, GoodLen(f)))
<1> DEFINE n == GoodLen(f)
           g == SubSeq(f, 1, n)
<1>1. n \in 0..Len(f) /\ n \in Nat /\ g \in Seq(WalRecord)
  BY GoodLenType, GoodPart
<1>2. Len(g) = n /\ \A i \in 1..n : g[i] = f[i]
  BY <1>1, Part
<1>3. GoodLen(g) = n
  BY <1>1, <1>2, GoodLenWhole
<1>4. MaxSeq(f) = Max({0} \cup {f[i].seq : i \in 1..n})
  BY DEF MaxSeq
<1> HIDE DEF n, g
<1>5. {g[i].seq : i \in 1..n} = {f[i].seq : i \in 1..n}
  BY <1>2
<1> QED BY <1>3, <1>4, <1>5 DEF MaxSeq, n, g

\* The highest sequence number of an empty log.
LEMMA MaxSeqEmpty == MaxSeq(<<>>) = 0
<1>1. PICK e \in Seq(LogRecord) : e = <<>>
  BY EmptySeq
<1>2. GoodLen(e) = 0
  <2>1. GoodLen(e) \in 0..Len(e) BY GoodLenType
  <2>2. Len(e) = 0 BY <1>1
  <2> QED BY <2>1, <2>2
<1>3. {e[i].seq : i \in 1..0} = {}
  OBVIOUS
<1> DEFINE S == {0} \cup {e[i].seq : i \in 1..0}
<1>4. MaxSeq(e) = Max(S)
  BY <1>2 DEF MaxSeq
<1>5. S = {0}
  BY <1>3
<1> HIDE DEF S
<1>6. S \in SUBSET Nat /\ S # {} /\ \A y \in S : y <= 0
  BY <1>5
<1>7. Max(S) \in S
  BY <1>6, MaxOfBounded
<1> QED BY <1>1, <1>4, <1>5, <1>7

\* One more record raises the highest sequence number to its own, if that is
\* larger.
LEMMA MaxSeqAppend ==
    ASSUME NEW f \in Seq(WalRecord), NEW r \in WalRecord
    PROVE  MaxSeq(Append(f, r)) = IF r.seq > MaxSeq(f) THEN r.seq ELSE MaxSeq(f)
<1> DEFINE g == Append(f, r)
           n == Len(f)
           S == {0} \cup {f[i].seq : i \in 1..n}
           T == {0} \cup {g[i].seq : i \in 1..(n + 1)}
           max == MaxSeq(f)
<1>1. /\ g \in Seq(WalRecord) /\ Len(g) = n + 1 /\ n \in Nat /\ g[n + 1] = r
      /\ \A i \in 1..n : g[i] = f[i]
  OBVIOUS
<1>2. GoodLen(f) = n /\ GoodLen(g) = n + 1 /\ f \in Seq(LogRecord) /\ g \in Seq(LogRecord)
  BY <1>1, GoodLenWhole, GoodSeq
<1> HIDE DEF g
<1>3. T = S \cup {r.seq}
  <2>1. \A i \in 1..(n + 1) : i \in 1..n \/ i = n + 1 BY <1>1
  <2>2. 1..n \subseteq 1..(n + 1) /\ n + 1 \in 1..(n + 1) BY <1>1
  <2> QED BY <1>1, <2>1, <2>2
<1>4. max = Max(S) /\ MaxSeq(g) = Max(T)
  BY <1>2 DEF MaxSeq
<1>5. max \in Nat /\ r.seq \in Nat /\ \A i \in 1..n : f[i].seq \in Nat /\ f[i].seq <= max
  <2>1. \A i \in 1..n : f[i].seq \in Nat
    BY RecordFields
  <2> QED BY <1>2, <2>1, MaxSeqType DEF WalRecord
<1>6. S \in SUBSET Nat /\ S # {} /\ \A y \in S : y <= max
  BY <1>5
<1> HIDE DEF S, T, max
<1>7. max \in S
  BY <1>4, <1>5, <1>6, MaxOfBounded
<1> DEFINE top == IF r.seq > max THEN r.seq ELSE max
<1>8. top \in T /\ T \in SUBSET Nat /\ top \in Nat /\ \A y \in T : y <= top
  <2>1. r.seq > max \/ r.seq <= max BY <1>5
  <2>2. top \in {r.seq, max} /\ r.seq <= top /\ max <= top BY <1>5, <2>1
  <2> HIDE DEF top
  <2>3. top \in T /\ T \in SUBSET Nat /\ top \in Nat
    BY <1>3, <1>5, <1>6, <1>7, <2>2
  <2>4. \A y \in S : y <= top
    <3> TAKE y \in S
    <3> QED BY <1>5, <1>6, <2>2, <2>3
  <2> QED BY <1>3, <2>2, <2>3, <2>4
<1> HIDE DEF top
<1>9. Max(T) \in T /\ \A y \in T : y <= Max(T)
  BY <1>8, MaxOfBounded
<1>10. Max(T) = top
  <2> DEFINE x == Max(T)
  <2>1. x \in Nat /\ x <= top /\ top <= x BY <1>8, <1>9
  <2> HIDE DEF x
  <2> QED BY <1>8, <2>1 DEF x
<1> QED BY <1>4, <1>10 DEF top, max, g

\* replay_into's loop ends with the map and the number of the closed forms.
LEMMA ReplayIsLoop ==
    ASSUME NEW m \in MapSet, NEW f \in Seq(LogRecord)
    PROVE  /\ ReplayLoop(m, f).map = ReplayInto(m, f)
           /\ ReplayLoop(m, f).max_seq = MaxSeq(f)
<1> DEFINE N == Len(f)
           G == GoodLen(f)
           P(n) == SubSeq(f, 1, n)
           start == [stopped |-> FALSE, map |-> m, max_seq |-> 0]
           read(n) == [stopped |-> FALSE, map |-> ReplayInto(m, P(n)), max_seq |-> MaxSeq(P(n))]
           done == [stopped |-> TRUE, map |-> ReplayInto(m, P(G)), max_seq |-> MaxSeq(P(G))]
           g == [n \in 0..N |-> IF n <= G THEN read(n) ELSE done]
           Run(h) == [n \in 0..N |-> IF n = 0 THEN start ELSE ReplayStep(h[n - 1], f[n])]
<1>1. /\ N \in Nat /\ G \in 0..N
      /\ \A i \in 1..G : f[i] \in WalRecord /\ f[i].type # "Torn"
      /\ G < N => f[G + 1].type = "Torn"
  <2>1. N \in Nat /\ G \in 0..N /\ \A i \in 1..G : f[i] \in WalRecord
    BY GoodLenType
  <2>2. \A r \in WalRecord : r.type # "Torn"
    BY DEF WalRecord
  <2>3. \A n \in 0..N : (\A i \in 1..n : f[i].type # "Torn") => n <= G
    BY GoodLenType
  <2>4. ASSUME G < N, f[G + 1].type # "Torn" PROVE FALSE
    <3>1. G + 1 \in 0..N /\ \A i \in 1..(G + 1) : i \in 1..G \/ i = G + 1
      BY <2>1, <2>4
    <3>2. \A i \in 1..(G + 1) : f[i].type # "Torn"
      BY <2>1, <2>2, <2>4, <3>1
    <3>3. G + 1 <= G
      BY <2>3, <3>1, <3>2
    <3> QED BY <2>1, <3>3
  <2> QED BY <2>1, <2>2, <2>4
<1>2. P(0) = <<>>
  OBVIOUS
<1>3. \A n \in 1..G : P(n - 1) \in Seq(WalRecord) /\ P(n) = Append(P(n - 1), f[n])
  <2> TAKE n \in 1..G
  <2>1. n - 1 \in 0..G /\ n - 1 \in 0..Len(f) /\ n - 1 < Len(f) /\ (n - 1) + 1 = n BY <1>1
  <2>2. P(n - 1) \in Seq(WalRecord) BY <2>1, GoodPart
  <2>3. SubSeq(f, 1, (n - 1) + 1) = Append(SubSeq(f, 1, n - 1), f[(n - 1) + 1]) BY <2>1, Part
  <2> QED BY <2>1, <2>2, <2>3
<1> HIDE DEF P, G
<1>4. g[0] = start
  <2>1. g[0] = read(0) BY <1>1
  <2>2. ReplayInto(m, P(0)) = m /\ MaxSeq(P(0)) = 0 BY <1>2, ReplayEmpty, MaxSeqEmpty
  <2> HIDE DEF g
  <2> QED BY <2>1, <2>2
<1>5. \A n \in 1..N : g[n] = ReplayStep(g[n - 1], f[n])
  <2> TAKE n \in 1..N
  <2>1. n - 1 \in 0..N BY <1>1
  <2>2. CASE n <= G
    <3>1. g[n - 1] = read(n - 1) /\ g[n] = read(n) BY <1>1, <2>1, <2>2
    <3>2. n \in 1..G BY <1>1, <2>2
    <3>3. /\ P(n - 1) \in Seq(WalRecord) /\ P(n) = Append(P(n - 1), f[n])
          /\ f[n] \in WalRecord /\ f[n].type # "Torn"
      BY <1>1, <1>3, <3>2
    <3>4. /\ ReplayInto(m, P(n)) = ApplyRecord(ReplayInto(m, P(n - 1)), f[n])
          /\ MaxSeq(P(n)) = IF f[n].seq > MaxSeq(P(n - 1)) THEN f[n].seq ELSE MaxSeq(P(n - 1))
      BY <3>3, ReplayAppend, MaxSeqAppend
    <3> DEFINE a == ReplayInto(m, P(n - 1))
               b == ReplayInto(m, P(n))
               c == MaxSeq(P(n - 1))
               d == MaxSeq(P(n))
    <3>5. /\ g[n - 1] = [stopped |-> FALSE, map |-> a, max_seq |-> c]
          /\ g[n] = [stopped |-> FALSE, map |-> b, max_seq |-> d]
      BY <3>1
    <3> HIDE DEF a, b, c, d, g, P
    <3>6. b = ApplyRecord(a, f[n]) /\ d = (IF f[n].seq > c THEN f[n].seq ELSE c)
      BY <3>4 DEF a, b, c, d
    <3> QED BY <3>3, <3>5, <3>6 DEF ReplayStep
  <2>3. CASE n = G + 1
    <3>1. g[n - 1] = read(G) /\ g[n] = done /\ f[n].type = "Torn" BY <1>1, <2>1, <2>3
    <3> HIDE DEF g
    <3> QED BY <3>1 DEF ReplayStep
  <2>4. CASE n > G + 1
    <3>1. g[n - 1] = done /\ g[n] = done BY <1>1, <2>1, <2>4
    <3> HIDE DEF g
    <3> QED BY <3>1 DEF ReplayStep
  <2> QED BY <1>1, <2>2, <2>3, <2>4
<1>6. g = Run(g)
  <2>1. g = [n \in 0..N |-> g[n]] OBVIOUS
  <2> HIDE DEF g, start
  <2>2. \A n \in 0..N : g[n] = IF n = 0 THEN start ELSE ReplayStep(g[n - 1], f[n])
    BY <1>1, <1>4, <1>5
  <2> QED BY <2>1, <2>2
<1>7. ASSUME NEW h, h = Run(h) PROVE h[N] = g[N]
  <2> HIDE DEF g, start
  <2>1. h[0] = g[0]
    BY <1>1, <1>4, <1>7
  <2>2. \A n \in 1..N : h[n] = ReplayStep(h[n - 1], f[n])
    BY <1>1, <1>7
  <2>3. \A n \in 1..N : h[n - 1] = g[n - 1] => h[n] = g[n]
    BY <1>5, <2>2
  <2> DEFINE T == {n \in 0..N : h[n] = g[n]}
  <2> HIDE DEF N
  <2>4. 0 \in T /\ \A n \in 1..N : n - 1 \in T => n \in T
    BY <1>1, <2>1, <2>3
  <2>5. N \in T
    <3>1. T \in SUBSET Nat /\ N \in Nat /\ N \in 0..N BY <1>1
    <3> HIDE DEF T
    <3>2. \A n \in 0..N : n \in T BY <2>4, <3>1, EveryTurn
    <3> QED BY <3>1, <3>2
  <2> QED BY <2>5
<1> DEFINE loop == CHOOSE h : h = Run(h)
<1>8. loop = Run(loop)
  <2> HIDE DEF g, Run
  <2> QED BY <1>6
<1>9. ReplayLoop(m, f) = loop[N]
  BY DEF ReplayLoop
<1>10. loop[N] = g[N]
  <2> HIDE DEF loop, g, Run
  <2> QED BY <1>7, <1>8
<1>11. g[N].map = ReplayInto(m, P(G)) /\ g[N].max_seq = MaxSeq(P(G))
  <2>1. N = G \/ N > G BY <1>1
  <2>2. g[N] = IF N <= G THEN read(N) ELSE done BY <1>1
  <2> HIDE DEF N, g
  <2> QED BY <1>1, <2>1, <2>2
<1>12. ReplayInto(m, f) = ReplayInto(m, P(G)) /\ MaxSeq(f) = MaxSeq(P(G))
  BY ReplayGoodPart, MaxSeqGoodPart DEF P, G
<1> HIDE DEF g, loop
<1> QED BY <1>9, <1>10, <1>11, <1>12

\* Only the whole pairs of a snapshot file count.
LEMMA LoadWholePairs ==
    ASSUME NEW f \in Str
    PROVE  LoadFromFile(f) = LoadFromFile(SubSeq(f, 1, 2 * (Len(f) \div 2)))
<1> DEFINE H == Len(f) \div 2
           g == SubSeq(f, 1, 2 * H)
<1>1. Len(f) \in Nat /\ f \in Seq(Word)
  BY DEF Str
<1>2. H \in Nat /\ 2 * H \in 0..Len(f)
  BY <1>1
<1> HIDE DEF H
<1>3. Len(g) = 2 * H /\ \A i \in 1..(2 * H) : g[i] = f[i]
  BY <1>1, <1>2, Part
<1> HIDE DEF g
<1>4. Len(g) \div 2 = H
  BY <1>2, <1>3
<1>5. \A i \in 1..H : g[2*i - 1] = f[2*i - 1] /\ g[2*i] = f[2*i]
  BY <1>2, <1>3
<1>6. \A w : PairsOf(g, w) = PairsOf(f, w) /\ PairsOf(f, w) = {i \in 1..H : f[2*i - 1] = w}
  BY <1>4, <1>5 DEF PairsOf, H
<1> DEFINE Df == {<<f[2*i - 1]>> : i \in 1..H}
           Dg == {<<g[2*i - 1]>> : i \in 1..H}
           vf(k) == <<f[2 * Max(PairsOf(f, k[1]))]>>
           vg(k) == <<g[2 * Max(PairsOf(g, k[1]))]>>
<1>7. LoadFromFile(f) = [k \in Df |-> vf(k)] /\ LoadFromFile(g) = [k \in Dg |-> vg(k)]
  BY <1>4 DEF LoadFromFile, H
<1>8. Df = Dg
  BY <1>5
<1>9. \A k \in Df : vf(k) = vg(k)
  <2> TAKE k \in Df
  <2>1. PICK i \in 1..H : k = <<f[2*i - 1]>> OBVIOUS
  <2> DEFINE S == PairsOf(f, k[1])
  <2>2. S \in SUBSET Nat /\ i \in S /\ \A y \in S : y <= H /\ y \in 1..H
    <3>1. k[1] = f[2*i - 1] BY <2>1
    <3> QED BY <1>2, <1>6, <3>1
  <2>3. PairsOf(g, k[1]) = S BY <1>6
  <2> HIDE DEF S
  <2>4. Max(S) \in S BY <1>2, <2>2, MaxOfBounded
  <2>5. Max(S) \in 1..H BY <2>2, <2>4
  <2> DEFINE x == Max(S)
  <2> HIDE DEF x
  <2>6. g[2 * x] = f[2 * x] BY <1>5, <2>5 DEF x
  <2> QED BY <2>3, <2>6 DEF S, x
<1> HIDE DEF Df, Dg, vf, vg
<1>10. LoadFromFile(f) = LoadFromFile(g)
  BY <1>7, <1>8, <1>9
<1> QED BY <1>10 DEF g, H

\* The loop of load_from_file_unlocked ends with the map of the closed form.
LEMMA LoadIsLoop ==
    ASSUME NEW f \in Str
    PROVE  LoadLoop(f) = LoadFromFile(f)
<1> DEFINE H == Len(f) \div 2
           P(n) == SubSeq(f, 1, 2 * n)
           g == [n \in 0..H |-> LoadFromFile(P(n))]
           Run(h) == [n \in 0..H |-> IF n = 0 THEN EmptyMap
                                    ELSE MapPut(h[n - 1], <<f[2*n - 1]>>, <<f[2*n]>>)]
<1>1. Len(f) \in Nat /\ H \in Nat /\ 2 * H \in 0..Len(f) /\ f \in Seq(Word)
  BY DEF Str
<1> HIDE DEF H
<1>2. g[0] = EmptyMap
  <2>1. P(0) = <<>> BY <1>1
  <2>2. g[0] = LoadFromFile(P(0)) BY <1>1
  <2> HIDE DEF g, P
  <2> QED BY <2>1, <2>2, LoadEmpty
<1>3. \A n \in 1..H : g[n] = MapPut(g[n - 1], <<f[2*n - 1]>>, <<f[2*n]>>)
  <2> TAKE n \in 1..H
  <2> DEFINE o == n - 1
             a == f[2*n - 1]
             b == f[2*n]
  <2>1. /\ o \in Nat /\ 2 * o \in 0..Len(f) /\ 2*n - 1 \in 1..Len(f) /\ 2*n \in 1..Len(f)
        /\ 2 * o < Len(f) /\ 2*n - 1 < Len(f) /\ 2*n - 1 \in 0..Len(f)
        /\ 2 * o + 1 = 2*n - 1 /\ (2*n - 1) + 1 = 2*n
    BY <1>1
  <2>2. a \in Word /\ b \in Word
    BY <1>1, <2>1, ElementOfSeq
  <2>3. P(o) \in Str /\ Len(P(o)) = 2 * o
    BY <1>1, <2>1, Part DEF Str
  <2>4. SubSeq(f, 1, 2*n - 1) = Append(P(o), a)
    BY <1>1, <2>1, Part
  <2>5. P(n) = Append(SubSeq(f, 1, 2*n - 1), b)
    BY <1>1, <2>1, Part
  <2> HIDE DEF a, b, o, P
  <2>6. P(n) = P(o) \o <<a, b>>
    <3>1. P(o) \in Seq(Word) BY <2>3 DEF Str
    <3>2. Append(Append(P(o), a), b) = P(o) \o <<a, b>> BY <2>2, <3>1
    <3> QED BY <2>4, <2>5, <3>2
  <2>7. LoadFromFile(P(n)) = MapPut(LoadFromFile(P(o)), <<a>>, <<b>>)
    BY <2>1, <2>2, <2>3, <2>6, LoadLine
  <2>8. g[n] = LoadFromFile(P(n)) /\ g[o] = LoadFromFile(P(o))
    BY <1>1 DEF o
  <2> QED BY <2>7, <2>8 DEF a, b, o
<1>4. g = Run(g)
  <2>1. g = [n \in 0..H |-> g[n]] OBVIOUS
  <2> HIDE DEF g
  <2>2. \A n \in 0..H : g[n] = IF n = 0 THEN EmptyMap
                                ELSE MapPut(g[n - 1], <<f[2*n - 1]>>, <<f[2*n]>>)
    BY <1>1, <1>2, <1>3
  <2> QED BY <2>1, <2>2
<1>5. ASSUME NEW h, h = Run(h) PROVE h[H] = g[H]
  <2> HIDE DEF g
  <2>1. h[0] = g[0]
    BY <1>1, <1>2, <1>5
  <2>2. \A n \in 1..H : h[n] = MapPut(h[n - 1], <<f[2*n - 1]>>, <<f[2*n]>>)
    BY <1>1, <1>5
  <2>3. \A n \in 1..H : h[n - 1] = g[n - 1] => h[n] = g[n]
    BY <1>3, <2>2
  <2> DEFINE T == {n \in 0..H : h[n] = g[n]}
  <2>4. 0 \in T /\ \A n \in 1..H : n - 1 \in T => n \in T
    BY <1>1, <2>1, <2>3
  <2>5. H \in T
    <3>1. T \in SUBSET Nat /\ H \in Nat /\ H \in 0..H BY <1>1
    <3> HIDE DEF T
    <3>2. \A n \in 0..H : n \in T BY <2>4, <3>1, EveryTurn
    <3> QED BY <3>1, <3>2
  <2> QED BY <2>5
<1> DEFINE loop == CHOOSE h : h = Run(h)
<1>6. loop = Run(loop)
  <2> HIDE DEF g, Run
  <2> QED BY <1>4
<1>7. LoadLoop(f) = loop[H]
  BY DEF LoadLoop, H
<1>8. loop[H] = g[H]
  <2> HIDE DEF loop, g, Run
  <2> QED BY <1>5, <1>6
<1>9. g[H] = LoadFromFile(P(H))
  BY <1>1
<1>10. LoadFromFile(f) = LoadFromFile(P(H))
  BY LoadWholePairs DEF H
<1> HIDE DEF g, loop
<1> QED BY <1>7, <1>8, <1>9, <1>10
=============================================================================
