-------------------------- MODULE ObjectStoreProofs --------------------------
(***************************************************************************)
(* Theorems about ObjectStore, for every set of clients, names and         *)
(* requests, every chunk size and every number of calls and crashes.       *)
(***************************************************************************)
EXTENDS ObjectStore, SequenceTheorems, TLAPS

-----------------------------------------------------------------------------
(* What is stored, and where.                                               *)

\* The names of objects, as the codec joins them.
Names == {b \o k : b \in Buckets, k \in Keys}

KVKey == [kind : {"bucket", "objmeta", "bucketidx", "objchunk"}, path : Seq(Int)]

Meta == [object_id : Seq(Int), bucket : Seq(Nat), key : Seq(Nat), size_bytes : Nat,
         chunk_count : Nat, content_type : Seq(STRING), etag : Seq(Nat),
         state : {"Pending", "Committed", "Deleted"}]

KVVal == Seq(Int) \cup Meta

\* The values of a key: metadata, or bytes and names.
Fits(k, v) == v \in KVVal /\ (k.kind = "objmeta" => v \in Meta) /\ (k.kind # "objmeta" => v \in Seq(Int))

\* The maps the KV store may hold.
KVMap ==
    {m \in UNION {[D -> KVVal] : D \in SUBSET KVKey} : \A k \in DOMAIN m : Fits(k, m[k])}

\* The KV calls an operation may queue: only index entries are removed, and
\* metadata goes to the name of an object.
KVCall ==
    {x \in [call : {"put", "del"}, key : KVKey, val : KVVal] :
        /\ x.call = "put" => Fits(x.key, x.val)
        /\ x.key.kind = "objmeta" => x.key.path \in Names
        /\ x.call = "del" => x.key.kind = "bucketidx"}

OpState ==
    [pc : PcNames, name : OpNames \cup {""}, bucket : Seq(Nat), key : Seq(Nat), queue : Seq(KVCall),
     meta : Meta, i : Nat, data : Seq(Int), error : BOOLEAN, todo : SUBSET KVKey,
     listed : SUBSET Meta, reachable : SUBSET Seq(Int), settled : SUBSET Meta,
     garbage : SUBSET KVKey]

\* The last map of a timeline, and all of them: what a crash can leave.
CurOf(tl) == tl[Len(tl)]

MapsOf(tl) == {tl[i] : i \in DOMAIN tl}

Cur == CurOf(timeline)

\* What the locals of one operation satisfy, m being the current map.
OpOK(m, o) ==
    /\ o.i <= o.meta.chunk_count
    /\ o.pc = "write" => o.queue # <<>>
    /\ o.pc = "mark" => \A k \in o.todo : k \in DOMAIN m /\ k.kind = "objmeta"
    /\ o.pc = "sweep" => \A k \in o.todo : k.kind = "objchunk"

TimelineOK(tl) == tl \in Seq(KVMap) /\ tl # <<>>

TypeInv ==
    /\ TimelineOK(timeline)
    /\ up \in BOOLEAN /\ now \in Int
    /\ op \in [Clients -> OpState] /\ recent \in [Names -> SUBSET Meta]
    /\ count \in [Events -> Nat]
    /\ \A c \in Clients : OpOK(Cur, op[c])
    /\ up \/ \A c \in Clients : op[c] = Idle

-----------------------------------------------------------------------------
(* Maps and timelines.                                                      *)

\* The domain and the values of a map.
LEMMA MapFields ==
    ASSUME NEW m \in KVMap
    PROVE  /\ DOMAIN m \subseteq KVKey /\ m = [k \in DOMAIN m |-> m[k]]
           /\ \A k \in DOMAIN m : Fits(k, m[k])
  BY DEF KVMap

\* A function on keys whose values fit is a map.
LEMMA IsKVMap ==
    ASSUME NEW D \in SUBSET KVKey, NEW m, m = [k \in D |-> m[k]], \A k \in D : Fits(k, m[k])
    PROVE  m \in KVMap
<1>1. m \in [D -> KVVal] BY DEF Fits
<1> QED BY <1>1 DEF KVMap

\* Map u is m with v at k, or m without k.
IsPut(u, m, k, v) ==
    /\ u \in KVMap /\ DOMAIN u = DOMAIN m \cup {k} /\ u[k] = v
    /\ \A x \in DOMAIN m : x # k => u[x] = m[x]

IsErased(u, m, k) ==
    u \in KVMap /\ DOMAIN u = DOMAIN m \ {k} /\ \A x \in DOMAIN u : u[x] = m[x]

\* put() of the KV store.
LEMMA MapPutType ==
    ASSUME NEW m \in KVMap, NEW k \in KVKey, NEW v, Fits(k, v)
    PROVE  IsPut(KV!MapPut(m, k, v), m, k, v)
<1> DEFINE D == DOMAIN m \cup {k}
           u == KV!MapPut(m, k, v)
<1>1. u = [x \in D |-> IF x = k THEN v ELSE m[x]]
  BY DEF KV!MapPut
<1>2. D \in SUBSET KVKey /\ \A x \in DOMAIN m : Fits(x, m[x])
  BY MapFields
<1> HIDE DEF D, u
<1>3. u = [x \in D |-> u[x]] /\ \A x \in D : Fits(x, u[x])
  BY <1>1, <1>2 DEF D
<1>4. u \in KVMap
  BY <1>2, <1>3, IsKVMap
<1> QED BY <1>1, <1>4 DEF D, u, IsPut

\* del() of the KV store.
LEMMA MapEraseType ==
    ASSUME NEW m \in KVMap, NEW k
    PROVE  IsErased(KV!MapErase(m, k), m, k)
<1> DEFINE D == DOMAIN m \ {k}
           u == KV!MapErase(m, k)
<1>1. u = [x \in D |-> m[x]]
  BY DEF KV!MapErase
<1>2. D \in SUBSET KVKey /\ \A x \in DOMAIN m : Fits(x, m[x])
  BY MapFields
<1> HIDE DEF D, u
<1>3. u = [x \in D |-> u[x]] /\ \A x \in D : Fits(x, u[x])
  BY <1>1, <1>2 DEF D
<1>4. u \in KVMap
  BY <1>2, <1>3, IsKVMap
<1> QED BY <1>1, <1>4 DEF D, u, IsErased

\* The current map is one of the timeline.
LEMMA CurIsOne ==
    ASSUME NEW tl, TimelineOK(tl)
    PROVE  /\ CurOf(tl) \in MapsOf(tl) /\ CurOf(tl) \in KVMap /\ \A m \in MapsOf(tl) : m \in KVMap
           /\ Len(tl) \in Nat \ {0} /\ DOMAIN tl = 1..Len(tl)
<1>1. tl \in Seq(KVMap) /\ tl # <<>>
  BY DEF TimelineOK
<1>2. Len(tl) \in Nat \ {0} /\ DOMAIN tl = 1..Len(tl) /\ \A i \in 1..Len(tl) : tl[i] \in KVMap
  BY <1>1, EmptySeq, LenProperties, ElementOfSeq
<1> QED BY <1>2 DEF CurOf, MapsOf

\* A write adds a map.
LEMMA TimelineAppend ==
    ASSUME NEW tl, TimelineOK(tl), NEW m \in KVMap
    PROVE  LET u == Append(tl, m)
           IN  TimelineOK(u) /\ CurOf(u) = m /\ MapsOf(u) = MapsOf(tl) \cup {m}
<1> DEFINE u == Append(tl, m)
<1>1. tl \in Seq(KVMap) /\ Len(tl) \in Nat /\ DOMAIN tl = 1..Len(tl)
  BY LenProperties DEF TimelineOK
<1>2. /\ u \in Seq(KVMap) /\ u # <<>> /\ Len(u) = Len(tl) + 1
      /\ \A i \in 1..Len(tl) : u[i] = tl[i]
      /\ u[Len(tl) + 1] = m
  BY <1>1, AppendProperties
<1>3. DOMAIN u = 1..Len(u) BY <1>2, LenProperties
<1> HIDE DEF u
<1>4. MapsOf(u) = MapsOf(tl) \cup {m}
  <2>1. \A x \in MapsOf(u) : x \in MapsOf(tl) \cup {m}
    BY <1>1, <1>2, <1>3 DEF MapsOf
  <2>2. \A x \in MapsOf(tl) : x \in MapsOf(u)
    <3> SUFFICES ASSUME NEW i \in 1..Len(tl) PROVE tl[i] \in MapsOf(u)
      BY <1>1 DEF MapsOf
    <3>1. i \in DOMAIN u /\ u[i] = tl[i] BY <1>1, <1>2, <1>3
    <3> QED BY <3>1 DEF MapsOf
  <2>3. m \in MapsOf(u)
    <3>1. Len(tl) + 1 \in DOMAIN u BY <1>1, <1>2, <1>3
    <3> QED BY <1>2, <3>1 DEF MapsOf
  <2> QED BY <2>1, <2>2, <2>3
<1> QED BY <1>2, <1>4 DEF TimelineOK, CurOf, u

\* A flush forgets all but the current map.
LEMMA TimelineFlush ==
    ASSUME NEW tl, TimelineOK(tl)
    PROVE  LET u == <<CurOf(tl)>>
           IN  TimelineOK(u) /\ CurOf(u) = CurOf(tl) /\ MapsOf(u) = {CurOf(tl)}
<1>1. CurOf(tl) \in KVMap BY CurIsOne
<1> QED BY <1>1 DEF TimelineOK, CurOf, MapsOf

\* Recovery returns to one of the maps.
LEMMA TimelinePrefix ==
    ASSUME NEW tl, TimelineOK(tl), NEW i \in 1..Len(tl)
    PROVE  LET u == SubSeq(tl, 1, i)
           IN  TimelineOK(u) /\ MapsOf(u) \subseteq MapsOf(tl)
<1> DEFINE u == SubSeq(tl, 1, i)
<1>1. tl \in Seq(KVMap) /\ Len(tl) \in Nat /\ DOMAIN tl = 1..Len(tl)
  BY LenProperties DEF TimelineOK
<1>2. u \in Seq(KVMap) /\ Len(u) = i /\ \A j \in 1..i : u[j] = tl[j]
  BY <1>1
<1>3. u # <<>> /\ DOMAIN u = 1..i BY <1>2, EmptySeq, LenProperties
<1> HIDE DEF u
<1> QED BY <1>1, <1>2, <1>3 DEF TimelineOK, MapsOf, u

-----------------------------------------------------------------------------
(* Types.                                                                   *)

\* Metadata that is missing, or that cannot be read, is metadata too.
LEMMA NoMetaType == NoMeta \in Meta /\ NoMeta.chunk_count = 0
<1>1. <<>> \in Seq(Int) /\ <<>> \in Seq(Nat) /\ <<>> \in Seq(STRING)
  OBVIOUS
<1> QED BY <1>1 DEF NoMeta, Meta

\* The locals of a client that runs no operation.
LEMMA IdleType ==
    /\ Idle \in OpState /\ Idle.pc = "idle" /\ Idle.name = "" /\ \A m : OpOK(m, Idle)
    /\ Idle.i = 0 /\ Idle.meta = NoMeta /\ Idle.data = <<>> /\ Idle.reachable = {}
<1>1. <<>> \in Seq(Int) /\ <<>> \in Seq(Nat) /\ <<>> \in Seq(KVCall)
  OBVIOUS
<1>2. /\ Idle \in OpState /\ Idle.pc = "idle" /\ Idle.i = 0 /\ Idle.meta = NoMeta /\ Idle.name = ""
      /\ Idle.data = <<>> /\ Idle.reachable = {}
  BY <1>1, NoMetaType DEF Idle, OpState, PcNames, OpNames
<1>3. Idle.i <= Idle.meta.chunk_count
  <2>1. Idle.i = 0 /\ Idle.meta.chunk_count = 0 BY <1>2, NoMetaType, Zenon
  <2> QED BY <2>1
<1> QED BY <1>2, <1>3 DEF OpOK

\* The metadata stored for a name.
LEMMA StoredMetaType ==
    ASSUME TypeInv, NEW p PROVE StoredMeta(p) \in Meta /\ Deserialize(StoredMeta(p)) \in Meta
<1> DEFINE k == [kind |-> "objmeta", path |-> p]
<1>1. Cur \in KVMap BY CurIsOne DEF TypeInv, Cur
<1>2. StoredMeta(p) = IF k \in DOMAIN Cur THEN Cur[k] ELSE NoMeta
  BY DEF StoredMeta, Has, Get, KV!Current, Cur, CurOf
<1>3. StoredMeta(p) \in Meta
  BY <1>1, <1>2, MapFields, NoMetaType DEF Fits
<1> QED BY <1>3, NoMetaType DEF Deserialize
\* Names are sequences of integers, and so are object ids.
LEMMA NameTypes ==
    ASSUME NEW b \in Seq(Nat), NEW k \in Seq(Nat)
    PROVE  /\ b \in Seq(Int) /\ b \o k \in Seq(Int) /\ b \o k \in Seq(Nat)
           /\ \A ms \in Int : MakeObjectId(b, k, ms) \in Seq(Int)
<1>1. b \in Seq(Int) /\ k \in Seq(Int) BY SeqMonotonic
<1>2. b \o k \in Seq(Int) /\ b \o k \in Seq(Nat) BY <1>1
<1>3. \A ms \in Int : <<ms>> \in Seq(Int) OBVIOUS
<1> QED BY <1>1, <1>2, <1>3 DEF MakeObjectId

\* The name of an object.
LEMMA NameOfObject == ASSUME NEW b \in Buckets, NEW k \in Keys PROVE b \o k \in Names
  BY DEF Names

\* The chunk size is positive and so chunks have one.
LEMMA ChunkSizeType == chunk_size_bytes_ \in Nat \ {0}
  BY ObjectStoreAssumption DEF chunk_size_bytes_, DefaultChunkSize

\* The number of chunks.
LEMMA ChunkCountType ==
    ASSUME NEW size \in Nat PROVE ChunkCount(size) \in Nat
<1>1. PICK cs \in Nat \ {0} : cs = chunk_size_bytes_ BY ChunkSizeType
<1>2. size + cs - 1 \in Nat BY <1>1
<1>3. \A a \in Nat : a \div cs \in Nat BY <1>1
<1> QED BY <1>1, <1>2, <1>3 DEF ChunkCount

\* A chunk is a sequence of bytes.
LEMMA ChunkValueType ==
    ASSUME NEW data \in Seq(Nat), NEW i \in Nat PROVE ChunkValue(data, i) \in Seq(Int)
<1>1. PICK cs \in Nat \ {0} : cs = chunk_size_bytes_ BY ChunkSizeType
<1>2. i * cs \in Nat BY <1>1
<1> DEFINE start == i * cs
           end == IF start + cs < Len(data) THEN start + cs ELSE Len(data)
<1>3. ChunkValue(data, i) = SubSeq(data, start + 1, end)
  BY <1>1 DEF ChunkValue
<1>4. start \in Nat BY <1>2
<1> HIDE DEF start
<1>5. end \in Nat /\ end <= Len(data) BY <1>1, <1>4
<1> HIDE DEF end
<1>6. \A j \in (start + 1)..end : data[j] \in Int BY <1>4, <1>5
<1>7. SubSeq(data, start + 1, end) \in Seq(Int) BY <1>4, <1>5, <1>6, SubSeqProperties
<1> QED BY <1>3, <1>7

\* A function on 1..n is a sequence.
LEMMA FunIsSeq ==
    ASSUME NEW S, NEW n \in Nat, NEW f \in [1..n -> S] PROVE f \in Seq(S) /\ Len(f) = n
  OBVIOUS

\* Calls f, then x and y.
EndsWith(q, f, x, y) ==
    /\ q \in Seq(KVCall) /\ Len(q) = Len(f) + 2 /\ q # <<>>
    /\ \A j \in 1..Len(f) : q[j] = f[j]
    /\ q[Len(f) + 1] = x /\ q[Len(f) + 2] = y

\* A sequence of calls that ends in two more.
LEMMA TwoMore ==
    ASSUME NEW f \in Seq(KVCall), NEW x \in KVCall, NEW y \in KVCall
    PROVE  EndsWith(f \o <<x, y>>, f, x, y)
<1> DEFINE q == f \o <<x, y>>
<1>1. <<x, y>> \in Seq(KVCall) /\ Len(<<x, y>>) = 2 /\ <<x, y>>[1] = x /\ <<x, y>>[2] = y
  OBVIOUS
<1>2. Len(f) \in Nat OBVIOUS
<1>3. /\ q \in Seq(KVCall) /\ Len(q) = Len(f) + 2
      /\ \A j \in 1..(Len(f) + 2) : q[j] = IF j <= Len(f) THEN f[j] ELSE <<x, y>>[j - Len(f)]
  BY <1>1, ConcatProperties
<1>4. /\ \A j \in 1..Len(f) : q[j] = f[j]
      /\ q[Len(f) + 1] = x /\ q[Len(f) + 2] = y
  BY <1>1, <1>2, <1>3
<1> QED BY <1>2, <1>3, <1>4, EmptySeq DEF EndsWith

\* The calls queued by PutObject: the chunks, the metadata, the index entry.
IsPutQueue(q, t) ==
    /\ q \in Seq(KVCall) /\ Len(q) = t.chunk_count + 2 /\ q # <<>>
    /\ \A j \in 1..t.chunk_count : q[j] = PutCall(ChunkKey(t.object_id, j - 1), ChunkValue(t.etag, j - 1))
    /\ q[t.chunk_count + 1] = PutCall(ObjectMetaKey(t.bucket, t.key), t)
    /\ q[t.chunk_count + 2] = PutCall(BucketIndexKey(t.bucket, t.key), t.object_id)

\* PutCalls has that form.
LEMMA PutCallsType ==
    ASSUME NEW t \in Meta, t.bucket \in Buckets, t.key \in Keys
    PROVE  IsPutQueue(PutCalls(t.object_id, t), t)
<1> DEFINE id == t.object_id
           n == t.chunk_count
           f == [j \in 1..n |-> PutCall(ChunkKey(id, j - 1), ChunkValue(t.etag, j - 1))]
           x == PutCall(ObjectMetaKey(t.bucket, t.key), t)
           y == PutCall(BucketIndexKey(t.bucket, t.key), id)
<1>1. id \in Seq(Int) /\ n \in Nat /\ t.etag \in Seq(Nat) /\ t.bucket \in Seq(Nat) /\ t.key \in Seq(Nat)
  BY DEF Meta
<1>2. \A j \in 1..n : f[j] \in KVCall
  <2> SUFFICES ASSUME NEW j \in 1..n PROVE PutCall(ChunkKey(id, j - 1), ChunkValue(t.etag, j - 1)) \in KVCall
    OBVIOUS
  <2>1. j - 1 \in Nat BY <1>1
  <2>2. Append(id, j - 1) \in Seq(Int) BY <1>1, <2>1
  <2>3. ChunkValue(t.etag, j - 1) \in Seq(Int) BY <1>1, <2>1, ChunkValueType
  <2> QED BY <2>2, <2>3 DEF PutCall, ChunkKey, KVCall, KVKey, KVVal, Fits
<1>3. f \in Seq(KVCall) /\ Len(f) = n
  <2>1. f \in [1..n -> KVCall] BY <1>2
  <2> HIDE DEF f
  <2> QED BY <1>1, <2>1, FunIsSeq
<1>4. t.bucket \o t.key \in Seq(Int) /\ t.bucket \o t.key \in Names
  <2>1. t.bucket \o t.key \in Seq(Int) BY <1>1, NameTypes
  <2>2. t.bucket \o t.key \in Names BY NameOfObject
  <2> QED BY <2>1, <2>2
<1>5. x \in KVCall BY <1>4 DEF PutCall, ObjectMetaKey, KVCall, KVKey, KVVal, Fits
<1>6. y \in KVCall BY <1>1, <1>4 DEF PutCall, BucketIndexKey, KVCall, KVKey, KVVal, Fits
<1>7. PutCalls(id, t) = f \o <<x, y>> BY DEF PutCalls
<1>8. \A j \in 1..n : f[j] = PutCall(ChunkKey(id, j - 1), ChunkValue(t.etag, j - 1)) OBVIOUS
<1> HIDE DEF f, x, y
<1> DEFINE q == f \o <<x, y>>
<1>9. /\ q \in Seq(KVCall) /\ Len(q) = n + 2 /\ q # <<>>
      /\ \A j \in 1..n : q[j] = f[j]
      /\ q[n + 1] = x /\ q[n + 2] = y
  <2>1. EndsWith(q, f, x, y) BY <1>3, <1>5, <1>6, TwoMore
  <2> HIDE DEF q
  <2> QED BY <1>3, <2>1 DEF EndsWith
<1>10. q = PutCalls(id, t) BY <1>7
<1> HIDE DEF q
<1> QED BY <1>8, <1>9, <1>10 DEF IsPutQueue, x, y

\* The calls queued by DeleteObject.
LEMMA DeleteCallsType ==
    ASSUME NEW b \in Buckets, NEW k \in Keys, NEW t \in Meta
    PROVE  LET q == DeleteCalls(b, k, t)
               u == [t EXCEPT !.state = "Deleted"]
           IN  /\ q \in Seq(KVCall) /\ Len(q) = 2 /\ q # <<>>
               /\ u \in Meta /\ q[1] = PutCall(ObjectMetaKey(b, k), u)
               /\ q[2] = DelCall(BucketIndexKey(b, k))
<1> DEFINE u == [t EXCEPT !.state = "Deleted"]
           x == PutCall(ObjectMetaKey(b, k), u)
           y == DelCall(BucketIndexKey(b, k))
<1>1. b \o k \in Seq(Int) /\ b \o k \in Names
  <2>1. b \in Seq(Nat) /\ k \in Seq(Nat) BY ObjectStoreAssumption
  <2>2. b \o k \in Seq(Int) BY <2>1, NameTypes
  <2>3. b \o k \in Names BY NameOfObject
  <2> QED BY <2>2, <2>3
<1>2. u \in Meta BY DEF Meta
<1>3. x \in KVCall BY <1>1, <1>2 DEF PutCall, ObjectMetaKey, KVCall, KVKey, KVVal, Fits
<1>4. y \in KVCall BY <1>1, NoMetaType DEF DelCall, BucketIndexKey, KVCall, KVKey, KVVal, Fits
<1>5. DeleteCalls(b, k, t) = <<x, y>> BY DEF DeleteCalls
<1> HIDE DEF x, y
<1>6. <<x, y>> \in Seq(KVCall) /\ Len(<<x, y>>) = 2 /\ <<x, y>> # <<>> BY <1>3, <1>4
<1> QED BY <1>2, <1>5, <1>6 DEF x, y
-----------------------------------------------------------------------------
(* Steps.                                                                   *)

\* The locals b are those of a, but that fewer objects may be settled.
Same(a, b) ==
    /\ a.pc = b.pc /\ a.name = b.name /\ a.bucket = b.bucket /\ a.key = b.key /\ a.queue = b.queue
    /\ a.meta = b.meta /\ a.i = b.i /\ a.data = b.data /\ a.error = b.error /\ a.todo = b.todo
    /\ a.listed = b.listed /\ a.reachable = b.reachable /\ a.garbage = b.garbage
    /\ b.settled \subseteq a.settled

\* Client c goes on with locals o and the others stay where they are.
Moves(c, o) ==
    /\ op' \in [Clients -> OpState] /\ op'[c] = o
    /\ \A d \in Clients \ {c} : Same(op[d], op'[d])

\* No metadata is removed on the way from m to n.
KeepsMeta(m, n) == \A k \in DOMAIN m : k.kind = "objmeta" => k \in DOMAIN n

\* Goto moves one client.
LEMMA GotoMoves ==
    ASSUME TypeInv, NEW c \in Clients, NEW o \in OpState, Goto(c, o) PROVE Moves(c, o)
  BY DEF TypeInv, Goto, Moves, Same

\* So does a step that begins with Unsettle.
LEMMA UnsettleMoves ==
    ASSUME TypeInv, NEW c \in Clients, NEW o \in OpState, NEW p,
           op' = [Unsettle(p) EXCEPT ![c] = o]
    PROVE  Moves(c, o)
<1> DEFINE s(d) == [op[d] EXCEPT !.settled = {t \in @ : t.bucket \o t.key # p}]
<1>1. \A d \in Clients : s(d) \in OpState /\ Same(op[d], s(d))
  <2> SUFFICES ASSUME NEW d \in Clients PROVE s(d) \in OpState /\ Same(op[d], s(d))
    OBVIOUS
  <2>1. op[d] \in OpState BY DEF TypeInv
  <2> QED BY <2>1 DEF OpState, Same
<1>2. Unsettle(p) = [d \in Clients |-> s(d)]
  BY DEF Unsettle
<1> HIDE DEF s
<1>3. /\ op' \in [Clients -> OpState] /\ op'[c] = o
      /\ \A d \in Clients \ {c} : op'[d] = s(d)
  BY <1>1, <1>2
<1> QED BY <1>1, <1>3 DEF Moves

\* One more event.
LEMMA CountedType ==
    ASSUME TypeInv, NEW e, Counted(e) PROVE count' \in [Events -> Nat]
<1>1. count \in [Events -> Nat] /\ count' = [count EXCEPT ![e] = @ + 1] BY DEF TypeInv, Counted
<1>2. \A x \in Nat : x + 1 \in Nat OBVIOUS
<1> QED BY <1>1, <1>2

\* A step in which one client moves.
LEMMA StepType ==
    ASSUME TypeInv, NEW c \in Clients, NEW o \in OpState, Moves(c, o), OpOK(Cur', o),
           TimelineOK(timeline'), KeepsMeta(Cur, Cur'), up, up' = up, now' \in Int,
           recent' \in [Names -> SUBSET Meta], count' \in [Events -> Nat]
    PROVE  TypeInv'
<1>1. ASSUME NEW d \in Clients PROVE OpOK(Cur', op'[d])
  <2>1. CASE d = c BY <2>1 DEF Moves
  <2>2. CASE d # c
    <3>1. Same(op[d], op'[d]) /\ OpOK(Cur, op[d]) BY <2>2 DEF Moves, TypeInv
    <3> QED BY <3>1 DEF OpOK, Same, KeepsMeta
  <2> QED BY <2>1, <2>2
<1>2. op' \in [Clients -> OpState] BY DEF Moves
<1>3. up' \in BOOLEAN /\ up' BY Zenon DEF TypeInv
<1> QED BY <1>1, <1>2, <1>3, Zenon DEF TypeInv

\* A step that changes no map.
LEMMA QuietType ==
    ASSUME TypeInv, NEW c \in Clients, NEW o \in OpState, Moves(c, o), OpOK(Cur, o),
           UNCHANGED <<timeline, up, recent>>, up, now' \in Int, count' \in [Events -> Nat]
    PROVE  TypeInv'
<1>1. TimelineOK(timeline') /\ Cur' = Cur BY DEF TypeInv, Cur
<1>2. KeepsMeta(Cur, Cur') /\ OpOK(Cur', o) BY <1>1 DEF KeepsMeta
<1>3. recent' \in [Names -> SUBSET Meta] BY DEF TypeInv
<1>4. up' = up OBVIOUS
<1> QED BY <1>1, <1>2, <1>3, <1>4, StepType

\* What CreateBucket, PutObject and DeleteObject leave to be written.
Begun(name, b, k, q) ==
    [Idle EXCEPT !.pc = "write", !.name = name, !.bucket = b, !.key = k, !.queue = q]

\* They are locals.
LEMMA BegunType ==
    ASSUME NEW name \in OpNames, NEW b \in Seq(Nat), NEW k \in Seq(Nat), NEW q \in Seq(KVCall), q # <<>>
    PROVE  LET o == Begun(name, b, k, q)
           IN  /\ o \in OpState /\ o.pc = "write" /\ o.name = name /\ o.bucket = b /\ o.key = k
               /\ o.queue = q /\ \A m : OpOK(m, o)
<1> DEFINE o == Begun(name, b, k, q)
<1>1. /\ o \in OpState /\ o.pc = "write" /\ o.name = name /\ o.bucket = b /\ o.key = k
      /\ o.queue = q /\ o.i = Idle.i /\ o.meta = Idle.meta
  BY IdleType DEF Begun, OpState, PcNames
<1>2. Idle.i <= Idle.meta.chunk_count BY IdleType DEF OpOK
<1> HIDE DEF o
<1> QED BY <1>1, <1>2 DEF OpOK, o

\* CreateBucket.
LEMMA CreateBucketMoves ==
    ASSUME TypeInv, NEW c \in Clients, NEW b \in Buckets, CreateBucket(c, b)
    PROVE  LET q == <<PutCall(BucketMetaKey(b), b)>>
           IN  /\ q \in Seq(KVCall) /\ Len(q) = 1 /\ q[1] = PutCall(BucketMetaKey(b), b)
               /\ Moves(c, Begun("create", <<>>, <<>>, q))
<1> DEFINE x == PutCall(BucketMetaKey(b), b)  q == <<x>>
<1>1. b \in Seq(Int) BY NameTypes, ObjectStoreAssumption
<1>2. x \in KVCall BY <1>1 DEF PutCall, BucketMetaKey, KVCall, KVKey, KVVal, Fits
<1> HIDE DEF x
<1>3. q \in Seq(KVCall) /\ Len(q) = 1 /\ q[1] = x /\ q # <<>> BY <1>2
<1>4. Idle.bucket = <<>> /\ Idle.key = <<>> BY DEF Idle
<1>5. Idle \in OpState BY IdleType
<1>6. [Idle EXCEPT !.pc = "write", !.name = "create", !.queue = q] = Begun("create", <<>>, <<>>, q)
  <2> QED BY <1>4, <1>5 DEF Begun, OpState
<1>7. Goto(c, Begun("create", <<>>, <<>>, q)) BY <1>6 DEF CreateBucket, x
<1>8. Begun("create", <<>>, <<>>, q) \in OpState
  <2>1. <<>> \in Seq(Nat) /\ "create" \in OpNames BY DEF OpNames
  <2> HIDE DEF q
  <2> QED BY <1>3, <2>1, BegunType
<1> QED BY <1>3, <1>7, <1>8, GotoMoves DEF x

\* The metadata that PutObject writes for a request, ms being the time.
NewMeta(req, ms) ==
    [object_id |-> MakeObjectId(req.bucket, req.key, ms), bucket |-> req.bucket, key |-> req.key,
     size_bytes |-> Len(req.data), chunk_count |-> ChunkCount(Len(req.data)),
     content_type |-> req.content_type, etag |-> req.data, state |-> "Committed"]

\* It is metadata.
LEMMA NewMetaType ==
    ASSUME NEW req \in Requests, NEW ms \in Int
    PROVE  NewMeta(req, ms) \in Meta /\ req.bucket \in Buckets /\ req.key \in Keys
<1>1. req \in PutObjectRequest BY ObjectStoreAssumption
<1>2. /\ req.bucket \in Buckets /\ req.key \in Keys /\ req.data \in Seq(Nat)
      /\ req.content_type \in Seq(STRING)
  BY <1>1 DEF PutObjectRequest
<1>3. req.bucket \in Seq(Nat) /\ req.key \in Seq(Nat) BY <1>2, ObjectStoreAssumption
<1>4. MakeObjectId(req.bucket, req.key, ms) \in Seq(Int) BY <1>3, NameTypes
<1>5. Len(req.data) \in Nat BY <1>2
<1>6. ChunkCount(Len(req.data)) \in Nat BY <1>5, ChunkCountType
<1> QED BY <1>2, <1>3, <1>4, <1>5, <1>6 DEF NewMeta, Meta

\* PutObject.
LEMMA PutObjectMoves ==
    ASSUME TypeInv, NEW c \in Clients, NEW req \in Requests, PutObject(c, req)
    PROVE  LET t == NewMeta(req, now')
               q == PutCalls(t.object_id, t)
           IN  /\ now' \in Int /\ t \in Meta /\ IsPutQueue(q, t) /\ t.bucket \in Buckets /\ t.key \in Keys
               /\ Moves(c, Begun("put", req.bucket, req.key, q))
<1> DEFINE t == NewMeta(req, now')
           q == PutCalls(t.object_id, t)
<1>1. now' \in Int BY ObjectStoreAssumption DEF PutObject, TypeInv
<1>2. t \in Meta /\ req.bucket \in Buckets /\ req.key \in Keys BY <1>1, NewMetaType
<1>3. t.bucket = req.bucket /\ t.key = req.key /\ t.object_id = MakeObjectId(req.bucket, req.key, now')
  BY DEF NewMeta
<1>4. op' = [Unsettle(req.bucket \o req.key) EXCEPT ![c] = Begun("put", req.bucket, req.key, q)]
  BY <1>3 DEF PutObject, Begun, NewMeta
<1> HIDE DEF t
<1>5. IsPutQueue(q, t) BY <1>2, <1>3, PutCallsType
<1> HIDE DEF q
<1>6. Begun("put", req.bucket, req.key, q) \in OpState
  <2>1. q \in Seq(KVCall) /\ q # <<>> BY <1>5 DEF IsPutQueue
  <2>2. req.bucket \in Seq(Nat) /\ req.key \in Seq(Nat) /\ "put" \in OpNames
    BY <1>2, ObjectStoreAssumption DEF OpNames
  <2> QED BY <2>1, <2>2, BegunType
<1>7. Moves(c, Begun("put", req.bucket, req.key, q)) BY <1>4, <1>6, UnsettleMoves
<1> QED BY <1>1, <1>2, <1>3, <1>5, <1>7 DEF t, q

\* DeleteObject.
LEMMA DeleteObjectMoves ==
    ASSUME TypeInv, NEW c \in Clients, NEW b \in Buckets, NEW k \in Keys, DeleteObject(c, b, k)
    PROVE  LET t == Cur[ObjectMetaKey(b, k)]
           IN  /\ ObjectMetaKey(b, k) \in DOMAIN Cur /\ t \in Meta /\ Deserialize(t) = t /\ t # NoMeta
               /\ Moves(c, Begun("delete", b, k, DeleteCalls(b, k, t)))
<1> DEFINE x == ObjectMetaKey(b, k)
           t == Cur[x]
           q == DeleteCalls(b, k, t)
<1>1. x \in DOMAIN Cur /\ Readable(t)
  BY DEF DeleteObject, Has, Get, KV!Current, Cur, CurOf
<1>2. Deserialize(t) = t /\ t # NoMeta BY <1>1 DEF Readable, Deserialize
<1>3. Cur \in KVMap BY CurIsOne DEF TypeInv, Cur
<1>4. x.kind = "objmeta" BY DEF ObjectMetaKey
<1>5. t \in Meta BY <1>1, <1>3, <1>4, MapFields DEF Fits
<1>6. op' = [Unsettle(b \o k) EXCEPT ![c] = Begun("delete", b, k, DeleteCalls(b, k, Deserialize(t)))]
  BY DEF DeleteObject, Begun, Get, KV!Current, Cur, CurOf
<1> HIDE DEF t
<1>7. q \in Seq(KVCall) /\ q # <<>> BY <1>5, DeleteCallsType
<1> HIDE DEF q
<1>8. Begun("delete", b, k, q) \in OpState
  <2>1. b \in Seq(Nat) /\ k \in Seq(Nat) /\ "delete" \in OpNames BY ObjectStoreAssumption DEF OpNames
  <2> QED BY <1>7, <2>1, BegunType
<1>9. Moves(c, Begun("delete", b, k, q)) BY <1>2, <1>6, <1>8, UnsettleMoves DEF q
<1> QED BY <1>1, <1>2, <1>5, <1>9 DEF t, q
\* The map after call x.
After(m, x) == IF x.call = "put" THEN KV!MapPut(m, x.key, x.val) ELSE KV!MapErase(m, x.key)

\* What that map holds.
IsAfter(u, m, x) ==
    /\ u \in KVMap
    /\ x.call = "put" => DOMAIN u = DOMAIN m \cup {x.key} /\ u[x.key] = x.val
    /\ x.call = "del" => DOMAIN u = DOMAIN m \ {x.key} /\ x.key.kind = "bucketidx"
    /\ \A k \in DOMAIN m : k # x.key => k \in DOMAIN u /\ u[k] = m[k]
    /\ \A k \in DOMAIN u : k # x.key => k \in DOMAIN m

\* So it is.
LEMMA AfterType ==
    ASSUME NEW m \in KVMap, NEW x \in KVCall PROVE IsAfter(After(m, x), m, x)
<1>1. CASE x.call = "put"
  <2>1. x.key \in KVKey /\ Fits(x.key, x.val) BY <1>1 DEF KVCall
  <2> DEFINE u == KV!MapPut(m, x.key, x.val)
  <2>2. IsPut(u, m, x.key, x.val) BY <2>1, MapPutType
  <2>3. After(m, x) = u BY <1>1 DEF After
  <2> HIDE DEF u
  <2> QED BY <1>1, <2>2, <2>3 DEF IsAfter, IsPut
<1>2. CASE x.call = "del"
  <2>1. x.key.kind = "bucketidx" BY <1>2 DEF KVCall
  <2> DEFINE u == KV!MapErase(m, x.key)
  <2>2. IsErased(u, m, x.key) BY MapEraseType
  <2>3. After(m, x) = u BY <1>2 DEF After
  <2> HIDE DEF u
  <2> QED BY <1>2, <2>1, <2>2, <2>3 DEF IsAfter, IsErased
<1> QED BY <1>1, <1>2 DEF KVCall

\* What m and n, two maps one write apart, still have in common.
LEMMA AfterKeepsMeta ==
    ASSUME NEW m, NEW u, NEW x \in KVCall, IsAfter(u, m, x) PROVE KeepsMeta(m, u)
<1> SUFFICES ASSUME NEW k \in DOMAIN m, k.kind = "objmeta" PROVE k \in DOMAIN u
  BY DEF KeepsMeta
<1>1. x.call \in {"put", "del"} BY DEF KVCall
<1>2. CASE x.call = "put" BY <1>2 DEF IsAfter
<1>3. CASE x.call = "del" BY <1>3 DEF IsAfter
<1> QED BY <1>1, <1>2, <1>3

\* The locals after a write.
Written(o) ==
    IF Tail(o.queue) # <<>> THEN [o EXCEPT !.queue = Tail(o.queue)]
    ELSE IF o.name = "create" THEN Idle
    ELSE [o EXCEPT !.pc = "flush", !.queue = <<>>]

\* They are locals.
LEMMA WrittenType ==
    ASSUME NEW m, NEW o \in OpState, OpOK(m, o), o.pc = "write"
    PROVE  Head(o.queue) \in KVCall /\ Written(o) \in OpState /\ \A n : OpOK(n, Written(o))
<1>1. o.queue \in Seq(KVCall) /\ o.queue # <<>> BY DEF OpOK, OpState
<1>2. Head(o.queue) \in KVCall /\ Tail(o.queue) \in Seq(KVCall) BY <1>1, HeadTailProperties
<1>3. CASE Tail(o.queue) # <<>>
  <2> DEFINE r == Tail(o.queue)
             u == [o EXCEPT !.queue = r]
  <2>1. r \in Seq(KVCall) /\ r # <<>> BY <1>2, <1>3
  <2> HIDE DEF r
  <2>2. u \in OpState /\ u.pc = o.pc /\ u.queue = r /\ u.i = o.i /\ u.meta = o.meta BY <2>1 DEF OpState
  <2>3. Written(o) = u BY <1>3 DEF Written, r
  <2> HIDE DEF u
  <2>4. \A n : OpOK(n, u) BY <2>1, <2>2 DEF OpOK
  <2> QED BY <1>2, <2>2, <2>3, <2>4
<1>4. CASE Tail(o.queue) = <<>> /\ o.name = "create"
  <2>1. Written(o) = Idle BY <1>4 DEF Written
  <2> QED BY <1>2, <2>1, IdleType
<1>5. CASE Tail(o.queue) = <<>> /\ o.name # "create"
  <2> DEFINE u == [o EXCEPT !.pc = "flush", !.queue = <<>>]
  <2>1. <<>> \in Seq(KVCall) OBVIOUS
  <2>2. u \in OpState /\ u.pc = "flush" /\ u.i = o.i /\ u.meta = o.meta BY <2>1 DEF OpState, PcNames
  <2>3. Written(o) = u BY <1>5 DEF Written
  <2> HIDE DEF u
  <2>4. \A n : OpOK(n, u) BY <2>2 DEF OpOK
  <2> QED BY <1>2, <2>2, <2>3, <2>4
<1> QED BY <1>3, <1>4, <1>5

\* Write.
LEMMA WriteMoves ==
    ASSUME TypeInv, NEW c \in Clients, Write(c)
    PROVE  LET x == Head(op[c].queue)
           IN  /\ op[c].pc = "write" /\ up /\ up' = up /\ UNCHANGED <<now, count>>
               /\ x \in KVCall /\ Moves(c, Written(op[c])) /\ Written(op[c]) \in OpState
               /\ OpOK(Cur', Written(op[c]))
               /\ IsAfter(Cur', Cur, x) /\ TimelineOK(timeline') /\ KeepsMeta(Cur, Cur')
               /\ MapsOf(timeline') = MapsOf(timeline) \cup {Cur'}
<1> DEFINE x == Head(op[c].queue)
<1>1. op[c].pc = "write" /\ up' = up /\ UNCHANGED <<now, count>> BY DEF Write, KV!Put, KV!Del
<1>2. up BY Zenon DEF Write
<1>3. op[c] \in OpState /\ OpOK(Cur, op[c]) BY DEF TypeInv
<1>4. x \in KVCall /\ Written(op[c]) \in OpState /\ \A n : OpOK(n, Written(op[c]))
  BY <1>1, <1>3, WrittenType
<1>5. Goto(c, Written(op[c])) BY DEF Write, Return, Written
<1>6. timeline' = Append(timeline, After(Cur, x))
  BY DEF Write, KV!Put, KV!Del, KV!Current, Cur, CurOf, After
<1>7. TimelineOK(timeline) /\ Cur \in KVMap BY CurIsOne DEF TypeInv, Cur
<1> HIDE DEF x
<1> DEFINE u == After(Cur, x)
<1>8. IsAfter(u, Cur, x) /\ u \in KVMap BY <1>4, <1>7, AfterType DEF IsAfter
<1> HIDE DEF u
<1>9. /\ TimelineOK(timeline') /\ CurOf(timeline') = u
      /\ MapsOf(timeline') = MapsOf(timeline) \cup {u}
  BY <1>6, <1>7, <1>8, TimelineAppend DEF u
<1>10. Cur' = u BY <1>9 DEF Cur
<1>11. KeepsMeta(Cur, Cur') BY <1>4, <1>8, <1>10, AfterKeepsMeta
<1> QED BY <1>1, <1>2, <1>4, <1>5, <1>8, <1>9, <1>10, <1>11, GotoMoves DEF x
\* Acknowledge.
LEMMA AcknowledgeMoves ==
    ASSUME TypeInv, NEW c \in Clients, Acknowledge(c)
    PROVE  LET p == op[c].bucket \o op[c].key
           IN  /\ op[c].pc = "flush" /\ up /\ up' = up /\ UNCHANGED <<now, count>> /\ Moves(c, Idle)
               /\ TimelineOK(timeline') /\ Cur' = Cur /\ MapsOf(timeline') = {Cur}
               /\ recent' = [recent EXCEPT ![p] = {StoredMeta(p)}]
<1>1. /\ op[c].pc = "flush" /\ up' = up /\ UNCHANGED <<now, count>> /\ Goto(c, Idle)
      /\ LET p == op[c].bucket \o op[c].key IN recent' = [recent EXCEPT ![p] = {StoredMeta(p)}]
  BY DEF Acknowledge, FlushWal, KV!Boundary, Return
<1>2. up BY Zenon DEF Acknowledge
<1>3. timeline' = <<CurOf(timeline)>> BY DEF Acknowledge, FlushWal, KV!Boundary, KV!Current, CurOf
<1>4. TimelineOK(timeline) BY DEF TypeInv
<1>5. TimelineOK(timeline') /\ CurOf(timeline') = CurOf(timeline) /\ MapsOf(timeline') = {CurOf(timeline)}
  BY <1>3, <1>4, TimelineFlush
<1> QED BY <1>1, <1>2, <1>5, GotoMoves, IdleType DEF Cur

\* What a step leaves alone that changes one client and no map.
Quiet(c, o) ==
    /\ up /\ UNCHANGED <<timeline, up, now, recent>>
    /\ o \in OpState /\ Moves(c, o) /\ OpOK(Cur, o) /\ count' \in [Events -> Nat]

\* Such a step in general.
LEMMA QuietMoves ==
    ASSUME TypeInv, NEW c \in Clients, NEW o \in OpState, Goto(c, o), OpOK(Cur, o), up,
           UNCHANGED <<timeline, up, now, recent>>, count' \in [Events -> Nat]
    PROVE  Quiet(c, o)
<1>1. Moves(c, o) BY GotoMoves
<1> QED BY <1>1, Zenon DEF Quiet

\* FlushFails, GetReturn and ListReturn.
LEMMA ReturnMoves ==
    ASSUME TypeInv, NEW c \in Clients, FlushFails(c) \/ GetReturn(c) \/ ListReturn(c)
    PROVE  Quiet(c, Idle) /\ op[c].pc \in {"flush", "get", "list"}
<1>1. Goto(c, Idle) /\ UNCHANGED <<timeline, up, now, recent>> /\ op[c].pc \in {"flush", "get", "list"}
  BY DEF FlushFails, GetReturn, ListReturn, Return
<1>2. up BY Zenon DEF FlushFails, GetReturn, ListReturn
<1>3. count' \in [Events -> Nat]
  <2>1. CASE FlushFails(c) BY <2>1, CountedType DEF FlushFails
  <2>2. CASE GetReturn(c) \/ ListReturn(c) BY <2>2 DEF GetReturn, ListReturn, TypeInv
  <2> QED BY <2>1, <2>2
<1> QED BY <1>1, <1>2, <1>3, QuietMoves, IdleType

\* What GetObject goes on with.
Reading(b, k, t) == [Idle EXCEPT !.pc = "get", !.name = "get", !.bucket = b, !.key = k, !.meta = t]

\* A client is called: it was idle, and the KV store is up.
LEMMA CalledType ==
    ASSUME TypeInv, NEW c \in Clients, NEW o, Called(c, o)
    PROVE  up /\ op[c].pc = "idle" /\ count' \in [Events -> Nat]
<1>1. op[c].pc = "idle" /\ Counted(o) BY DEF Called
<1>2. up BY Zenon DEF Called
<1> QED BY <1>1, <1>2, CountedType

\* GetObject.
LEMMA GetObjectMoves ==
    ASSUME TypeInv, NEW c \in Clients, NEW b \in Buckets, NEW k \in Keys, GetObject(c, b, k)
    PROVE  LET t == Cur[ObjectMetaKey(b, k)]
           IN  /\ ObjectMetaKey(b, k) \in DOMAIN Cur /\ t \in Meta /\ Len(t.content_type) = 1
               /\ t.state # "Deleted" /\ op[c].pc = "idle" /\ Quiet(c, Reading(b, k, t))
<1> DEFINE x == ObjectMetaKey(b, k)
           t == Cur[x]
<1>1. x \in DOMAIN Cur /\ Deserialize(t) # NoMeta /\ Deserialize(t).state # "Deleted"
  BY DEF GetObject, Has, Get, KV!Current, Cur, CurOf
<1>2. Deserialize(t) = t /\ Len(t.content_type) = 1 BY <1>1 DEF Deserialize
<1>3. Cur \in KVMap BY CurIsOne DEF TypeInv, Cur
<1>4. x.kind = "objmeta" BY DEF ObjectMetaKey
<1>5. t \in Meta BY <1>1, <1>3, <1>4, MapFields DEF Fits
<1>6. Goto(c, Reading(b, k, Deserialize(t))) /\ UNCHANGED <<timeline, up, now, recent>>
  BY DEF GetObject, Reading, Get, KV!Current, Cur, CurOf
<1>7. up /\ op[c].pc = "idle" /\ count' \in [Events -> Nat] BY CalledType DEF GetObject
<1>8. b \in Seq(Nat) /\ k \in Seq(Nat) BY ObjectStoreAssumption
<1> HIDE DEF t
<1> DEFINE o == Reading(b, k, t)
<1>9. o \in OpState /\ o.pc = "get" /\ o.i = 0 /\ o.meta = t
  BY <1>5, <1>8, IdleType DEF Reading, OpState, PcNames, OpNames
<1>10. t.chunk_count \in Nat BY <1>5 DEF Meta
<1> HIDE DEF o
<1>11. OpOK(Cur, o) BY <1>9, <1>10 DEF OpOK
<1>12. Quiet(c, o) BY <1>2, <1>6, <1>7, <1>9, <1>11, QuietMoves DEF o
<1> QED BY <1>1, <1>2, <1>5, <1>7, <1>12 DEF t, o

\* The key of the chunk a GetObject reads next.
NextChunk(o) == ChunkKey(o.meta.object_id, o.i)

\* GetChunk.
LEMMA GetChunkMoves ==
    ASSUME TypeInv, NEW c \in Clients, GetChunk(c)
    PROVE  LET k == NextChunk(op[c])
               u == IF k \in DOMAIN Cur THEN [op[c] EXCEPT !.i = @ + 1, !.data = @ \o Cur[k]]
                    ELSE [Idle EXCEPT !.error = TRUE]
           IN  op[c].pc = "get" /\ op[c].i < op[c].meta.chunk_count /\ Quiet(c, u)
<1> DEFINE k == NextChunk(op[c])
           u == IF k \in DOMAIN Cur THEN [op[c] EXCEPT !.i = @ + 1, !.data = @ \o Cur[k]]
                ELSE [Idle EXCEPT !.error = TRUE]
<1>1. op[c].pc = "get" /\ op[c].i < op[c].meta.chunk_count /\ UNCHANGED <<timeline, up, now, recent>>
  BY DEF GetChunk, MoreChunks
<1>2. up BY Zenon DEF GetChunk
<1>3. count' \in [Events -> Nat] BY DEF GetChunk, TypeInv
<1>4. Goto(c, u) BY DEF GetChunk, NextChunk, Has, Get, KV!Current, Cur, CurOf
<1>5. op[c] \in OpState /\ op[c].i \in Nat /\ op[c].data \in Seq(Int) /\ op[c].meta.chunk_count \in Nat
  BY DEF TypeInv, OpState, Meta
<1>6. u \in OpState /\ OpOK(Cur, u)
  <2>1. CASE k \in DOMAIN Cur
    <3> DEFINE v == Cur[k]
               w == [op[c] EXCEPT !.i = @ + 1, !.data = @ \o v]
    <3>1. k.kind = "objchunk" BY DEF NextChunk, ChunkKey
    <3>2. v \in Seq(Int)
      <4>1. Cur \in KVMap BY CurIsOne DEF TypeInv, Cur
      <4> QED BY <2>1, <3>1, <4>1, MapFields DEF Fits
    <3> HIDE DEF v
    <3>3. op[c].i + 1 \in Nat /\ op[c].data \o v \in Seq(Int) /\ op[c].i + 1 <= op[c].meta.chunk_count
      BY <1>1, <1>5, <3>2
    <3>4. w \in OpState /\ w.pc = "get" /\ w.i = op[c].i + 1 /\ w.meta = op[c].meta
      BY <1>1, <1>5, <3>3 DEF OpState
    <3>5. u = w BY <2>1 DEF v
    <3> HIDE DEF w, u
    <3>6. w.i <= w.meta.chunk_count BY <3>3, <3>4
    <3> QED BY <3>4, <3>5, <3>6 DEF OpOK
  <2>2. CASE k \notin DOMAIN Cur
    <3>1. u = [Idle EXCEPT !.error = TRUE] BY <2>2
    <3> HIDE DEF u
    <3>2. u \in OpState /\ u.pc = "idle" /\ u.i = Idle.i /\ u.meta = Idle.meta BY <3>1, IdleType DEF OpState
    <3>3. Idle.i <= Idle.meta.chunk_count BY IdleType DEF OpOK
    <3> QED BY <3>2, <3>3 DEF OpOK
  <2> QED BY <2>1, <2>2
<1> HIDE DEF u
<1>7. Quiet(c, u) BY <1>1, <1>2, <1>3, <1>4, <1>6, QuietMoves
<1> QED BY <1>1, <1>7 DEF u
\* What ListObjects and GarbageCollectChunks go on with.
Listing(b, todo, settled) ==
    [Idle EXCEPT !.pc = "list", !.name = "list", !.bucket = b, !.todo = todo, !.settled = settled]

Marking(todo, garbage) ==
    [Idle EXCEPT !.pc = "mark", !.name = "gc", !.todo = todo, !.garbage = garbage]

\* ListObjects.
LEMMA ListObjectsMoves ==
    ASSUME TypeInv, NEW c \in Clients, NEW b \in Buckets, NEW pre, ListObjects(c, b, pre)
    PROVE  \E o : o.pc = "list" /\ o.name = "list" /\ o.queue = <<>> /\ op[c].pc = "idle" /\ Quiet(c, o)
<1> DEFINE K == {k \in ListKeys("bucketidx") : IsPrefix(b \o pre, k.path) /\ Len(k.path) > Len(b)}
           S == Settled(b, pre)
           o == Listing(b, K, S)
<1>1. Goto(c, o) /\ UNCHANGED <<timeline, up, now, recent>> BY DEF ListObjects, Listing
<1>2. up /\ op[c].pc = "idle" /\ count' \in [Events -> Nat] BY CalledType DEF ListObjects
<1>3. K \subseteq KVKey
  <2>1. Cur \in KVMap BY CurIsOne DEF TypeInv, Cur
  <2>2. K \subseteq DOMAIN Cur BY DEF ListKeys, KV!Current, Cur, CurOf
  <2> QED BY <2>1, <2>2, MapFields
<1>4. S \subseteq Meta BY DEF Settled, TypeInv
<1>5. b \in Seq(Nat) BY ObjectStoreAssumption
<1> HIDE DEF K, S
<1>6. /\ o \in OpState /\ o.pc = "list" /\ o.name = "list" /\ o.i = Idle.i /\ o.meta = Idle.meta
      /\ o.queue = Idle.queue
  BY <1>3, <1>4, <1>5, IdleType DEF Listing, OpState, PcNames, OpNames
<1>7. Idle.i <= Idle.meta.chunk_count BY IdleType DEF OpOK
<1> HIDE DEF o
<1>8. OpOK(Cur, o) BY <1>6, <1>7 DEF OpOK
<1>9. Quiet(c, o) BY <1>1, <1>2, <1>6, <1>8, QuietMoves
<1>10. Idle.queue = <<>> BY DEF Idle
<1> QED BY <1>2, <1>6, <1>9, <1>10

\* ListEntry.
LEMMA ListEntryMoves ==
    ASSUME TypeInv, NEW c \in Clients, NEW k, ListEntry(c, k)
    PROVE  \E o : /\ o.pc = "list" /\ o.name = op[c].name /\ o.queue = op[c].queue
                 /\ op[c].pc = "list" /\ Quiet(c, o)
<1> DEFINE o == [op[c] EXCEPT !.todo = @ \ {k}, !.listed = @ \cup Shown(k)]
<1>1. Goto(c, o) /\ UNCHANGED <<timeline, up, now, recent, count>> /\ op[c].pc = "list" BY DEF ListEntry
<1>2. up BY Zenon DEF ListEntry
<1>3. Shown(k) \subseteq Meta BY StoredMetaType DEF Shown
<1>4. op[c] \in OpState /\ OpOK(Cur, op[c]) /\ count' \in [Events -> Nat] BY <1>1 DEF TypeInv
<1>5. /\ o \in OpState /\ o.pc = "list" /\ o.name = op[c].name /\ o.i = op[c].i /\ o.meta = op[c].meta
      /\ o.queue = op[c].queue
  BY <1>1, <1>3, <1>4 DEF OpState
<1> HIDE DEF o
<1>6. OpOK(Cur, o) BY <1>4, <1>5 DEF OpOK
<1>7. Quiet(c, o) BY <1>1, <1>2, <1>4, <1>5, <1>6, QuietMoves
<1> QED BY <1>1, <1>5, <1>7

\* GarbageCollectChunks.
LEMMA CollectMoves ==
    ASSUME TypeInv, NEW c \in Clients, GarbageCollectChunks(c)
    PROVE  LET K == {k \in DOMAIN Cur : k.kind = "objmeta"}
               G == {k \in DOMAIN Cur : k.kind = "objchunk" /\ IdOf(k) \notin ReachableIn(Cur)}
           IN  op[c].pc = "idle" /\ Quiet(c, Marking(K, G))
<1> DEFINE K == {k \in DOMAIN Cur : k.kind = "objmeta"}
           G == {k \in DOMAIN Cur : k.kind = "objchunk" /\ IdOf(k) \notin ReachableIn(Cur)}
           o == Marking(K, G)
<1>1. K = ListKeys("objmeta") BY DEF ListKeys, KV!Current, Cur, CurOf
<1>2. G = {k \in ListKeys("objchunk") : IdOf(k) \notin ReachableIn(KV!Current)}
  BY DEF ListKeys, KV!Current, Cur, CurOf
<1>3. Goto(c, o) /\ UNCHANGED <<timeline, up, now, recent>>
  BY <1>1, <1>2 DEF GarbageCollectChunks, Marking
<1>4. up /\ op[c].pc = "idle" /\ count' \in [Events -> Nat] BY CalledType DEF GarbageCollectChunks
<1>5. K \subseteq KVKey /\ G \subseteq KVKey
  <2>1. Cur \in KVMap BY CurIsOne DEF TypeInv, Cur
  <2> QED BY <2>1, MapFields
<1>6. \A k \in K : k \in DOMAIN Cur /\ k.kind = "objmeta" OBVIOUS
<1> HIDE DEF K, G
<1>7. o \in OpState /\ o.pc = "mark" /\ o.todo = K /\ o.i = Idle.i /\ o.meta = Idle.meta
  BY <1>5, IdleType DEF Marking, OpState, PcNames, OpNames
<1>8. Idle.i <= Idle.meta.chunk_count BY IdleType DEF OpOK
<1> HIDE DEF o
<1>9. OpOK(Cur, o) BY <1>6, <1>7, <1>8 DEF OpOK
<1>10. Quiet(c, o) BY <1>3, <1>4, <1>7, <1>9, QuietMoves
<1> QED BY <1>4, <1>10 DEF o, K, G

\* What GcMark takes from the metadata of a key.
Marked(o, k, t) ==
    [o EXCEPT !.todo = @ \ {k},
              !.reachable = @ \cup {m.object_id : m \in {x \in {Deserialize(t)} : KeepsChunks(x)}}]

\* GcMark.
LEMMA GcMarkMoves ==
    ASSUME TypeInv, NEW c \in Clients, NEW k, GcMark(c, k)
    PROVE  /\ op[c].pc = "mark" /\ k \in op[c].todo /\ k \in DOMAIN Cur /\ k.kind = "objmeta"
           /\ Cur[k] \in Meta /\ Quiet(c, Marked(op[c], k, Cur[k]))
<1> DEFINE t == StoredMeta(k.path)
           o == Marked(op[c], k, t)
<1>1. op[c].pc = "mark" /\ k \in op[c].todo /\ UNCHANGED <<timeline, up, now, recent, count>> /\ Goto(c, o)
  BY DEF GcMark, Marked
<1>2. up BY Zenon DEF GcMark
<1>3. op[c] \in OpState /\ OpOK(Cur, op[c]) /\ count' \in [Events -> Nat] BY <1>1 DEF TypeInv
<1>4. k \in DOMAIN Cur /\ k.kind = "objmeta" BY <1>1, <1>3 DEF OpOK
<1>5. Cur \in KVMap BY CurIsOne DEF TypeInv, Cur
<1>6. k \in KVKey /\ Cur[k] \in Meta BY <1>4, <1>5, MapFields DEF Fits
<1>7. k = [kind |-> "objmeta", path |-> k.path] BY <1>4, <1>6 DEF KVKey
<1>8. t = Cur[k]
  <2> DEFINE y == [kind |-> "objmeta", path |-> k.path]
  <2>1. t = IF y \in DOMAIN Cur THEN Cur[y] ELSE NoMeta
    BY DEF StoredMeta, Has, Get, KV!Current, Cur, CurOf
  <2>2. y = k BY <1>7
  <2> HIDE DEF y
  <2> QED BY <1>4, <2>1, <2>2
<1> HIDE DEF t
<1>9. Deserialize(t) \in Meta BY <1>6, <1>8, NoMetaType DEF Deserialize
<1> DEFINE I == {m.object_id : m \in {x \in {Deserialize(t)} : KeepsChunks(x)}}
<1>10. I \subseteq Seq(Int) BY <1>9 DEF Meta
<1>11. o = [op[c] EXCEPT !.todo = @ \ {k}, !.reachable = @ \cup I] BY DEF Marked
<1> HIDE DEF I, o
<1>12. /\ o \in OpState /\ o.pc = "mark" /\ o.todo = op[c].todo \ {k} /\ o.i = op[c].i /\ o.meta = op[c].meta
  BY <1>1, <1>3, <1>10, <1>11 DEF OpState
<1>13. OpOK(Cur, o) BY <1>3, <1>1, <1>12 DEF OpOK
<1>14. Quiet(c, o) BY <1>1, <1>2, <1>3, <1>12, <1>13, QuietMoves
<1> QED BY <1>1, <1>4, <1>6, <1>8, <1>14 DEF o
\* What GcScan goes on with.
Sweeping(o, K) == [o EXCEPT !.pc = "sweep", !.todo = K]

\* GcScan.
LEMMA GcScanMoves ==
    ASSUME TypeInv, NEW c \in Clients, GcScan(c)
    PROVE  LET K == {k \in DOMAIN Cur : k.kind = "objchunk"}
           IN  op[c].pc = "mark" /\ op[c].todo = {} /\ Quiet(c, Sweeping(op[c], K))
<1> DEFINE K == {k \in DOMAIN Cur : k.kind = "objchunk"}
           o == Sweeping(op[c], K)
<1>1. K = ListKeys("objchunk") BY DEF ListKeys, KV!Current, Cur, CurOf
<1>2. op[c].pc = "mark" /\ op[c].todo = {} /\ Goto(c, o) /\ UNCHANGED <<timeline, up, now, recent, count>>
  BY <1>1 DEF GcScan, Sweeping
<1>3. up BY Zenon DEF GcScan
<1>4. op[c] \in OpState /\ OpOK(Cur, op[c]) /\ count' \in [Events -> Nat] BY <1>2 DEF TypeInv
<1>5. K \subseteq KVKey /\ \A k \in K : k.kind = "objchunk"
  <2>1. Cur \in KVMap BY CurIsOne DEF TypeInv, Cur
  <2> QED BY <2>1, MapFields
<1> HIDE DEF K
<1>6. o \in OpState /\ o.pc = "sweep" /\ o.todo = K /\ o.i = op[c].i /\ o.meta = op[c].meta
  BY <1>4, <1>5 DEF Sweeping, OpState, PcNames
<1> HIDE DEF o
<1>7. OpOK(Cur, o) BY <1>4, <1>5, <1>6 DEF OpOK
<1>8. Quiet(c, o) BY <1>2, <1>3, <1>4, <1>6, <1>7, QuietMoves
<1> QED BY <1>2, <1>8 DEF o, K

\* Key k is done with.
DoneWith(o, k) == [o EXCEPT !.todo = @ \ {k}]

\* GcSweep.
LEMMA GcSweepMoves ==
    ASSUME TypeInv, NEW c \in Clients, NEW k, GcSweep(c, k)
    PROVE  /\ op[c].pc = "sweep" /\ k \in op[c].todo /\ k.kind = "objchunk" /\ up /\ up' = up
           /\ UNCHANGED <<now, recent, count>> /\ Moves(c, DoneWith(op[c], k))
           /\ DoneWith(op[c], k) \in OpState /\ OpOK(Cur', DoneWith(op[c], k))
           /\ TimelineOK(timeline') /\ KeepsMeta(Cur, Cur')
           /\ \/ IdOf(k) \in op[c].reachable /\ UNCHANGED timeline /\ Cur' = Cur
              \/ /\ IdOf(k) \notin op[c].reachable /\ IsErased(Cur', Cur, k)
                 /\ MapsOf(timeline') = MapsOf(timeline) \cup {Cur'}
<1> DEFINE o == DoneWith(op[c], k)
<1>1. /\ op[c].pc = "sweep" /\ k \in op[c].todo /\ UNCHANGED <<now, recent, count>> /\ Goto(c, o)
      /\ up' = up
  BY DEF GcSweep, KV!Del, DoneWith
<1>2. up BY Zenon DEF GcSweep
<1>3. op[c] \in OpState /\ OpOK(Cur, op[c]) BY DEF TypeInv
<1>4. k.kind = "objchunk" BY <1>1, <1>3 DEF OpOK
<1>5. o \in OpState /\ o.pc = "sweep" /\ o.todo = op[c].todo \ {k} /\ o.i = op[c].i /\ o.meta = op[c].meta
  BY <1>1, <1>3 DEF DoneWith, OpState
<1>6. TimelineOK(timeline) /\ Cur \in KVMap BY CurIsOne DEF TypeInv, Cur
<1> HIDE DEF o
<1>7. OpOK(Cur', o) BY <1>1, <1>3, <1>5 DEF OpOK
<1>8. Moves(c, o) BY <1>1, <1>5, GotoMoves
<1>9. CASE IdOf(k) \in op[c].reachable
  <2>1. UNCHANGED timeline BY <1>9 DEF GcSweep
  <2>2. Cur' = Cur BY <2>1 DEF Cur
  <2>3. KeepsMeta(Cur, Cur') BY <2>2 DEF KeepsMeta
  <2> QED BY <1>1, <1>2, <1>4, <1>5, <1>6, <1>7, <1>8, <1>9, <2>1, <2>2, <2>3 DEF o
<1>10. CASE IdOf(k) \notin op[c].reachable
  <2> DEFINE u == KV!MapErase(Cur, k)
  <2>1. timeline' = Append(timeline, u) BY <1>10 DEF GcSweep, KV!Del, KV!Current, Cur, CurOf
  <2>2. IsErased(u, Cur, k) BY <1>6, MapEraseType
  <2>3. u \in KVMap BY <2>2 DEF IsErased
  <2> HIDE DEF u
  <2>4. TimelineOK(timeline') /\ CurOf(timeline') = u /\ MapsOf(timeline') = MapsOf(timeline) \cup {u}
    BY <1>6, <2>1, <2>3, TimelineAppend
  <2>5. Cur' = u BY <2>4 DEF Cur
  <2>6. KeepsMeta(Cur, Cur') BY <1>4, <2>2, <2>5 DEF KeepsMeta, IsErased
  <2> QED BY <1>1, <1>2, <1>4, <1>5, <1>7, <1>8, <1>10, <2>2, <2>4, <2>5, <2>6 DEF o
<1> QED BY <1>9, <1>10

\* GcReturn.
LEMMA GcReturnMoves ==
    ASSUME TypeInv, NEW c \in Clients, GcReturn(c)
    PROVE  /\ op[c].pc = "sweep" /\ op[c].todo = {} /\ up /\ up' = up /\ UNCHANGED <<now, recent>>
           /\ count' \in [Events -> Nat] /\ Moves(c, Idle)
           /\ TimelineOK(timeline') /\ Cur' = Cur /\ MapsOf(timeline') \subseteq MapsOf(timeline)
<1>1. op[c].pc = "sweep" /\ op[c].todo = {} /\ UNCHANGED <<now, recent>> /\ Goto(c, Idle)
  BY DEF GcReturn, Return
<1>2. up BY Zenon DEF GcReturn
<1>3. TimelineOK(timeline) /\ Cur \in MapsOf(timeline) BY CurIsOne DEF TypeInv, Cur
<1>4. Moves(c, Idle) BY <1>1, GotoMoves, IdleType
<1>5. CASE FlushWal /\ UNCHANGED count
  <2>1. timeline' = <<CurOf(timeline)>> /\ up' = up BY <1>5 DEF FlushWal, KV!Boundary, KV!Current, CurOf
  <2>2. TimelineOK(timeline') /\ CurOf(timeline') = CurOf(timeline) /\ MapsOf(timeline') = {CurOf(timeline)}
    BY <1>3, <2>1, TimelineFlush
  <2>3. count' \in [Events -> Nat] BY <1>5 DEF TypeInv
  <2> QED BY <1>1, <1>2, <1>3, <1>4, <2>1, <2>2, <2>3 DEF Cur
<1>6. CASE Counted("flush_error") /\ UNCHANGED <<timeline, up>>
  <2>1. count' \in [Events -> Nat] BY <1>6, CountedType
  <2> QED BY <1>1, <1>2, <1>3, <1>4, <1>6, <2>1 DEF Cur
<1> QED BY <1>5, <1>6 DEF GcReturn

\* Crash.
LEMMA CrashMoves ==
    ASSUME TypeInv, Crash
    PROVE  /\ UNCHANGED <<timeline, now, recent>> /\ Cur' = Cur /\ up' = FALSE
           /\ count' \in [Events -> Nat] /\ op' = [c \in Clients |-> Idle]
<1>1. UNCHANGED <<timeline, now, recent>> /\ up' = FALSE /\ op' = [c \in Clients |-> Idle]
  BY DEF Crash, KV!Crash
<1>2. count' \in [Events -> Nat] BY CountedType DEF Crash
<1> QED BY <1>1, <1>2 DEF Cur

\* Recover.
LEMMA RecoverMoves ==
    ASSUME TypeInv, Recover
    PROVE  /\ UNCHANGED <<now, op, recent, count>> /\ up' = TRUE /\ \A c \in Clients : op[c] = Idle
           /\ TimelineOK(timeline') /\ Cur' \in MapsOf(timeline) /\ MapsOf(timeline') \subseteq MapsOf(timeline)
<1>1. UNCHANGED <<now, op, recent, count>> /\ up' = TRUE BY DEF Recover, KV!Recover
<1>2. \A c \in Clients : op[c] = Idle BY Zenon DEF Recover, KV!Recover, TypeInv
<1>3. PICK i \in 1..Len(timeline) : timeline' = SubSeq(timeline, 1, i) BY DEF Recover, KV!Recover
<1>4. TimelineOK(timeline) BY DEF TypeInv
<1>5. TimelineOK(timeline') /\ MapsOf(timeline') \subseteq MapsOf(timeline)
  BY <1>3, <1>4, TimelinePrefix
<1>6. CurOf(timeline') \in MapsOf(timeline') BY <1>5, CurIsOne
<1> QED BY <1>1, <1>2, <1>5, <1>6 DEF Cur
-----------------------------------------------------------------------------
(* The type invariant.                                                      *)

\* It holds at the start.
LEMMA TypeInvInit == Init => TypeInv
<1> SUFFICES ASSUME Init PROVE TypeInv
  OBVIOUS
<1>1. KV!EmptyMap \in KVMap
  <2> DEFINE e == KV!EmptyMap
  <2>1. DOMAIN e = {} /\ e = [k \in {} |-> e[k]] BY DEF KV!EmptyMap
  <2> HIDE DEF e
  <2> QED BY <2>1, IsKVMap DEF e
<1>2. TimelineOK(timeline) BY <1>1 DEF Init, TimelineOK
<1>3. op \in [Clients -> OpState] /\ \A c \in Clients : op[c] = Idle BY IdleType DEF Init
<1>4. \A c \in Clients : OpOK(Cur, op[c]) BY <1>3, IdleType
<1>5. recent \in [Names -> SUBSET Meta] BY NoMetaType DEF Init, Names
<1>6. now \in Int /\ count \in [Events -> Nat] BY DEF Init
<1>7. up \in BOOLEAN BY DEF Init
<1> QED BY <1>2, <1>3, <1>4, <1>5, <1>6, <1>7, Zenon DEF TypeInv

\* The bookkeeping of Write.
LEMMA WriteRecent ==
    ASSUME TypeInv, NEW c \in Clients, Write(c)
    PROVE  LET x == Head(op[c].queue)
           IN  /\ recent' \in [Names -> SUBSET Meta] /\ \A p \in Names : recent[p] \subseteq recent'[p]
               /\ x.key.kind = "objmeta" => x.call = "put" /\ x.val \in Meta /\ x.val \in recent'[x.key.path]
<1> DEFINE x == Head(op[c].queue)
<1>1. x \in KVCall BY WriteMoves
<1>2. recent \in [Names -> SUBSET Meta] BY DEF TypeInv
<1>3. recent' = IF x.key.kind = "objmeta" THEN [recent EXCEPT ![x.key.path] = @ \cup {x.val}] ELSE recent
  BY DEF Write
<1> HIDE DEF x
<1>4. CASE x.key.kind = "objmeta"
  <2>1. x.call = "put" /\ x.val \in Meta /\ x.key.path \in Names BY <1>1, <1>4 DEF KVCall, Fits
  <2> QED BY <1>2, <1>3, <1>4, <2>1 DEF x
<1>5. CASE x.key.kind # "objmeta" BY <1>2, <1>3, <1>5 DEF x
<1> QED BY <1>4, <1>5

\* The name of what a put or delete that is about to flush has written.
LEMMA AckRecent ==
    ASSUME TypeInv, NEW c \in Clients, Acknowledge(c)
    PROVE  recent' \in [Names -> SUBSET Meta]
<1>1. StoredMeta(op[c].bucket \o op[c].key) \in Meta BY StoredMetaType
<1>2. PICK p : /\ p = op[c].bucket \o op[c].key /\ StoredMeta(p) \in Meta
               /\ recent' = [recent EXCEPT ![p] = {StoredMeta(p)}]
  BY <1>1, AcknowledgeMoves
<1>3. recent \in [Names -> SUBSET Meta] BY DEF TypeInv
<1> QED BY <1>2, <1>3

\* A step that Quiet describes.
LEMMA QuietStep ==
    ASSUME TypeInv, NEW c \in Clients, NEW o, Quiet(c, o) PROVE TypeInv'
<1>1. UNCHANGED <<timeline, up, recent>> /\ now' \in Int BY DEF Quiet, TypeInv
<1>2. o \in OpState /\ Moves(c, o) /\ OpOK(Cur, o) /\ count' \in [Events -> Nat] BY DEF Quiet
<1>3. up BY Zenon DEF Quiet
<1> QED BY <1>1, <1>2, <1>3, QuietType

\* Every step keeps it.
LEMMA TypeInvNext == ASSUME TypeInv, [Next]_vars PROVE TypeInv'
<1> SUFFICES ASSUME Next PROVE TypeInv'
  BY DEF TypeInv, vars, Cur
<1>0. recent \in [Names -> SUBSET Meta] /\ now \in Int /\ count \in [Events -> Nat] BY DEF TypeInv
<1>1. ASSUME NEW c \in Clients, NEW b \in Buckets, CreateBucket(c, b) PROVE TypeInv'
  <2> DEFINE q == <<PutCall(BucketMetaKey(b), b)>>  o == Begun("create", <<>>, <<>>, q)
  <2>1. q \in Seq(KVCall) /\ Len(q) = 1 /\ Moves(c, o) BY <1>1, CreateBucketMoves
  <2>2. q # <<>> /\ <<>> \in Seq(Nat) /\ "create" \in OpNames BY <2>1 DEF OpNames
  <2> HIDE DEF q
  <2>3. o \in OpState /\ \A m : OpOK(m, o) BY <2>1, <2>2, BegunType
  <2> HIDE DEF o
  <2>4. UNCHANGED <<timeline, up, now, recent>> BY <1>1 DEF CreateBucket
  <2>5. up /\ count' \in [Events -> Nat] BY <1>1, CalledType DEF CreateBucket
  <2> QED BY <1>0, <2>1, <2>3, <2>4, <2>5, QuietType
<1>2. ASSUME NEW c \in Clients, NEW req \in Requests, PutObject(c, req) PROVE TypeInv'
  <2> DEFINE t == NewMeta(req, now')
             q == PutCalls(t.object_id, t)
             o == Begun("put", req.bucket, req.key, q)
  <2>1. now' \in Int /\ IsPutQueue(q, t) /\ Moves(c, o) BY <1>2, PutObjectMoves
  <2>2. q \in Seq(KVCall) /\ q # <<>> BY <2>1 DEF IsPutQueue
  <2>3. req.bucket \in Seq(Nat) /\ req.key \in Seq(Nat) /\ "put" \in OpNames
    BY ObjectStoreAssumption DEF OpNames, PutObjectRequest
  <2> HIDE DEF q
  <2>4. o \in OpState /\ \A m : OpOK(m, o) BY <2>2, <2>3, BegunType
  <2> HIDE DEF o
  <2>5. UNCHANGED <<timeline, up, recent>> BY <1>2 DEF PutObject
  <2>6. up /\ count' \in [Events -> Nat] BY <1>2, CalledType DEF PutObject
  <2> QED BY <1>0, <2>1, <2>4, <2>5, <2>6, QuietType
<1>3. ASSUME NEW c \in Clients, NEW b \in Buckets, NEW k \in Keys, DeleteObject(c, b, k) PROVE TypeInv'
  <2> DEFINE t == Cur[ObjectMetaKey(b, k)]
             q == DeleteCalls(b, k, t)
             o == Begun("delete", b, k, q)
  <2>1. t \in Meta /\ Moves(c, o) BY <1>3, DeleteObjectMoves
  <2>2. q \in Seq(KVCall) /\ q # <<>> BY <2>1, DeleteCallsType
  <2>3. b \in Seq(Nat) /\ k \in Seq(Nat) /\ "delete" \in OpNames BY ObjectStoreAssumption DEF OpNames
  <2> HIDE DEF q
  <2>4. o \in OpState /\ \A m : OpOK(m, o) BY <2>2, <2>3, BegunType
  <2> HIDE DEF o
  <2>5. UNCHANGED <<timeline, up, now, recent>> BY <1>3 DEF DeleteObject
  <2>6. up /\ count' \in [Events -> Nat] BY <1>3, CalledType DEF DeleteObject
  <2> QED BY <1>0, <2>1, <2>4, <2>5, <2>6, QuietType
<1>4. ASSUME NEW c \in Clients, NEW b \in Buckets, NEW k \in Keys, GetObject(c, b, k) PROVE TypeInv'
  BY <1>4, GetObjectMoves, QuietStep
<1>5. ASSUME NEW c \in Clients, NEW b \in Buckets, NEW pre \in ListPrefixes, ListObjects(c, b, pre)
      PROVE  TypeInv'
  BY <1>5, ListObjectsMoves, QuietStep
<1>6. ASSUME NEW c \in Clients, GarbageCollectChunks(c) PROVE TypeInv'
  BY <1>6, CollectMoves, QuietStep
<1>7. ASSUME NEW c \in Clients, Write(c) PROVE TypeInv'
  <2> DEFINE o == Written(op[c])
  <2>1. /\ up /\ up' = up /\ UNCHANGED <<now, count>> /\ Moves(c, o) /\ o \in OpState
        /\ OpOK(Cur', o) /\ TimelineOK(timeline') /\ KeepsMeta(Cur, Cur')
    BY <1>7, WriteMoves
  <2>2. recent' \in [Names -> SUBSET Meta] BY <1>7, WriteRecent
  <2> HIDE DEF o
  <2> QED BY <1>0, <2>1, <2>2, StepType
<1>8. ASSUME NEW c \in Clients, Acknowledge(c) PROVE TypeInv'
  <2>1. /\ up /\ up' = up /\ UNCHANGED <<now, count>> /\ Moves(c, Idle)
        /\ TimelineOK(timeline') /\ Cur' = Cur
    BY <1>8, AcknowledgeMoves
  <2>2. recent' \in [Names -> SUBSET Meta] BY <1>8, AckRecent
  <2>3. KeepsMeta(Cur, Cur') /\ Idle \in OpState /\ OpOK(Cur', Idle) BY <2>1, IdleType DEF KeepsMeta
  <2> QED BY <1>0, <2>1, <2>2, <2>3, StepType
<1>9. ASSUME NEW c \in Clients, FlushFails(c) \/ GetReturn(c) \/ ListReturn(c) PROVE TypeInv'
  BY <1>9, ReturnMoves, QuietStep
<1>10. ASSUME NEW c \in Clients, GetChunk(c) PROVE TypeInv'
  BY <1>10, GetChunkMoves, QuietStep
<1>11. ASSUME NEW c \in Clients, NEW k \in op[c].todo, ListEntry(c, k) PROVE TypeInv'
  BY <1>11, ListEntryMoves, QuietStep
<1>12. ASSUME NEW c \in Clients, NEW k \in op[c].todo, GcMark(c, k) PROVE TypeInv'
  BY <1>12, GcMarkMoves, QuietStep
<1>13. ASSUME NEW c \in Clients, NEW k \in op[c].todo, GcSweep(c, k) PROVE TypeInv'
  <2> DEFINE o == DoneWith(op[c], k)
  <2>1. /\ up /\ up' = up /\ UNCHANGED <<now, recent, count>> /\ Moves(c, o) /\ o \in OpState
        /\ OpOK(Cur', o) /\ TimelineOK(timeline') /\ KeepsMeta(Cur, Cur')
    BY <1>13, GcSweepMoves
  <2> HIDE DEF o
  <2> QED BY <1>0, <2>1, StepType
<1>14. ASSUME NEW c \in Clients, GcScan(c) PROVE TypeInv'
  BY <1>14, GcScanMoves, QuietStep
<1>15. ASSUME NEW c \in Clients, GcReturn(c) PROVE TypeInv'
  <2>1. /\ up /\ up' = up /\ UNCHANGED <<now, recent>> /\ Moves(c, Idle) /\ count' \in [Events -> Nat]
        /\ TimelineOK(timeline') /\ Cur' = Cur
    BY <1>15, GcReturnMoves
  <2>2. KeepsMeta(Cur, Cur') /\ Idle \in OpState /\ OpOK(Cur', Idle) BY <2>1, IdleType DEF KeepsMeta
  <2> QED BY <1>0, <2>1, <2>2, StepType
<1>16. CASE Crash
  <2>1. /\ UNCHANGED <<timeline, now, recent>> /\ Cur' = Cur /\ up' = FALSE
        /\ count' \in [Events -> Nat] /\ op' = [c \in Clients |-> Idle]
    BY <1>16, CrashMoves
  <2>2. op' \in [Clients -> OpState] /\ \A c \in Clients : op'[c] = Idle /\ OpOK(Cur', op'[c])
    BY <2>1, IdleType
  <2>3. TimelineOK(timeline') BY <2>1 DEF TypeInv
  <2>4. up' \in BOOLEAN BY <2>1
  <2> QED BY <1>0, <2>1, <2>2, <2>3, <2>4, Zenon DEF TypeInv
<1>17. CASE Recover
  <2>1. /\ UNCHANGED <<now, op, recent, count>> /\ up' = TRUE /\ \A c \in Clients : op[c] = Idle
        /\ TimelineOK(timeline')
    BY <1>17, RecoverMoves
  <2>2. op' \in [Clients -> OpState] /\ \A c \in Clients : op'[c] = Idle /\ OpOK(Cur', op'[c])
    BY <2>1, IdleType DEF TypeInv
  <2>3. up' \in BOOLEAN BY <2>1
  <2> QED BY <1>0, <2>1, <2>2, <2>3, Zenon DEF TypeInv
<1> QED BY <1>1, <1>2, <1>3, <1>4, <1>5, <1>6, <1>7, <1>8, <1>9, <1>10, <1>11, <1>12, <1>13, <1>14,
           <1>15, <1>16, <1>17 DEF Next

\* TypeInv implies the type invariant of the module.
LEMMA TypeInvImplies == TypeInv => TypeOK
<1> SUFFICES ASSUME TypeInv PROVE TypeOK
  OBVIOUS
<1>1. timeline # <<>> BY DEF TypeInv, TimelineOK
<1>2. ASSUME NEW c \in Clients
      PROVE  /\ op[c].pc \in PcNames /\ op[c].name \in OpNames \cup {""}
             /\ op[c].i \in 0..op[c].meta.chunk_count
             /\ op[c].pc = "mark" => op[c].todo \subseteq ListKeys("objmeta")
             /\ op[c].pc = "write" => op[c].queue # <<>>
  <2>1. op[c] \in OpState /\ OpOK(Cur, op[c]) BY DEF TypeInv
  <2>2. op[c].i \in Nat /\ op[c].meta \in Meta /\ op[c].pc \in PcNames /\ op[c].name \in OpNames \cup {""}
    BY <2>1 DEF OpState
  <2>3. op[c].meta.chunk_count \in Nat BY <2>2 DEF Meta
  <2>4. op[c].i \in 0..op[c].meta.chunk_count
    <3>1. op[c].i <= op[c].meta.chunk_count BY <2>1 DEF OpOK
    <3>2. \A i, n \in Nat : i <= n => i \in 0..n OBVIOUS
    <3>3. op[c].i \in Nat BY <2>2
    <3> QED BY <2>3, <3>1, <3>2, <3>3, Zenon
  <2>5. op[c].pc = "mark" => op[c].todo \subseteq ListKeys("objmeta")
    BY <2>1 DEF OpOK, ListKeys, KV!Current, Cur, CurOf
  <2> QED BY <2>1, <2>2, <2>4, <2>5 DEF OpOK
<1>3. up \in BOOLEAN /\ now \in Int /\ count \in [Events -> Nat] BY Zenon DEF TypeInv
<1> QED BY <1>1, <1>2, <1>3, Zenon DEF TypeOK

\* The locals of each client and the bookkeeping keep their types, a marking
\* garbage collection finds every key it listed, and no operation goes to
\* write with nothing left to write, whatever clients, crashes and failed
\* flushes do.
THEOREM ObjectTypes == Spec => []TypeOK
<1>1. TypeInv /\ [Next]_vars => TypeInv' BY TypeInvNext
<1> QED BY <1>1, TypeInvInit, TypeInvImplies, PTL DEF Spec
-----------------------------------------------------------------------------
(* Acknowledged puts and deletes last.                                      *)

\* The metadata of object p in map m.
MetaIn(m, p) ==
    LET k == [kind |-> "objmeta", path |-> p] IN IF k \in DOMAIN m THEN m[k] ELSE NoMeta

AckInv == \A m \in MapsOf(timeline), p \in Names : MetaIn(m, p) \in recent[p]

\* What a write does to the metadata of p.
LEMMA MetaAfter ==
    ASSUME NEW m, NEW u, NEW x \in KVCall, IsAfter(u, m, x), NEW p
    PROVE  \/ MetaIn(u, p) = MetaIn(m, p)
           \/ x.key.kind = "objmeta" /\ x.key.path = p /\ MetaIn(u, p) = x.val
<1> DEFINE k == [kind |-> "objmeta", path |-> p]
<1>1. x.key \in KVKey /\ x.call \in {"put", "del"} BY DEF KVCall
<1>2. k.kind = "objmeta" /\ k.path = p OBVIOUS
<1>3. MetaIn(u, p) = (IF k \in DOMAIN u THEN u[k] ELSE NoMeta) /\ MetaIn(m, p) = IF k \in DOMAIN m THEN m[k] ELSE NoMeta
  BY DEF MetaIn
<1>4. CASE x.key = k
  <2>1. x.call = "put" BY <1>1, <1>2, <1>4 DEF IsAfter
  <2>2. k \in DOMAIN u /\ u[k] = x.val BY <1>4, <2>1 DEF IsAfter
  <2> QED BY <1>2, <1>3, <1>4, <2>2
<1>5. CASE x.key # k
  <2>1. k \in DOMAIN u <=> k \in DOMAIN m BY <1>5 DEF IsAfter
  <2>2. k \in DOMAIN m => u[k] = m[k] BY <1>5 DEF IsAfter
  <2> QED BY <1>3, <2>1, <2>2
<1> QED BY <1>4, <1>5

\* Every step keeps it.
LEMMA AckInvNext == ASSUME TypeInv, AckInv, [Next]_vars PROVE AckInv'
<1>0. recent \in [Names -> SUBSET Meta] /\ Cur \in MapsOf(timeline) BY CurIsOne DEF TypeInv, Cur
<1>1. ASSUME MapsOf(timeline') \subseteq MapsOf(timeline), UNCHANGED recent PROVE AckInv'
  BY <1>1 DEF AckInv
<1>2. CASE UNCHANGED <<timeline, recent>>
  BY <1>1, <1>2
<1>3. ASSUME NEW c \in Clients, NEW o, Quiet(c, o) PROVE AckInv'
  BY <1>2, <1>3 DEF Quiet
<1>4. ASSUME NEW c \in Clients, Write(c) PROVE AckInv'
  <2> DEFINE x == Head(op[c].queue)
  <2>1. /\ x \in KVCall /\ IsAfter(Cur', Cur, x) /\ MapsOf(timeline') = MapsOf(timeline) \cup {Cur'}
    BY <1>4, WriteMoves
  <2>2. /\ \A p \in Names : recent[p] \subseteq recent'[p]
        /\ x.key.kind = "objmeta" => x.val \in recent'[x.key.path]
    BY <1>4, WriteRecent
  <2> HIDE DEF x
  <2>3. ASSUME NEW p \in Names PROVE MetaIn(Cur', p) \in recent'[p]
    <3>1. MetaIn(Cur, p) \in recent[p] BY <1>0 DEF AckInv
    <3>2. CASE MetaIn(Cur', p) = MetaIn(Cur, p) BY <2>2, <3>1, <3>2
    <3>3. CASE x.key.kind = "objmeta" /\ x.key.path = p /\ MetaIn(Cur', p) = x.val BY <2>2, <3>3
    <3> QED BY <2>1, <3>2, <3>3, MetaAfter
  <2> QED BY <2>1, <2>2, <2>3 DEF AckInv
<1>5. ASSUME NEW c \in Clients, Acknowledge(c) PROVE AckInv'
  <2>1. PICK r : /\ MapsOf(timeline') = {Cur} /\ r = op[c].bucket \o op[c].key
                 /\ recent' = [recent EXCEPT ![r] = {StoredMeta(r)}]
    BY <1>5, AcknowledgeMoves
  <2>2. StoredMeta(r) = MetaIn(Cur, r)
    BY DEF StoredMeta, Has, Get, KV!Current, Cur, CurOf, MetaIn
  <2>3. \A p \in Names : MetaIn(Cur, p) \in recent[p] BY <1>0 DEF AckInv
  <2>4. \A p \in Names : MetaIn(Cur, p) \in recent'[p] BY <1>0, <2>1, <2>2, <2>3
  <2> QED BY <2>1, <2>4 DEF AckInv
<1>6. ASSUME NEW c \in Clients, NEW k, GcSweep(c, k) PROVE AckInv'
  <2>1. UNCHANGED recent /\ k.kind = "objchunk" BY <1>6, GcSweepMoves
  <2>2. CASE UNCHANGED timeline BY <1>2, <2>1, <2>2
  <2>3. CASE IsErased(Cur', Cur, k) /\ MapsOf(timeline') = MapsOf(timeline) \cup {Cur'}
    <3>1. ASSUME NEW p \in Names PROVE MetaIn(Cur', p) = MetaIn(Cur, p)
      <4> DEFINE y == [kind |-> "objmeta", path |-> p]
      <4>1. y # k BY <2>1
      <4>2. /\ MetaIn(Cur', p) = (IF y \in DOMAIN Cur' THEN Cur'[y] ELSE NoMeta)
            /\ MetaIn(Cur, p) = IF y \in DOMAIN Cur THEN Cur[y] ELSE NoMeta
        BY DEF MetaIn
      <4> HIDE DEF y
      <4> QED BY <2>3, <4>1, <4>2 DEF IsErased
    <3> QED BY <1>0, <2>1, <2>3, <3>1 DEF AckInv
  <2> QED BY <1>6, <2>2, <2>3, GcSweepMoves
<1>7. ASSUME NEW c \in Clients, GcReturn(c) PROVE AckInv'
  BY <1>1, <1>7, GcReturnMoves
<1>8. CASE Crash BY <1>2, <1>8, CrashMoves
<1>9. CASE Recover BY <1>1, <1>9, RecoverMoves
<1>10. ASSUME NEW c \in Clients, NEW b \in Buckets, CreateBucket(c, b) PROVE AckInv'
  BY <1>2, <1>10 DEF CreateBucket
<1>11. ASSUME NEW c \in Clients, NEW req \in Requests, PutObject(c, req) PROVE AckInv'
  BY <1>2, <1>11 DEF PutObject
<1>12. ASSUME NEW c \in Clients, NEW b \in Buckets, NEW k \in Keys, DeleteObject(c, b, k) PROVE AckInv'
  BY <1>2, <1>12 DEF DeleteObject
<1>13. ASSUME NEW c \in Clients, FlushFails(c) \/ GetReturn(c) \/ ListReturn(c) PROVE AckInv'
  BY <1>3, <1>13, ReturnMoves
<1>14. CASE UNCHANGED vars BY <1>2, <1>14 DEF vars
<1>15. ASSUME NEW c \in Clients, NEW b \in Buckets, NEW k \in Keys, GetObject(c, b, k) PROVE AckInv'
  BY <1>3, <1>15, GetObjectMoves
<1>16. ASSUME NEW c \in Clients, NEW b \in Buckets, NEW pre \in ListPrefixes, ListObjects(c, b, pre)
       PROVE  AckInv'
  BY <1>3, <1>16, ListObjectsMoves
<1>17. ASSUME NEW c \in Clients, GarbageCollectChunks(c) PROVE AckInv' BY <1>3, <1>17, CollectMoves
<1>18. ASSUME NEW c \in Clients, GetChunk(c) PROVE AckInv' BY <1>3, <1>18, GetChunkMoves
<1>19. ASSUME NEW c \in Clients, NEW k, ListEntry(c, k) PROVE AckInv' BY <1>3, <1>19, ListEntryMoves
<1>20. ASSUME NEW c \in Clients, NEW k, GcMark(c, k) PROVE AckInv' BY <1>3, <1>20, GcMarkMoves
<1>21. ASSUME NEW c \in Clients, GcScan(c) PROVE AckInv' BY <1>3, <1>21, GcScanMoves
<1> QED BY <1>4, <1>5, <1>6, <1>7, <1>8, <1>9, <1>10, <1>11, <1>12, <1>13, <1>14, <1>15, <1>16, <1>17,
           <1>18, <1>19, <1>20, <1>21 DEF Next

\* Once a put or delete is answered ok, every map a crash can leave shows the
\* object as the newest write before the answer, or a later one, left it: for
\* any clients and requests, failed flushes, crashes and collections.
THEOREM AcknowledgedStays == Spec => []AckedStays
<1>1. Init => AckInv
  <2> SUFFICES ASSUME Init PROVE AckInv
    OBVIOUS
  <2>1. TypeInv BY TypeInvInit
  <2>2. \A p \in Names : recent[p] = {NoMeta} BY DEF Init, Names
  <2>3. \A m \in MapsOf(timeline) : DOMAIN m = {}
    BY DEF Init, MapsOf, KV!EmptyMap
  <2>4. \A m \in MapsOf(timeline), p \in Names : MetaIn(m, p) = NoMeta BY <2>3 DEF MetaIn
  <2> QED BY <2>2, <2>4 DEF AckInv
<1>2. TypeInv /\ AckInv /\ [Next]_vars => TypeInv' /\ AckInv' BY TypeInvNext, AckInvNext
<1>3. TypeInv /\ AckInv => AckedStays
  <2> SUFFICES ASSUME TypeInv, AckInv PROVE AckedStays
    OBVIOUS
  <2>1. DOMAIN recent = Names BY DEF TypeInv
  <2>2. ASSUME NEW i \in DOMAIN timeline, NEW p \in Names PROVE MetaIn(timeline[i], p) \in recent[p]
    BY DEF AckInv, MapsOf
  <2> QED BY <2>1, <2>2 DEF AckedStays, MetaIn
<1> QED BY <1>1, <1>2, <1>3, TypeInvInit, PTL DEF Spec
-----------------------------------------------------------------------------
(* The commit point.  Callers keep puts and collections apart, and the      *)
(* clock moves between two puts.                                            *)

PutGcApart == {"put", "gc"} \in Serialized

ClockMoves == Ticks \subseteq Nat \ {0}

\* Metadata whose chunks must be there.
Live(t) == t.state = "Committed" /\ Len(t.content_type) = 1

\* The sizes of t fit the bytes put, and its id was made by time n.
SizesOK(t) == t.size_bytes = Len(t.etag) /\ t.chunk_count = ChunkCount(t.size_bytes)

Stamped(t, n) == t.object_id # <<>> /\ t.object_id[Len(t.object_id)] <= n

Good(t, n) == SizesOK(t) /\ Stamped(t, n)

\* The metadata in map m.
MetasIn(m) == {m[k] : k \in {x \in DOMAIN m : x.kind = "objmeta"}}

\* Map m holds the first n chunks of t.
HasChunks(m, t, n) ==
    \A i \in 0..(n - 1) :
        ChunkKey(t.object_id, i) \in DOMAIN m /\ m[ChunkKey(t.object_id, i)] = ChunkValue(t.etag, i)

\* Live metadata in m has all its chunks.
Complete(m) ==
    \A k \in DOMAIN m : k.kind = "objmeta" /\ Live(m[k]) => HasChunks(m, m[k], m[k].chunk_count)

\* A put that has its metadata still to write, that metadata, and the number
\* of chunks it has written.
InPut(o) == o.name = "put" /\ Len(o.queue) >= 2

PutMeta(o) == o.queue[Len(o.queue) - 1].val

ChunksDone(o) == PutMeta(o).chunk_count - (Len(o.queue) - 2)

\* q is what is left of the calls of PutObject that write t.
IsRest(q, t) ==
    /\ Len(q) - 2 <= t.chunk_count /\ t \in Meta /\ t.state = "Committed"
    /\ q[Len(q) - 1] = PutCall(ObjectMetaKey(t.bucket, t.key), t)
    /\ q[Len(q)].key.kind = "bucketidx"
    /\ \A j \in 1..(Len(q) - 2) :
          LET i == t.chunk_count - (Len(q) - 2) + j - 1
          IN  q[j] = PutCall(ChunkKey(t.object_id, i), ChunkValue(t.etag, i))

\* The metadata an operation has read or has still to write.
Held(o) ==
    {o.queue[j].val : j \in {i \in DOMAIN o.queue : o.queue[i].key.kind = "objmeta"}}
    \cup {t \in {o.meta} : o.pc = "get"}

\* Where each operation can be.
WhereOK(o) ==
    /\ o.pc = "idle" <=> o.name = ""
    /\ o.pc \in {"write", "flush"} <=> o.name \in {"create", "put", "delete"}
    /\ o.pc = "get" <=> o.name = "get"
    /\ o.pc \in {"mark", "sweep"} <=> o.name = "gc"

\* What it has still to write.
QueueOK(o) ==
    /\ o.pc # "write" => o.queue = <<>>
    /\ o.name = "create" => \A j \in DOMAIN o.queue : o.queue[j].key.kind = "bucket"
    /\ o.name = "delete" => \A j \in DOMAIN o.queue :
          \/ o.queue[j].key.kind = "bucketidx"
          \/ o.queue[j].key.kind = "objmeta" /\ o.queue[j].val.state = "Deleted"
    /\ o.name = "put" /\ Len(o.queue) = 1 => o.queue[1].key.kind = "bucketidx"
    /\ InPut(o) => IsRest(o.queue, PutMeta(o))

ShapeOK(o) == WhereOK(o) /\ QueueOK(o)

ShapeInv == \A c \in Clients : ShapeOK(op[c])

\* No put runs beside a collection.
ApartInv == \A c, d \in Clients : op[c].name = "put" => op[d].name # "gc"

\* All metadata, stored or about to be, has its sizes and its time.
KnownInv ==
    /\ \A m \in MapsOf(timeline) : \A t \in MetasIn(m) : Good(t, now)
    /\ \A c \in Clients : \A t \in Held(op[c]) : Good(t, now)

\* Nothing but itself refers to the object a put writes.
FreshInv ==
    \A c \in Clients : InPut(op[c]) =>
        /\ \A m \in MapsOf(timeline) : \A t \in MetasIn(m) : t.object_id # PutMeta(op[c]).object_id
        /\ \A d \in Clients \ {c} : \A t \in Held(op[d]) : t.object_id # PutMeta(op[c]).object_id

\* The chunks a put has written are there.
DoneInv == \A c \in Clients : InPut(op[c]) => HasChunks(Cur, PutMeta(op[c]), ChunksDone(op[c]))

MapInv == \A m \in MapsOf(timeline) : Complete(m)

\* A collection has marked, or will mark, all live metadata.
MarkOK(m, o) ==
    \A k \in DOMAIN m : k.kind = "objmeta" /\ Live(m[k]) =>
        m[k].object_id \in o.reachable \/ (o.pc = "mark" /\ k \in o.todo)

MarkInv == \A c \in Clients : op[c].name = "gc" => MarkOK(Cur, op[c])

CoreInv == ShapeInv /\ ApartInv /\ KnownInv /\ FreshInv /\ DoneInv /\ MapInv /\ MarkInv

\* Locals that differ in their ghost only.
LEMMA SameShape ==
    ASSUME NEW a, NEW b, Same(a, b)
    PROVE  /\ ShapeOK(a) => ShapeOK(b)
           /\ Held(b) = Held(a) /\ (InPut(b) <=> InPut(a)) /\ PutMeta(b) = PutMeta(a)
           /\ ChunksDone(b) = ChunksDone(a) /\ b.name = a.name
<1>1. a.pc = b.pc /\ a.name = b.name /\ a.queue = b.queue /\ a.meta = b.meta BY DEF Same
<1>2. Held(b) = Held(a) BY <1>1 DEF Held
<1>3. (InPut(b) <=> InPut(a)) /\ PutMeta(b) = PutMeta(a) BY <1>1 DEF InPut, PutMeta
<1>4. ChunksDone(b) = ChunksDone(a) BY <1>1, <1>3 DEF ChunksDone
<1>5. ShapeOK(a) => ShapeOK(b) BY <1>1, <1>3, ZenonT(60) DEF ShapeOK, WhereOK, QueueOK
<1> QED BY <1>1, <1>2, <1>3, <1>4, <1>5

\* An operation with nothing to write.
LEMMA NoQueue ==
    ASSUME NEW o, o.queue = <<>>
    PROVE  /\ ~InPut(o) /\ Held(o) = {t \in {o.meta} : o.pc = "get"}
           /\ QueueOK(o)
<1>1. Len(o.queue) = 0 /\ DOMAIN o.queue = {} BY EmptySeq
<1>2. ~InPut(o) BY <1>1 DEF InPut
<1>3. Held(o) = {t \in {o.meta} : o.pc = "get"} BY <1>1 DEF Held
<1>4. QueueOK(o) BY <1>1, <1>2 DEF QueueOK
<1> QED BY <1>2, <1>3, <1>4

\* What a put has still to write.
LEMMA RestFacts ==
    ASSUME NEW q \in Seq(KVCall), NEW t, Len(q) >= 2, IsRest(q, t)
    PROVE  /\ Len(q) \in Nat /\ t.chunk_count \in Nat
           /\ q[Len(q) - 1].val = t
           /\ \A j \in 1..Len(q) : q[j].key.kind = "objmeta" => j = Len(q) - 1
           /\ q[Len(q) - 1].key.kind = "objmeta"
<1>1. Len(q) \in Nat /\ t.chunk_count \in Nat BY DEF IsRest, Meta
<1>2. q[Len(q) - 1].val = t /\ q[Len(q) - 1].key.kind = "objmeta"
  BY DEF IsRest, PutCall, ObjectMetaKey
<1>3. ASSUME NEW j \in 1..Len(q), q[j].key.kind = "objmeta" PROVE j = Len(q) - 1
  <2>1. j # Len(q) BY <1>3 DEF IsRest
  <2>2. ASSUME j \in 1..(Len(q) - 2) PROVE FALSE
    <3>1. PICK i, v : q[j] = PutCall(ChunkKey(t.object_id, i), v) BY <2>2 DEF IsRest
    <3>2. q[j].key.kind = "objchunk" BY <3>1 DEF PutCall, ChunkKey
    <3> QED BY <1>3, <3>2
  <2> QED BY <1>1, <2>1, <2>2
<1> QED BY <1>1, <1>2, <1>3

\* The next call of each kind of operation.
HeadOK(o) ==
    LET x == Head(o.queue)
        t == PutMeta(o)
    IN  /\ x.key.kind = "objmeta" => x.val \in Held(o) /\
              \/ x.val.state = "Deleted"
              \/ InPut(o) /\ x.val = t /\ ChunksDone(o) = t.chunk_count /\ ~InPut(Written(o))
        /\ x.key.kind = "objchunk" =>
              /\ InPut(o) /\ InPut(Written(o)) /\ ChunksDone(o) \in 0..(t.chunk_count - 1)
              /\ x = PutCall(ChunkKey(t.object_id, ChunksDone(o)), ChunkValue(t.etag, ChunksDone(o)))
        /\ InPut(Written(o)) =>
              /\ InPut(o) /\ x.key.kind = "objchunk" /\ PutMeta(Written(o)) = t
              /\ ChunksDone(Written(o)) = ChunksDone(o) + 1 /\ ChunksDone(o) \in Nat
        /\ Held(Written(o)) \subseteq Held(o)

\* The rest of a queue.
LEMMA TailFacts ==
    ASSUME NEW q \in Seq(KVCall), q # <<>>
    PROVE  /\ Len(q) \in Nat \ {0} /\ Len(Tail(q)) = Len(q) - 1 /\ Head(q) = q[1]
           /\ Tail(q) \in Seq(KVCall) /\ \A i \in 1..(Len(q) - 1) : Tail(q)[i] = q[i + 1]
           /\ DOMAIN q = 1..Len(q) /\ DOMAIN Tail(q) = 1..(Len(q) - 1)
<1>1. Len(q) \in Nat \ {0} BY EmptySeq, LenProperties
<1>2. Len(Tail(q)) = Len(q) - 1 /\ Tail(q) \in Seq(KVCall) /\ \A i \in 1..Len(Tail(q)) : Tail(q)[i] = q[i + 1]
  BY HeadTailProperties
<1>3. Head(q) = q[1] OBVIOUS
<1>4. DOMAIN q = 1..Len(q) /\ DOMAIN Tail(q) = 1..Len(Tail(q)) BY <1>2, LenProperties
<1> QED BY <1>1, <1>2, <1>3, <1>4

\* The rest of what a put has still to write.
LEMMA RestOfRest ==
    ASSUME NEW q \in Seq(KVCall), NEW t, Len(q) >= 3, IsRest(q, t)
    PROVE  IsRest(Tail(q), t)
<1>1. q # <<>> BY EmptySeq
<1> DEFINE r == Tail(q)
<1>2. PICK L \in Nat : L = Len(q) /\ L >= 3 BY LenProperties
<1>3. Len(r) = L - 1 /\ \A i \in 1..(L - 1) : r[i] = q[i + 1] BY <1>1, <1>2, TailFacts
<1>4. t.chunk_count \in Nat BY DEF IsRest, Meta
<1> HIDE DEF r
<1>5. r[L - 2] = q[L - 1] /\ r[L - 1] = q[L] BY <1>2, <1>3
<1>6. ASSUME NEW j \in 1..(L - 3)
      PROVE  LET i == t.chunk_count - (L - 3) + j - 1
             IN  r[j] = PutCall(ChunkKey(t.object_id, i), ChunkValue(t.etag, i))
  <2>1. j + 1 \in 1..(L - 2) /\ r[j] = q[j + 1] BY <1>2, <1>3
  <2>2. t.chunk_count - (L - 3) + j - 1 = t.chunk_count - (L - 2) + (j + 1) - 1 BY <1>2, <1>4
  <2> QED BY <1>2, <2>1, <2>2 DEF IsRest
<1>7. (L - 1) - 2 = L - 3 /\ (L - 1) - 1 = L - 2 BY <1>2
<1>8. L - 3 <= t.chunk_count BY <1>2, <1>4 DEF IsRest
<1> QED BY <1>2, <1>3, <1>5, <1>6, <1>7, <1>8 DEF IsRest, r

\* Writing the head of a queue.
LEMMA WrittenShape ==
    ASSUME NEW m, NEW o \in OpState, OpOK(m, o), ShapeOK(o), o.pc = "write"
    PROVE  ShapeOK(Written(o)) /\ HeadOK(o)
<1> DEFINE q == o.queue
           x == Head(q)
           t == PutMeta(o)
           w == Written(o)
<1>1. q \in Seq(KVCall) /\ q # <<>> /\ o.name \in {"create", "put", "delete"}
  BY DEF OpOK, OpState, ShapeOK, WhereOK
<1>2. PICK L \in Nat \ {0} :
          /\ L = Len(q) /\ Len(Tail(q)) = L - 1 /\ x = q[1]
          /\ Tail(q) \in Seq(KVCall) /\ \A i \in 1..(L - 1) : Tail(q)[i] = q[i + 1]
          /\ DOMAIN q = 1..L /\ DOMAIN Tail(q) = 1..(L - 1)
  BY <1>1, TailFacts
<1>5. PICK K \in Nat : K = Len(Tail(q)) /\ K = L - 1
  <2>1. L - 1 \in Nat OBVIOUS
  <2> QED BY <1>2, <2>1
<1>6. Len(<<>>) = 0 BY EmptySeq
<1>7. K = L - 1 BY <1>5
<1>3. CASE L >= 2
  <2>1. Tail(q) # <<>>
    <3>1. K # 0 BY <1>3, <1>7
    <3> QED BY <1>5, <1>6, <3>1
  <2>2. w = [o EXCEPT !.queue = Tail(q)] BY <2>1 DEF Written
  <2>3. w.queue = Tail(q) /\ w.pc = "write" /\ w.name = o.name /\ w.meta = o.meta
    BY <2>2 DEF OpState
  <2> HIDE DEF w
  <2>4. WhereOK(w) BY <1>1, <2>3 DEF WhereOK
  <2>5. Held(w) \subseteq Held(o)
    <3> SUFFICES ASSUME NEW i \in 1..(L - 1), Tail(q)[i].key.kind = "objmeta" PROVE Tail(q)[i].val \in Held(o)
      BY <1>2, <2>3 DEF Held
    <3>1. i + 1 \in DOMAIN q /\ Tail(q)[i] = q[i + 1] BY <1>2
    <3> QED BY <3>1 DEF Held
  <2>6. x.key.kind = "objmeta" => x.val \in Held(o)
    <3>1. 1 \in DOMAIN q BY <1>2
    <3> QED BY <1>2, <3>1 DEF Held
  <2>7. CASE o.name = "create"
    <3>1. \A j \in 1..L : q[j].key.kind = "bucket" BY <1>2, <2>7 DEF ShapeOK, QueueOK
    <3>2. \A i \in 1..(L - 1) : Tail(q)[i].key.kind = "bucket"
      <4> SUFFICES ASSUME NEW i \in 1..(L - 1) PROVE Tail(q)[i].key.kind = "bucket"
        OBVIOUS
      <4>1. i + 1 \in 1..L /\ Tail(q)[i] = q[i + 1] BY <1>2
      <4> QED BY <3>1, <4>1
    <3>3. ~InPut(w) /\ w.name = "create" /\ w.pc = "write" BY <2>3, <2>7 DEF InPut
    <3>4. QueueOK(w) BY <1>2, <2>3, <3>2, <3>3 DEF QueueOK
    <3>5. x.key.kind = "bucket" BY <1>2, <3>1
    <3>6. HeadOK(o) BY <2>5, <3>3, <3>5 DEF HeadOK, w
    <3> QED BY <2>4, <3>4, <3>6 DEF ShapeOK, w
  <2>8. CASE o.name = "delete"
    <3>1. \A j \in 1..L :
             \/ q[j].key.kind = "bucketidx"
             \/ q[j].key.kind = "objmeta" /\ q[j].val.state = "Deleted"
      BY <1>2, <2>8 DEF ShapeOK, QueueOK
    <3>2. \A i \in 1..(L - 1) :
             \/ Tail(q)[i].key.kind = "bucketidx"
             \/ Tail(q)[i].key.kind = "objmeta" /\ Tail(q)[i].val.state = "Deleted"
      <4> SUFFICES ASSUME NEW i \in 1..(L - 1)
                   PROVE  \/ Tail(q)[i].key.kind = "bucketidx"
                          \/ Tail(q)[i].key.kind = "objmeta" /\ Tail(q)[i].val.state = "Deleted"
        OBVIOUS
      <4>1. i + 1 \in 1..L /\ Tail(q)[i] = q[i + 1] BY <1>2
      <4> QED BY <3>1, <4>1
    <3>3. ~InPut(w) /\ w.name = "delete" /\ w.pc = "write" BY <2>3, <2>8 DEF InPut
    <3>4. QueueOK(w) BY <1>2, <2>3, <3>2, <3>3 DEF QueueOK
    <3>5. x.key.kind = "bucketidx" \/ (x.key.kind = "objmeta" /\ x.val.state = "Deleted") BY <1>2, <3>1
    <3>6. HeadOK(o) BY <2>5, <2>6, <3>3, <3>5 DEF HeadOK, w
    <3> QED BY <2>4, <3>4, <3>6 DEF ShapeOK, w
  <2>9. CASE o.name = "put"
    <3>1. InPut(o) /\ IsRest(q, t) BY <1>2, <1>3, <2>9 DEF InPut, ShapeOK, QueueOK
    <3>2. /\ t.chunk_count \in Nat /\ q[L - 1].key.kind = "objmeta" /\ q[L - 1].val = t
          /\ q[L].key.kind = "bucketidx" /\ L - 2 <= t.chunk_count
          /\ ChunksDone(o) = t.chunk_count - (L - 2)
      BY <1>1, <1>2, <1>3, <3>1, RestFacts DEF IsRest, ChunksDone
    <3> HIDE DEF t
    <3>3. CASE L = 2
      <4>1. ~InPut(w)
        <5>1. K = 1 BY <1>7, <3>3
        <5>2. Len(w.queue) = 1 BY <1>5, <2>3, <5>1
        <5> QED BY <5>2 DEF InPut
      <4>2. Tail(q)[1] = q[2] BY <1>2, <3>3
      <4>3. QueueOK(w) BY <1>2, <2>3, <2>9, <3>2, <3>3, <4>1, <4>2 DEF QueueOK
      <4>4. x.key.kind = "objmeta" /\ x.val = t BY <1>2, <3>2, <3>3
      <4>5. ChunksDone(o) = t.chunk_count BY <3>2, <3>3
      <4>6. HeadOK(o) BY <2>5, <2>6, <3>1, <4>1, <4>4, <4>5 DEF HeadOK, w, t
      <4> QED BY <2>4, <4>3, <4>6 DEF ShapeOK, w
    <3>4. CASE L >= 3
      <4>1. InPut(w) BY <1>2, <2>3, <2>9, <3>4 DEF InPut
      <4>2. PutMeta(w) = t
        <5>1. Tail(q)[L - 2] = q[L - 1] BY <1>2, <3>4
        <5>2. Len(w.queue) - 1 = L - 2 BY <1>2, <2>3
        <5> QED BY <2>3, <3>2, <5>1, <5>2 DEF PutMeta
      <4>3. IsRest(Tail(q), t) BY <1>1, <1>2, <3>1, <3>4, RestOfRest
      <4>4. QueueOK(w)
        <5>0. K # 1 BY <1>7, <3>4
        <5>1. Len(w.queue) # 1 BY <1>5, <2>3, <5>0
        <5> QED BY <2>3, <2>9, <4>2, <4>3, <5>1 DEF QueueOK
      <4>5. ChunksDone(o) \in 0..(t.chunk_count - 1) /\ ChunksDone(o) \in Nat BY <3>2, <3>4
      <4>6. ChunksDone(w) = ChunksDone(o) + 1 BY <1>2, <2>3, <3>2, <4>2 DEF ChunksDone
      <4>7. x = PutCall(ChunkKey(t.object_id, ChunksDone(o)), ChunkValue(t.etag, ChunksDone(o)))
        <5>1. 1 \in 1..(L - 2) BY <3>4
        <5>2. t.chunk_count - (L - 2) + 1 - 1 = ChunksDone(o) BY <3>2
        <5> QED BY <1>2, <3>1, <5>1, <5>2 DEF IsRest
      <4>8. x.key.kind = "objchunk" BY <4>7 DEF PutCall, ChunkKey
      <4>9. HeadOK(o) BY <2>5, <3>1, <4>1, <4>2, <4>5, <4>6, <4>7, <4>8 DEF HeadOK, w, t
      <4> QED BY <2>4, <4>4, <4>9 DEF ShapeOK, w
    <3> QED BY <1>3, <3>3, <3>4
  <2> QED BY <1>1, <2>7, <2>8, <2>9
<1>4. CASE L = 1
  <2>1. Tail(q) = <<>> BY <1>2, <1>4, EmptySeq
  <2>2. ~InPut(o) BY <1>2, <1>4 DEF InPut
  <2>3. w.queue = <<>> /\ w.pc # "get" /\ WhereOK(w)
    <3>1. CASE o.name = "create"
      <4>1. w = Idle BY <2>1, <3>1 DEF Written
      <4>2. Idle.queue = <<>> BY DEF Idle
      <4> QED BY <4>1, <4>2, IdleType DEF WhereOK
    <3>2. CASE o.name # "create"
      <4>1. w = [o EXCEPT !.pc = "flush", !.queue = <<>>] BY <2>1, <3>2 DEF Written
      <4>2. w.queue = <<>> /\ w.pc = "flush" /\ w.name = o.name BY <4>1 DEF OpState
      <4> QED BY <1>1, <4>2 DEF WhereOK
    <3> QED BY <3>1, <3>2
  <2> HIDE DEF w
  <2>4. Held(w) = {} /\ ~InPut(w) /\ QueueOK(w) BY <2>3, NoQueue
  <2>5. x.key.kind = "objmeta" => x.val \in Held(o) /\ x.val.state = "Deleted"
    <3>1. 1 \in DOMAIN q BY <1>2
    <3>2. x.key.kind = "objmeta" => x.val \in Held(o) BY <1>2, <3>1 DEF Held
    <3>3. x.key.kind = "objmeta" => x.val.state = "Deleted"
      BY <1>1, <1>2, <1>4, <3>1 DEF ShapeOK, QueueOK
    <3> QED BY <3>2, <3>3
  <2>6. x.key.kind # "objchunk"
    <3>1. 1 \in DOMAIN q BY <1>2
    <3> QED BY <1>1, <1>2, <1>4, <3>1 DEF ShapeOK, QueueOK
  <2> QED BY <2>3, <2>4, <2>5, <2>6 DEF ShapeOK, HeadOK, w
<1> QED BY <1>3, <1>4

\* PutObject begins with all it has to write.
LEMMA PutBegun ==
    ASSUME NEW b \in Seq(Nat), NEW k \in Seq(Nat), NEW q, NEW t \in Meta, IsPutQueue(q, t),
           t.state = "Committed"
    PROVE  LET o == Begun("put", b, k, q)
           IN  /\ ShapeOK(o) /\ InPut(o) /\ PutMeta(o) = t /\ ChunksDone(o) = 0 /\ o.name = "put"
               /\ \A s \in Held(o) : s = t
<1> DEFINE o == Begun("put", b, k, q)
<1>1. q \in Seq(KVCall) /\ q # <<>> /\ "put" \in OpNames BY DEF IsPutQueue, OpNames
<1>2. o.pc = "write" /\ o.name = "put" /\ o.queue = q BY <1>1, BegunType
<1> HIDE DEF o
<1>3. PICK n \in Nat : n = t.chunk_count BY DEF Meta
<1>4. PICK L \in Nat : L = Len(q) /\ DOMAIN q = 1..L BY <1>1, LenProperties
<1>5. L = n + 2 BY <1>3, <1>4 DEF IsPutQueue
<1>6. InPut(o) BY <1>2, <1>4, <1>5 DEF InPut
<1>7. L - 1 = n + 1 /\ L - 2 = n /\ L >= 2 /\ L # 1 BY <1>5
<1>8. q[L - 1] = PutCall(ObjectMetaKey(t.bucket, t.key), t) BY <1>3, <1>7 DEF IsPutQueue
<1>9. PutMeta(o) = t BY <1>2, <1>4, <1>8 DEF PutMeta, PutCall
<1>10. ChunksDone(o) = 0 BY <1>2, <1>3, <1>4, <1>7, <1>9 DEF ChunksDone
<1>11. IsRest(q, t)
  <2>1. q[L].key.kind = "bucketidx" BY <1>3, <1>5 DEF IsPutQueue, PutCall, BucketIndexKey
  <2>2. ASSUME NEW j \in 1..(L - 2)
        PROVE  LET i == n - (L - 2) + j - 1
               IN  q[j] = PutCall(ChunkKey(t.object_id, i), ChunkValue(t.etag, i))
    <3>1. n - (L - 2) + j - 1 = j - 1 /\ j \in 1..n BY <1>7
    <3> QED BY <1>3, <3>1 DEF IsPutQueue
  <2>3. L - 2 <= n BY <1>7
  <2> QED BY <1>3, <1>4, <1>8, <2>1, <2>2, <2>3 DEF IsRest
<1>12. WhereOK(o) BY <1>2 DEF WhereOK
<1>13. QueueOK(o)
  <2>1. Len(o.queue) # 1 BY <1>2, <1>4, <1>7
  <2> QED BY <1>2, <1>9, <1>11, <2>1 DEF QueueOK
<1>14. \A s \in Held(o) : s = t
  <2>1. \A j \in 1..L : q[j].key.kind = "objmeta" => j = L - 1 BY <1>1, <1>4, <1>7, <1>11, RestFacts
  <2> QED BY <1>2, <1>4, <1>8, <2>1 DEF Held, PutCall
<1> QED BY <1>2, <1>6, <1>9, <1>10, <1>12, <1>13, <1>14 DEF ShapeOK, o

\* The same object in another state.
SameData(t, s) ==
    /\ t.object_id = s.object_id /\ t.size_bytes = s.size_bytes
    /\ t.chunk_count = s.chunk_count /\ t.etag = s.etag

\* DeleteObject begins with the metadata it read, marked as deleted.
LEMMA DeleteBegun ==
    ASSUME NEW b \in Buckets, NEW k \in Keys, NEW t \in Meta
    PROVE  LET o == Begun("delete", b, k, DeleteCalls(b, k, t))
           IN  /\ ShapeOK(o) /\ ~InPut(o) /\ o.name = "delete"
               /\ \A s \in Held(o) : SameData(s, t)
<1> DEFINE q == DeleteCalls(b, k, t)
           o == Begun("delete", b, k, q)
           u == [t EXCEPT !.state = "Deleted"]
<1>1. /\ q \in Seq(KVCall) /\ Len(q) = 2 /\ q # <<>>
      /\ u \in Meta /\ q[1] = PutCall(ObjectMetaKey(b, k), u)
      /\ q[2] = DelCall(BucketIndexKey(b, k))
  BY DeleteCallsType
<1>2. b \in Seq(Nat) /\ k \in Seq(Nat) /\ "delete" \in OpNames BY ObjectStoreAssumption DEF OpNames
<1>3. u.state = "Deleted" /\ SameData(u, t) BY DEF Meta, SameData
<1> HIDE DEF q, u
<1>4. o.pc = "write" /\ o.name = "delete" /\ o.queue = q BY <1>1, <1>2, BegunType
<1> HIDE DEF o
<1>5. DOMAIN q = {1, 2}
  <2>1. DOMAIN q = 1..2 BY <1>1, LenProperties
  <2> QED BY <2>1
<1>6. q[1].key.kind = "objmeta" /\ q[1].val = u /\ q[2].key.kind = "bucketidx"
  BY <1>1 DEF PutCall, DelCall, ObjectMetaKey, BucketIndexKey
<1>7. ~InPut(o) BY <1>4 DEF InPut
<1>8. WhereOK(o) BY <1>4 DEF WhereOK
<1>9. QueueOK(o) BY <1>3, <1>4, <1>5, <1>6, <1>7 DEF QueueOK
<1>10. \A s \in Held(o) : s = u BY <1>4, <1>5, <1>6 DEF Held
<1> QED BY <1>3, <1>4, <1>7, <1>8, <1>9, <1>10 DEF ShapeOK, o, q

\* CreateBucket begins with the bucket's entry.
LEMMA CreateBegun ==
    ASSUME NEW b, NEW q \in Seq(KVCall), Len(q) = 1, q[1] = PutCall(BucketMetaKey(b), b)
    PROVE  LET o == Begun("create", <<>>, <<>>, q)
           IN  ShapeOK(o) /\ ~InPut(o) /\ o.name = "create" /\ Held(o) = {}
<1> DEFINE o == Begun("create", <<>>, <<>>, q)
<1>2. o.pc = "write" /\ o.name = "create" /\ o.queue = q BY IdleType DEF Begun, OpState
<1> HIDE DEF o
<1>3. DOMAIN q = {1}
  <2>1. DOMAIN q = 1..1 BY LenProperties
  <2> QED BY <2>1
<1>4. q[1].key.kind = "bucket" BY DEF PutCall, BucketMetaKey
<1>5. ~InPut(o) BY <1>2 DEF InPut
<1>6. WhereOK(o) BY <1>2 DEF WhereOK
<1>7. QueueOK(o) BY <1>2, <1>3, <1>4, <1>5 DEF QueueOK
<1>8. Held(o) = {} BY <1>2, <1>3, <1>4 DEF Held
<1> QED BY <1>2, <1>5, <1>6, <1>7, <1>8 DEF ShapeOK, o

-----------------------------------------------------------------------------
(* Steps that write nothing new.                                            *)

\* Client c goes on with locals o, no map is written, and o holds metadata of
\* objects that were known.
Harmless(c, o) ==
    /\ Moves(c, o) /\ ShapeOK(o) /\ ~InPut(o) /\ o.name # "put"
    /\ MapsOf(timeline') \subseteq MapsOf(timeline) /\ Cur' = Cur /\ now' = now
    /\ \A t \in Held(o) :
          \/ \E s \in Held(op[c]) : SameData(t, s)
          \/ \E m \in MapsOf(timeline) : \E s \in MetasIn(m) : SameData(t, s)
    /\ o.name = "gc" => MarkOK(Cur, o) /\ \A d \in Clients \ {c} : op[d].name # "put"

\* Data of the same object.
LEMMA SameGood ==
    ASSUME NEW t, NEW s, NEW n, SameData(t, s), Good(s, n) PROVE Good(t, n)
  BY DEF SameData, Good, SizesOK, Stamped

\* Such a step keeps the invariant.
LEMMA HarmlessKeeps ==
    ASSUME TypeInv, CoreInv, NEW c \in Clients, NEW o, Harmless(c, o) PROVE CoreInv'
<1>1. /\ op'[c] = o /\ MapsOf(timeline') \subseteq MapsOf(timeline) /\ Cur' = Cur /\ now' = now
      /\ \A d \in Clients \ {c} : Same(op[d], op'[d])
  BY DEF Harmless, Moves
<1>2. \A d \in Clients \ {c} :
          /\ ShapeOK(op[d]) => ShapeOK(op'[d])
          /\ Held(op'[d]) = Held(op[d]) /\ (InPut(op'[d]) <=> InPut(op[d])) /\ PutMeta(op'[d]) = PutMeta(op[d])
          /\ ChunksDone(op'[d]) = ChunksDone(op[d]) /\ op'[d].name = op[d].name
  BY <1>1, SameShape
<1>3. ShapeOK(o) /\ ~InPut(o) /\ o.name # "put" BY DEF Harmless
<1>4. ShapeInv' BY <1>1, <1>2, <1>3 DEF CoreInv, ShapeInv
<1>5. ApartInv'
  <2> SUFFICES ASSUME NEW a \in Clients, NEW d \in Clients, op'[a].name = "put", op'[d].name = "gc" PROVE FALSE
    BY DEF ApartInv
  <2>1. a # c /\ op[a].name = "put" BY <1>1, <1>2, <1>3
  <2>2. CASE d = c BY <1>1, <2>1, <2>2 DEF Harmless
  <2>3. CASE d # c BY <1>2, <2>1, <2>3 DEF CoreInv, ApartInv
  <2> QED BY <2>2, <2>3
<1>6. \A t \in Held(o) : Good(t, now)
  <2> SUFFICES ASSUME NEW t \in Held(o) PROVE Good(t, now)
    OBVIOUS
  <2>1. CASE \E s \in Held(op[c]) : SameData(t, s) BY <2>1, SameGood DEF CoreInv, KnownInv
  <2>2. CASE \E m \in MapsOf(timeline) : \E s \in MetasIn(m) : SameData(t, s)
    BY <2>2, SameGood DEF CoreInv, KnownInv
  <2> QED BY <2>1, <2>2 DEF Harmless
<1>7. KnownInv'
  <2>1. \A m \in MapsOf(timeline') : \A t \in MetasIn(m) : Good(t, now') BY <1>1 DEF CoreInv, KnownInv
  <2>2. ASSUME NEW d \in Clients, NEW t \in Held(op'[d]) PROVE Good(t, now')
    <3>1. CASE d = c BY <1>1, <1>6, <2>2, <3>1
    <3>2. CASE d # c BY <1>1, <1>2, <2>2, <3>2 DEF CoreInv, KnownInv
    <3> QED BY <3>1, <3>2
  <2> QED BY <2>1, <2>2 DEF KnownInv
<1>8. FreshInv'
  <2> SUFFICES ASSUME NEW a \in Clients, InPut(op'[a])
               PROVE  LET id == PutMeta(op'[a]).object_id
                      IN  /\ \A m \in MapsOf(timeline') : \A t \in MetasIn(m) : t.object_id # id
                          /\ \A d \in Clients \ {a} : \A t \in Held(op'[d]) : t.object_id # id
    BY DEF FreshInv
  <2>1. a # c /\ InPut(op[a]) /\ PutMeta(op'[a]) = PutMeta(op[a]) BY <1>1, <1>2, <1>3
  <2>2. \A m \in MapsOf(timeline) : \A t \in MetasIn(m) : t.object_id # PutMeta(op[a]).object_id
    BY <2>1 DEF CoreInv, FreshInv
  <2>3. \A d \in Clients \ {a} : \A t \in Held(op[d]) : t.object_id # PutMeta(op[a]).object_id
    BY <2>1 DEF CoreInv, FreshInv
  <2>4. ASSUME NEW t \in Held(o) PROVE t.object_id # PutMeta(op[a]).object_id
    <3>1. CASE \E s \in Held(op[c]) : SameData(t, s) BY <2>1, <2>3, <3>1 DEF SameData
    <3>2. CASE \E m \in MapsOf(timeline) : \E s \in MetasIn(m) : SameData(t, s) BY <2>2, <3>2 DEF SameData
    <3> QED BY <3>1, <3>2 DEF Harmless
  <2>5. ASSUME NEW d \in Clients \ {a}, NEW t \in Held(op'[d]) PROVE t.object_id # PutMeta(op[a]).object_id
    <3>1. CASE d = c BY <1>1, <2>4, <2>5, <3>1
    <3>2. CASE d # c BY <1>2, <2>3, <2>5, <3>2
    <3> QED BY <3>1, <3>2
  <2> QED BY <1>1, <2>1, <2>2, <2>5
<1>9. DoneInv' BY <1>1, <1>2, <1>3 DEF CoreInv, DoneInv
<1>10. MapInv' BY <1>1 DEF CoreInv, MapInv
<1>11. MarkInv'
  <2> SUFFICES ASSUME NEW d \in Clients, op'[d].name = "gc" PROVE MarkOK(Cur', op'[d])
    BY DEF MarkInv
  <2>1. CASE d = c BY <1>1, <2>1 DEF Harmless
  <2>2. CASE d # c
    <3>1. MarkOK(Cur, op[d]) BY <1>2, <2>2 DEF CoreInv, MarkInv
    <3>2. op'[d].reachable = op[d].reachable /\ op'[d].pc = op[d].pc /\ op'[d].todo = op[d].todo
      BY <1>1, <2>2 DEF Same
    <3> QED BY <1>1, <3>1, <3>2 DEF MarkOK
  <2> QED BY <2>1, <2>2
<1> QED BY <1>4, <1>5, <1>7, <1>8, <1>9, <1>10, <1>11 DEF CoreInv

\* A quiet step that holds nothing.
LEMMA QuietHarmless ==
    ASSUME NEW c \in Clients, NEW o, Quiet(c, o), WhereOK(o), o.queue = <<>>, o.pc # "get",
           o.name = "gc" => MarkOK(Cur, o) /\ \A d \in Clients \ {c} : op[d].name # "put", o.name # "put"
    PROVE  Harmless(c, o)
<1>1. Held(o) = {} /\ ~InPut(o) /\ QueueOK(o) BY NoQueue
<1>2. Moves(c, o) /\ UNCHANGED <<timeline, now>> BY DEF Quiet
<1>3. Cur' = Cur BY <1>2 DEF Cur
<1> QED BY <1>1, <1>2, <1>3 DEF Harmless, ShapeOK

\* Operations that return.
LEMMA IdleShape == Idle.queue = <<>> /\ WhereOK(Idle) /\ ShapeOK(Idle) /\ Held(Idle) = {} /\ ~InPut(Idle)
<1>1. Idle.queue = <<>> BY DEF Idle
<1>2. WhereOK(Idle) BY IdleType DEF WhereOK
<1> QED BY <1>1, <1>2, NoQueue, IdleType DEF ShapeOK

\* FlushFails, GetReturn, ListReturn, Acknowledge and GcReturn.
LEMMA ReturnHarmless ==
    ASSUME TypeInv, NEW c \in Clients,
           FlushFails(c) \/ GetReturn(c) \/ ListReturn(c) \/ Acknowledge(c) \/ GcReturn(c)
    PROVE  Harmless(c, Idle)
<1>1. CASE FlushFails(c) \/ GetReturn(c) \/ ListReturn(c)
  <2>1. Quiet(c, Idle) BY <1>1, ReturnMoves
  <2> QED BY <2>1, QuietHarmless, IdleShape, IdleType
<1>2. CASE Acknowledge(c) \/ GcReturn(c)
  <2>1. Cur \in MapsOf(timeline) BY CurIsOne DEF TypeInv, Cur
  <2>2. Moves(c, Idle) /\ Cur' = Cur /\ now' = now /\ MapsOf(timeline') \subseteq MapsOf(timeline)
    <3>1. CASE Acknowledge(c)
      <4>1. Moves(c, Idle) /\ Cur' = Cur /\ UNCHANGED <<now, count>> /\ MapsOf(timeline') = {Cur}
        BY <3>1, AcknowledgeMoves, Zenon
      <4> QED BY <2>1, <4>1
    <3>2. CASE GcReturn(c) BY <3>2, GcReturnMoves
    <3> QED BY <1>2, <3>1, <3>2
  <2> QED BY <2>2, IdleShape, IdleType DEF Harmless
<1> QED BY <1>1, <1>2

\* CreateBucket.
LEMMA CreateHarmless ==
    ASSUME TypeInv, NEW c \in Clients, NEW b \in Buckets, CreateBucket(c, b)
    PROVE  \E o : Harmless(c, o)
<1> DEFINE q == <<PutCall(BucketMetaKey(b), b)>>
           o == Begun("create", <<>>, <<>>, q)
<1>1. q \in Seq(KVCall) /\ Len(q) = 1 /\ q[1] = PutCall(BucketMetaKey(b), b) /\ Moves(c, o)
  BY CreateBucketMoves
<1> HIDE DEF q
<1>2. ShapeOK(o) /\ ~InPut(o) /\ o.name = "create" /\ Held(o) = {} BY <1>1, CreateBegun
<1>3. UNCHANGED <<timeline, now>> BY DEF CreateBucket
<1>4. Cur' = Cur BY <1>3 DEF Cur
<1> HIDE DEF o
<1> QED BY <1>1, <1>2, <1>3, <1>4 DEF Harmless

\* Stored metadata.
LEMMA IsStored ==
    ASSUME TypeInv, NEW k \in DOMAIN Cur, k.kind = "objmeta"
    PROVE  Cur[k] \in MetasIn(Cur) /\ Cur \in MapsOf(timeline)
  BY CurIsOne DEF TypeInv, Cur, MetasIn

\* DeleteObject.
LEMMA DeleteHarmless ==
    ASSUME TypeInv, NEW c \in Clients, NEW b \in Buckets, NEW k \in Keys, DeleteObject(c, b, k)
    PROVE  \E o : Harmless(c, o)
<1> DEFINE x == ObjectMetaKey(b, k)
           t == Cur[x]
           o == Begun("delete", b, k, DeleteCalls(b, k, t))
<1>1. x \in DOMAIN Cur /\ t \in Meta /\ Moves(c, o) BY DeleteObjectMoves
<1>2. x.kind = "objmeta" BY DEF ObjectMetaKey
<1>3. t \in MetasIn(Cur) /\ Cur \in MapsOf(timeline) BY <1>1, <1>2, IsStored
<1>4. UNCHANGED <<timeline, now>> BY DEF DeleteObject
<1>5. Cur' = Cur BY <1>4 DEF Cur
<1> HIDE DEF t, x
<1>6. ShapeOK(o) /\ ~InPut(o) /\ o.name = "delete" /\ \A s \in Held(o) : SameData(s, t) BY <1>1, DeleteBegun
<1> HIDE DEF o
<1>7. \A s \in Held(o) : \E m \in MapsOf(timeline) : \E r \in MetasIn(m) : SameData(s, r) BY <1>3, <1>6
<1> QED BY <1>1, <1>4, <1>5, <1>6, <1>7 DEF Harmless

\* GetObject.
LEMMA GetHarmless ==
    ASSUME TypeInv, NEW c \in Clients, NEW b \in Buckets, NEW k \in Keys, GetObject(c, b, k)
    PROVE  \E o : Harmless(c, o)
<1> DEFINE x == ObjectMetaKey(b, k)
           t == Cur[x]
           o == Reading(b, k, t)
<1>1. x \in DOMAIN Cur /\ t \in Meta /\ Quiet(c, o) BY GetObjectMoves
<1>2. x.kind = "objmeta" BY DEF ObjectMetaKey
<1>3. t \in MetasIn(Cur) /\ Cur \in MapsOf(timeline) BY <1>1, <1>2, IsStored
<1>4. Moves(c, o) /\ UNCHANGED <<timeline, now>> BY <1>1 DEF Quiet
<1>5. Cur' = Cur BY <1>4 DEF Cur
<1> HIDE DEF t, x
<1>6. o.pc = "get" /\ o.name = "get" /\ o.queue = Idle.queue /\ o.meta = t BY IdleType DEF Reading, OpState
<1> HIDE DEF o
<1>7. o.queue = <<>> BY <1>6, IdleShape
<1>8. Held(o) = {t} /\ ~InPut(o) /\ QueueOK(o) BY <1>6, <1>7, NoQueue
<1>9. WhereOK(o) BY <1>6 DEF WhereOK
<1>10. SameData(t, t) BY DEF SameData
<1> QED BY <1>3, <1>4, <1>5, <1>6, <1>8, <1>9, <1>10 DEF Harmless, ShapeOK

\* GetChunk.
LEMMA GetChunkHarmless ==
    ASSUME TypeInv, ShapeInv, NEW c \in Clients, GetChunk(c) PROVE \E o : Harmless(c, o)
<1> DEFINE k == NextChunk(op[c])
           o == IF k \in DOMAIN Cur THEN [op[c] EXCEPT !.i = @ + 1, !.data = @ \o Cur[k]]
                ELSE [Idle EXCEPT !.error = TRUE]
<1>1. op[c].pc = "get" /\ Quiet(c, o) BY GetChunkMoves
<1>2. op[c] \in OpState /\ ShapeOK(op[c]) BY DEF TypeInv, ShapeInv
<1>3. op[c].name = "get" /\ op[c].queue = <<>> BY <1>1, <1>2 DEF ShapeOK, WhereOK, QueueOK
<1>4. CASE k \in DOMAIN Cur
  <2>1. o.pc = "get" /\ o.name = "get" /\ o.queue = <<>> /\ o.meta = op[c].meta
    BY <1>1, <1>2, <1>3, <1>4 DEF OpState
  <2> HIDE DEF o
  <2>2. WhereOK(o) BY <2>1 DEF WhereOK
  <2>3. ~InPut(o) /\ QueueOK(o) /\ Held(o) = {op[c].meta} BY <2>1, NoQueue
  <2>4. Held(op[c]) = {op[c].meta} BY <1>1, <1>3, NoQueue
  <2>5. SameData(op[c].meta, op[c].meta) BY DEF SameData
  <2>6. Moves(c, o) /\ UNCHANGED <<timeline, now>> BY <1>1 DEF Quiet
  <2>7. Cur' = Cur BY <2>6 DEF Cur
  <2> QED BY <2>1, <2>2, <2>3, <2>4, <2>5, <2>6, <2>7 DEF Harmless, ShapeOK
<1>5. CASE k \notin DOMAIN Cur
  <2>1. o.pc = "idle" /\ o.name = "" /\ o.queue = Idle.queue BY <1>5, IdleType DEF OpState
  <2> HIDE DEF o
  <2>2. WhereOK(o) /\ o.queue = <<>> BY <2>1, IdleShape DEF WhereOK
  <2> QED BY <1>1, <2>1, <2>2, QuietHarmless
<1> QED BY <1>4, <1>5

\* ListObjects and ListEntry.
LEMMA ListHarmless ==
    ASSUME TypeInv, ShapeInv, NEW c \in Clients,
           (\E b \in Buckets, pre \in ListPrefixes : ListObjects(c, b, pre)) \/ \E k \in op[c].todo : ListEntry(c, k)
    PROVE  \E o : Harmless(c, o)
<1>1. \E o : o.pc = "list" /\ o.name = "list" /\ o.queue = <<>> /\ Quiet(c, o)
  <2>1. CASE \E b \in Buckets, pre \in ListPrefixes : ListObjects(c, b, pre) BY <2>1, ListObjectsMoves
  <2>2. CASE \E k \in op[c].todo : ListEntry(c, k)
    <3>1. PICK o : o.pc = "list" /\ o.name = op[c].name /\ o.queue = op[c].queue /\ op[c].pc = "list" /\ Quiet(c, o)
      BY <2>2, ListEntryMoves
    <3>2. ShapeOK(op[c]) /\ op[c] \in OpState BY DEF ShapeInv, TypeInv
    <3>3. op[c].queue = <<>> /\ op[c].name = "list"
      BY <3>1, <3>2 DEF ShapeOK, WhereOK, QueueOK, OpState, OpNames
    <3> QED BY <3>1, <3>3
  <2> QED BY <2>1, <2>2
<1>2. PICK o : o.pc = "list" /\ o.name = "list" /\ o.queue = <<>> /\ Quiet(c, o) BY <1>1
<1>3. WhereOK(o) BY <1>2 DEF WhereOK
<1> QED BY <1>2, <1>3, QuietHarmless

\* No put runs when a collection is called, and no collection when a put is.
LEMMA CalledApart ==
    ASSUME PutGcApart, TypeInv, ShapeInv, NEW c \in Clients
    PROVE  /\ Called(c, "gc") => \A d \in Clients : op[d].name # "put"
           /\ Called(c, "put") => \A d \in Clients : op[d].name # "gc"
<1>1. ASSUME NEW d \in Clients, op[d].name \in {"put", "gc"} PROVE op[d].pc # "idle"
  <2>1. WhereOK(op[d]) BY DEF ShapeInv, ShapeOK
  <2> QED BY <1>1, <2>1 DEF WhereOK
<1>2. {"gc", "put"} = {"put", "gc"} OBVIOUS
<1>3. ASSUME Called(c, "gc"), NEW d \in Clients, op[d].name = "put" PROVE FALSE
  BY <1>1, <1>2, <1>3 DEF Called, PutGcApart
<1>4. ASSUME Called(c, "put"), NEW d \in Clients, op[d].name = "gc" PROVE FALSE
  BY <1>1, <1>4 DEF Called, PutGcApart
<1> QED BY <1>3, <1>4

\* GarbageCollectChunks.
LEMMA CollectHarmless ==
    ASSUME PutGcApart, TypeInv, ShapeInv, NEW c \in Clients, GarbageCollectChunks(c)
    PROVE  \E o : Harmless(c, o)
<1> DEFINE K == {k \in DOMAIN Cur : k.kind = "objmeta"}
           G == {k \in DOMAIN Cur : k.kind = "objchunk" /\ IdOf(k) \notin ReachableIn(Cur)}
           o == Marking(K, G)
<1>1. Quiet(c, o) BY CollectMoves
<1>2. \A k \in DOMAIN Cur : k.kind = "objmeta" => k \in K OBVIOUS
<1> HIDE DEF K, G
<1>3. o.pc = "mark" /\ o.name = "gc" /\ o.todo = K /\ o.queue = Idle.queue BY IdleType DEF Marking, OpState
<1> HIDE DEF o
<1>4. WhereOK(o) /\ o.queue = <<>> BY <1>3, IdleShape DEF WhereOK
<1>5. MarkOK(Cur, o) BY <1>2, <1>3 DEF MarkOK
<1>6. \A d \in Clients \ {c} : op[d].name # "put" BY CalledApart DEF GarbageCollectChunks
<1> QED BY <1>1, <1>3, <1>4, <1>5, <1>6, QuietHarmless

\* Metadata is live if its chunks are kept.
LEMMA LiveKept ==
    ASSUME NEW t \in Meta PROVE Live(t) <=> KeepsChunks(Deserialize(t)) /\ Deserialize(t) = t
<1>1. Len(t.content_type) = 1 => Deserialize(t) = t BY DEF Deserialize
<1>2. Len(t.content_type) # 1 => Deserialize(t) = NoMeta BY DEF Deserialize
<1>3. NoMeta.state = "Pending" BY DEF NoMeta
<1>4. ~KeepsChunks(NoMeta) BY DEF KeepsChunks
<1>5. t.state = "Committed" => t # NoMeta BY <1>3
<1> QED BY <1>1, <1>2, <1>4, <1>5 DEF Live, KeepsChunks

\* GcMark and GcScan.
LEMMA MarkHarmless ==
    ASSUME TypeInv, CoreInv, NEW c \in Clients, GcScan(c) \/ \E k \in op[c].todo : GcMark(c, k)
    PROVE  \E o : Harmless(c, o)
<1>1. op[c] \in OpState /\ ShapeOK(op[c]) BY DEF TypeInv, CoreInv, ShapeInv
<1>2. ASSUME op[c].pc = "mark"
      PROVE  /\ op[c].name = "gc" /\ op[c].queue = <<>> /\ MarkOK(Cur, op[c])
             /\ \A d \in Clients : op[d].name # "put"
  <2>1. op[c].name = "gc" /\ op[c].queue = <<>> BY <1>1, <1>2 DEF ShapeOK, WhereOK, QueueOK
  <2> QED BY <2>1 DEF CoreInv, MarkInv, ApartInv
<1>3. CASE GcScan(c)
  <2> DEFINE K == {k \in DOMAIN Cur : k.kind = "objchunk"}
             o == Sweeping(op[c], K)
  <2>1. op[c].pc = "mark" /\ op[c].todo = {} /\ Quiet(c, o) BY <1>3, GcScanMoves
  <2> HIDE DEF K
  <2>2. o.pc = "sweep" /\ o.name = "gc" /\ o.queue = <<>> /\ o.reachable = op[c].reachable
    BY <1>1, <1>2, <2>1 DEF Sweeping, OpState
  <2> HIDE DEF o
  <2>3. WhereOK(o) BY <2>2 DEF WhereOK
  <2>4. MarkOK(Cur, o) BY <1>2, <2>1, <2>2 DEF MarkOK
  <2> QED BY <1>2, <2>1, <2>2, <2>3, <2>4, QuietHarmless
<1>4. ASSUME NEW k \in op[c].todo, GcMark(c, k) PROVE \E o : Harmless(c, o)
  <2> DEFINE t == Cur[k]
             o == Marked(op[c], k, t)
             I == {m.object_id : m \in {x \in {Deserialize(t)} : KeepsChunks(x)}}
  <2>1. op[c].pc = "mark" /\ t \in Meta /\ Quiet(c, o) BY <1>4, GcMarkMoves
  <2>2. Live(t) => t.object_id \in I BY <2>1, LiveKept
  <2>3. o = [op[c] EXCEPT !.todo = @ \ {k}, !.reachable = @ \cup I] BY DEF Marked
  <2> HIDE DEF I, o
  <2>4. /\ o.pc = "mark" /\ o.name = "gc" /\ o.queue = <<>> /\ o.todo = op[c].todo \ {k}
        /\ o.reachable = op[c].reachable \cup I
    BY <1>1, <1>2, <2>1, <2>3 DEF OpState
  <2>5. WhereOK(o) BY <2>4 DEF WhereOK
  <2>6. MarkOK(Cur, o)
    <3> SUFFICES ASSUME NEW y \in DOMAIN Cur, y.kind = "objmeta", Live(Cur[y])
                 PROVE  Cur[y].object_id \in o.reachable \/ (o.pc = "mark" /\ y \in o.todo)
      BY DEF MarkOK
    <3>1. CASE y = k BY <2>2, <2>4, <3>1
    <3>2. CASE y # k BY <1>2, <2>1, <2>4, <3>2 DEF MarkOK
    <3> QED BY <3>1, <3>2
  <2> QED BY <1>2, <2>1, <2>4, <2>5, <2>6, QuietHarmless
<1> QED BY <1>3, <1>4

-----------------------------------------------------------------------------
(* Puts.                                                                    *)

\* What an operation holds is metadata, and a put holds what it writes.
LEMMA HeldType ==
    ASSUME NEW o \in OpState
    PROVE  Held(o) \subseteq Meta /\ (InPut(o) /\ QueueOK(o) => PutMeta(o) \in Held(o))
<1>1. o.queue \in Seq(KVCall) /\ o.meta \in Meta BY DEF OpState
<1>2. DOMAIN o.queue = 1..Len(o.queue) /\ Len(o.queue) \in Nat /\ \A j \in DOMAIN o.queue : o.queue[j] \in KVCall
  BY <1>1, LenProperties, ElementOfSeq
<1>3. \A x \in KVCall : x.key.kind = "objmeta" => x.val \in Meta BY DEF KVCall, Fits
<1>4. Held(o) \subseteq Meta BY <1>1, <1>2, <1>3 DEF Held
<1>5. ASSUME InPut(o), QueueOK(o) PROVE PutMeta(o) \in Held(o)
  <2>1. Len(o.queue) >= 2 /\ IsRest(o.queue, PutMeta(o)) BY <1>5 DEF InPut, QueueOK
  <2>2. o.queue[Len(o.queue) - 1].key.kind = "objmeta" BY <1>1, <2>1, RestFacts
  <2>3. Len(o.queue) - 1 \in DOMAIN o.queue BY <1>2, <2>1
  <2> QED BY <2>2, <2>3 DEF Held, PutMeta
<1> QED BY <1>4, <1>5

\* The id of a new object ends in the time, and its sizes fit.
LEMMA NewMetaGood ==
    ASSUME NEW req \in Requests, NEW ms \in Int
    PROVE  LET t == NewMeta(req, ms)
           IN  /\ SizesOK(t) /\ t.object_id # <<>> /\ t.object_id[Len(t.object_id)] = ms
               /\ t.state = "Committed"
<1> DEFINE t == NewMeta(req, ms)
           p == req.bucket \o req.key
<1>1. t.object_id = p \o <<ms>> BY DEF NewMeta, MakeObjectId
<1>2. SizesOK(t) /\ t.state = "Committed" BY DEF NewMeta, SizesOK
<1>3. req.bucket \in Seq(Nat) /\ req.key \in Seq(Nat) BY ObjectStoreAssumption DEF PutObjectRequest
<1>4. p \in Seq(Int) BY <1>3, NameTypes
<1> HIDE DEF p, t
<1>5. <<ms>> \in Seq(Int) /\ Len(<<ms>>) = 1 /\ <<ms>>[1] = ms OBVIOUS
<1>6. PICK n \in Nat : n = Len(p) BY <1>4, LenProperties
<1> DEFINE q == p \o <<ms>>
<1>7. q \in Seq(Int) /\ Len(q) = n + 1 /\ q[n + 1] = ms
  <2>1. /\ q \in Seq(Int) /\ Len(q) = Len(p) + Len(<<ms>>)
        /\ \A i \in 1..(Len(p) + Len(<<ms>>)) : q[i] = IF i <= Len(p) THEN p[i] ELSE <<ms>>[i - Len(p)]
    BY <1>4, <1>5, ConcatProperties
  <2>2. n + 1 \in 1..(n + 1) /\ ~(n + 1 <= n) /\ (n + 1) - n = 1 BY <1>6
  <2> HIDE DEF q
  <2> QED BY <1>5, <1>6, <2>1, <2>2
<1> HIDE DEF q
<1>8. q # <<>>
  <2>1. n + 1 # 0 BY <1>6
  <2>2. Len(<<>>) = 0 BY EmptySeq
  <2> QED BY <1>7, <2>1, <2>2
<1> QED BY <1>1, <1>2, <1>7, <1>8 DEF q, t

\* Metadata known before n is known later, and its id is not one of a later time.
LEMMA OlderId ==
    ASSUME NEW s \in Meta, NEW n \in Int, NEW ms \in Int, n < ms, Good(s, n)
    PROVE  /\ Good(s, ms)
           /\ \A t : t.object_id[Len(t.object_id)] = ms => s.object_id # t.object_id
<1>1. s.object_id \in Seq(Int) /\ s.object_id # <<>> /\ s.object_id[Len(s.object_id)] <= n
  BY DEF Meta, Good, Stamped
<1>2. Len(s.object_id) \in 1..Len(s.object_id) /\ DOMAIN s.object_id = 1..Len(s.object_id)
  <2>1. Len(s.object_id) \in Nat \ {0} BY <1>1, EmptySeq
  <2> QED BY <1>1, <2>1, LenProperties
<1>3. PICK l \in Int : l = s.object_id[Len(s.object_id)] BY <1>1, <1>2, ElementOfSeq
<1>4. l <= ms /\ l # ms BY <1>1, <1>3
<1> QED BY <1>1, <1>3, <1>4 DEF Good, Stamped

\* PutObject.
LEMMA PutKeeps ==
    ASSUME PutGcApart, ClockMoves, TypeInv, CoreInv, NEW c \in Clients, NEW req \in Requests, PutObject(c, req)
    PROVE  CoreInv'
<1> DEFINE t == NewMeta(req, now')
           q == PutCalls(t.object_id, t)
           o == Begun("put", req.bucket, req.key, q)
<1>1. now' \in Int /\ t \in Meta /\ IsPutQueue(q, t) /\ Moves(c, o) BY PutObjectMoves
<1>2. now \in Int /\ now < now' BY DEF PutObject, ClockMoves, TypeInv
<1>3. /\ SizesOK(t) /\ t.object_id # <<>> /\ t.object_id[Len(t.object_id)] = now'
      /\ t.state = "Committed"
  BY <1>1, NewMetaGood
<1>4. req.bucket \in Seq(Nat) /\ req.key \in Seq(Nat) BY ObjectStoreAssumption DEF PutObjectRequest
<1> HIDE DEF t, q
<1>5. /\ ShapeOK(o) /\ InPut(o) /\ PutMeta(o) = t /\ ChunksDone(o) = 0 /\ o.name = "put"
      /\ \A s \in Held(o) : s = t
  BY <1>1, <1>3, <1>4, PutBegun
<1> HIDE DEF o
<1>6. UNCHANGED timeline /\ Cur' = Cur BY DEF PutObject, Cur
<1>7. op'[c] = o /\ \A d \in Clients \ {c} : Same(op[d], op'[d]) BY <1>1 DEF Moves
<1>8. \A d \in Clients \ {c} :
          /\ ShapeOK(op[d]) => ShapeOK(op'[d])
          /\ Held(op'[d]) = Held(op[d]) /\ (InPut(op'[d]) <=> InPut(op[d])) /\ PutMeta(op'[d]) = PutMeta(op[d])
          /\ ChunksDone(op'[d]) = ChunksDone(op[d]) /\ op'[d].name = op[d].name
  BY <1>7, SameShape
<1>9. \A m \in MapsOf(timeline) : \A s \in MetasIn(m) : s \in Meta /\ Good(s, now)
  <2>1. \A m \in MapsOf(timeline) : m \in KVMap BY CurIsOne DEF TypeInv
  <2>2. \A m \in KVMap : MetasIn(m) \subseteq Meta BY MapFields DEF MetasIn, Fits
  <2> QED BY <2>1, <2>2 DEF CoreInv, KnownInv
<1>10. \A d \in Clients : \A s \in Held(op[d]) : s \in Meta /\ Good(s, now)
  BY HeldType DEF CoreInv, KnownInv, TypeInv
<1>11. \A s \in Meta : Good(s, now) => Good(s, now') /\ s.object_id # t.object_id
  BY <1>1, <1>2, <1>3, OlderId
<1>12. Good(t, now') BY <1>1, <1>3 DEF Good, Stamped
<1>13. ShapeInv' BY <1>5, <1>7, <1>8 DEF CoreInv, ShapeInv
<1>14. ApartInv'
  <2>1. \A d \in Clients : op[d].name # "gc" BY CalledApart DEF CoreInv, PutObject
  <2>2. \A d \in Clients : op'[d].name # "gc" BY <1>5, <1>7, <1>8, <2>1
  <2> QED BY <2>2 DEF ApartInv
<1>15. KnownInv'
  <2>1. \A m \in MapsOf(timeline') : \A s \in MetasIn(m) : Good(s, now') BY <1>6, <1>9, <1>11
  <2>2. ASSUME NEW d \in Clients, NEW s \in Held(op'[d]) PROVE Good(s, now')
    <3>1. CASE d = c BY <1>5, <1>7, <1>12, <2>2, <3>1
    <3>2. CASE d # c BY <1>8, <1>10, <1>11, <2>2, <3>2
    <3> QED BY <3>1, <3>2
  <2> QED BY <2>1, <2>2 DEF KnownInv
<1>16. FreshInv'
  <2> SUFFICES ASSUME NEW a \in Clients, InPut(op'[a])
               PROVE  LET id == PutMeta(op'[a]).object_id
                      IN  /\ \A m \in MapsOf(timeline') : \A s \in MetasIn(m) : s.object_id # id
                          /\ \A d \in Clients \ {a} : \A s \in Held(op'[d]) : s.object_id # id
    BY DEF FreshInv
  <2>1. CASE a = c
    <3>1. PutMeta(op'[a]) = t BY <1>5, <1>7, <2>1
    <3>2. \A m \in MapsOf(timeline') : \A s \in MetasIn(m) : s.object_id # t.object_id BY <1>6, <1>9, <1>11
    <3>3. \A d \in Clients \ {a} : \A s \in Held(op'[d]) : s.object_id # t.object_id BY <1>8, <1>10, <1>11, <2>1
    <3> QED BY <3>1, <3>2, <3>3
  <2>2. CASE a # c
    <3>1. InPut(op[a]) /\ PutMeta(op'[a]) = PutMeta(op[a]) BY <1>8, <2>2
    <3>2. PutMeta(op[a]) \in Held(op[a])
      <4>1. op[a] \in OpState /\ QueueOK(op[a]) BY DEF TypeInv, CoreInv, ShapeInv, ShapeOK
      <4> QED BY <3>1, <4>1, HeldType
    <3>3. t.object_id # PutMeta(op[a]).object_id BY <1>10, <1>11, <3>2
    <3>4. \A m \in MapsOf(timeline') : \A s \in MetasIn(m) : s.object_id # PutMeta(op[a]).object_id
      BY <1>6, <3>1 DEF CoreInv, FreshInv
    <3>5. ASSUME NEW d \in Clients \ {a}, NEW s \in Held(op'[d]) PROVE s.object_id # PutMeta(op[a]).object_id
      <4>1. CASE d = c BY <1>5, <1>7, <3>3, <3>5, <4>1
      <4>2. CASE d # c BY <1>8, <3>1, <3>5, <4>2 DEF CoreInv, FreshInv
      <4> QED BY <4>1, <4>2
    <3> QED BY <3>1, <3>4, <3>5
  <2> QED BY <2>1, <2>2
<1>17. DoneInv'
  <2> SUFFICES ASSUME NEW a \in Clients, InPut(op'[a]) PROVE HasChunks(Cur', PutMeta(op'[a]), ChunksDone(op'[a]))
    BY DEF DoneInv
  <2>1. CASE a = c
    <3>1. ChunksDone(op'[a]) = 0 BY <1>5, <1>7, <2>1
    <3>2. 0..(0 - 1) = {} OBVIOUS
    <3> QED BY <3>1, <3>2 DEF HasChunks
  <2>2. CASE a # c BY <1>6, <1>8, <2>2 DEF CoreInv, DoneInv
  <2> QED BY <2>1, <2>2
<1>18. MapInv' BY <1>6 DEF CoreInv, MapInv
<1>19. MarkInv'
  <2>1. \A d \in Clients : op[d].name # "gc" BY CalledApart DEF CoreInv, PutObject
  <2>2. \A d \in Clients : op'[d].name # "gc" BY <1>5, <1>7, <1>8, <2>1
  <2> QED BY <2>2 DEF MarkInv
<1> QED BY <1>13, <1>14, <1>15, <1>16, <1>17, <1>18, <1>19 DEF CoreInv
-----------------------------------------------------------------------------
(* Writes and sweeps.                                                       *)

\* The key of a chunk names its object.
LEMMA ChunkKeyInjective ==
    ASSUME NEW id \in Seq(Int), NEW jd \in Seq(Int), NEW i \in Int, NEW j \in Int
    PROVE  /\ ChunkKey(id, i) = ChunkKey(jd, j) => id = jd /\ i = j
           /\ IdOf(ChunkKey(id, i)) = id /\ ChunkKey(id, i).kind = "objchunk"
<1>1. ChunkKey(id, i).path = Append(id, i) /\ ChunkKey(jd, j).path = Append(jd, j) /\ ChunkKey(id, i).kind = "objchunk"
  BY DEF ChunkKey
<1>2. ASSUME ChunkKey(id, i) = ChunkKey(jd, j) PROVE id = jd /\ i = j
  <2>1. Append(id, i) = Append(jd, j) BY <1>1, <1>2
  <2> QED BY <2>1, AppendInjective
<1>3. IdOf(ChunkKey(id, i)) = id
  <2>1. IdOf(ChunkKey(id, i)) = SubSeq(Append(id, i), 1, Len(Append(id, i)) - 1)
    BY <1>1 DEF IdOf, Front
  <2>2. Len(id) \in Nat /\ Len(Append(id, i)) = Len(id) + 1 BY AppendProperties, LenProperties
  <2>3. Len(Append(id, i)) - 1 = Len(id) BY <2>2
  <2>4. SubSeq(Append(id, i), 1, Len(id)) = id
    <3> DEFINE r == Append(id, i)
               v == SubSeq(r, 1, Len(id))
    <3>1. r \in Seq(Int) /\ Len(r) = Len(id) + 1 /\ \A n \in 1..Len(id) : r[n] = id[n] BY AppendProperties
    <3>2. v \in Seq(Int) /\ Len(v) = Len(id) /\ \A n \in 1..Len(id) : v[n] = r[n]
      <4> HIDE DEF r
      <4>1. 1 \in 1..(Len(r) + 1) /\ Len(id) \in (1 - 1)..Len(r) BY <2>2, <3>1
      <4> QED BY <2>2, <3>1, <4>1
    <3> HIDE DEF r, v
    <3>3. \A n \in 1..Len(id) : v[n] = id[n] BY <3>1, <3>2
    <3>4. v = id BY <3>2, <3>3, SeqEqual
    <3> QED BY <3>4 DEF v, r
  <2> QED BY <2>1, <2>3, <2>4
<1> QED BY <1>1, <1>2, <1>3

\* Chunks stay where another key changes.
LEMMA ChunksKept ==
    ASSUME NEW m, NEW u, NEW t, NEW n, NEW y, HasChunks(m, t, n),
           \A k \in DOMAIN m : k # y => k \in DOMAIN u /\ u[k] = m[k],
           \A i \in 0..(n - 1) : ChunkKey(t.object_id, i) # y
    PROVE  HasChunks(u, t, n)
  BY DEF HasChunks

\* What the metadata of a map is after a write.
LEMMA MetasAfter ==
    ASSUME NEW m, NEW u, NEW x \in KVCall, IsAfter(u, m, x)
    PROVE  /\ \A s \in MetasIn(u) : s \in MetasIn(m) \/ (x.key.kind = "objmeta" /\ s = x.val)
           /\ \A k \in DOMAIN u : k.kind = "objmeta" =>
                 \/ k \in DOMAIN m /\ u[k] = m[k] /\ k # x.key
                 \/ k = x.key /\ u[k] = x.val
<1>1. ASSUME NEW k \in DOMAIN u, k.kind = "objmeta"
      PROVE  \/ k \in DOMAIN m /\ u[k] = m[k] /\ k # x.key
             \/ k = x.key /\ u[k] = x.val
  <2>1. CASE k # x.key BY <1>1, <2>1 DEF IsAfter
  <2>2. CASE k = x.key
    <3>1. x.call \in {"put", "del"} BY DEF KVCall
    <3>2. x.call = "put" BY <1>1, <2>2, <3>1 DEF IsAfter
    <3> QED BY <2>2, <3>2 DEF IsAfter
  <2> QED BY <2>1, <2>2
<1> QED BY <1>1 DEF MetasIn

\* The chunks of another object stay when a client writes.
LEMMA ChunksStay ==
    ASSUME TypeInv, ShapeInv, NEW c \in Clients, Write(c), NEW s \in Meta, NEW n \in Nat, HasChunks(Cur, s, n),
           Head(op[c].queue).key.kind = "objchunk" => s.object_id # PutMeta(op[c]).object_id
    PROVE  HasChunks(Cur', s, n)
<1> DEFINE x == Head(op[c].queue)
           u == Cur'
           t == PutMeta(op[c])
<1>1. op[c].pc = "write" /\ x \in KVCall /\ IsAfter(u, Cur, x) BY WriteMoves, Zenon
<1>2. op[c] \in OpState /\ OpOK(Cur, op[c]) /\ ShapeOK(op[c]) BY DEF TypeInv, ShapeInv
<1>3. HeadOK(op[c]) BY <1>1, <1>2, WrittenShape
<1>4. x.key.kind = "objchunk" =>
          /\ InPut(op[c]) /\ ChunksDone(op[c]) \in 0..(t.chunk_count - 1)
          /\ x = PutCall(ChunkKey(t.object_id, ChunksDone(op[c])), ChunkValue(t.etag, ChunksDone(op[c])))
  BY <1>3 DEF HeadOK
<1>5. \A k \in DOMAIN Cur : k # x.key => k \in DOMAIN u /\ u[k] = Cur[k] BY <1>1 DEF IsAfter
<1>6. x.key.kind = "objchunk" => s.object_id # t.object_id OBVIOUS
<1> HIDE DEF x, u, t
<1>7. InPut(op[c]) => t \in Meta BY <1>2, HeldType DEF ShapeOK, t
<1>8. ASSUME NEW i \in 0..(n - 1) PROVE ChunkKey(s.object_id, i) # x.key
  <2>1. s.object_id \in Seq(Int) /\ i \in Int BY DEF Meta
  <2>2. ChunkKey(s.object_id, i).kind = "objchunk" BY DEF ChunkKey
  <2>3. CASE x.key.kind = "objchunk"
    <3>1. t.object_id \in Seq(Int) /\ ChunksDone(op[c]) \in Int BY <1>4, <1>7, <2>3 DEF Meta
    <3>2. x.key = ChunkKey(t.object_id, ChunksDone(op[c])) BY <1>4, <2>3 DEF PutCall
    <3> QED BY <1>6, <2>1, <2>3, <3>1, <3>2, ChunkKeyInjective
  <2>4. CASE x.key.kind # "objchunk" BY <2>2, <2>4
  <2> QED BY <2>3, <2>4
<1>9. HasChunks(u, s, n) BY <1>5, <1>8, ChunksKept
<1> QED BY <1>9 DEF u

\* Write.
LEMMA WriteKeeps ==
    ASSUME TypeInv, CoreInv, NEW c \in Clients, Write(c) PROVE CoreInv'
<1> DEFINE x == Head(op[c].queue)
           w == Written(op[c])
           u == Cur'
           t == PutMeta(op[c])
<1>1. /\ op[c].pc = "write" /\ UNCHANGED <<now, count>> /\ x \in KVCall /\ Moves(c, w)
      /\ IsAfter(u, Cur, x) /\ MapsOf(timeline') = MapsOf(timeline) \cup {u}
  BY WriteMoves, Zenon
<1>2. op[c] \in OpState /\ OpOK(Cur, op[c]) /\ ShapeOK(op[c]) BY DEF TypeInv, CoreInv, ShapeInv
<1>3. ShapeOK(w) /\ HeadOK(op[c]) BY <1>1, <1>2, WrittenShape
<1>4. w.name \in {op[c].name, ""} BY <1>2, IdleType DEF Written, OpState
<1>5. op'[c] = w /\ now' = now /\ \A d \in Clients \ {c} : Same(op[d], op'[d]) BY <1>1 DEF Moves
<1>6. \A d \in Clients \ {c} :
          /\ ShapeOK(op[d]) => ShapeOK(op'[d])
          /\ Held(op'[d]) = Held(op[d]) /\ (InPut(op'[d]) <=> InPut(op[d])) /\ PutMeta(op'[d]) = PutMeta(op[d])
          /\ ChunksDone(op'[d]) = ChunksDone(op[d]) /\ op'[d].name = op[d].name
  BY <1>5, SameShape
<1>7. /\ x.key.kind = "objmeta" => x.val \in Held(op[c]) /\
            \/ x.val.state = "Deleted"
            \/ InPut(op[c]) /\ x.val = t /\ ChunksDone(op[c]) = t.chunk_count /\ ~InPut(w)
      /\ x.key.kind = "objchunk" =>
            /\ InPut(op[c]) /\ InPut(w) /\ ChunksDone(op[c]) \in 0..(t.chunk_count - 1)
            /\ x = PutCall(ChunkKey(t.object_id, ChunksDone(op[c])), ChunkValue(t.etag, ChunksDone(op[c])))
      /\ InPut(w) =>
            /\ InPut(op[c]) /\ x.key.kind = "objchunk" /\ PutMeta(w) = t
            /\ ChunksDone(w) = ChunksDone(op[c]) + 1 /\ ChunksDone(op[c]) \in Nat
      /\ Held(w) \subseteq Held(op[c])
  BY <1>3 DEF HeadOK
<1>8. /\ \A s \in MetasIn(u) : s \in MetasIn(Cur) \/ (x.key.kind = "objmeta" /\ s = x.val)
      /\ \A k \in DOMAIN u : k.kind = "objmeta" =>
            \/ k \in DOMAIN Cur /\ u[k] = Cur[k] /\ k # x.key
            \/ k = x.key /\ u[k] = x.val
  BY <1>1, MetasAfter
<1>9. Cur \in MapsOf(timeline) /\ Cur \in KVMap BY CurIsOne DEF TypeInv, Cur
<1>10. \A k \in DOMAIN Cur : k # x.key => k \in DOMAIN u /\ u[k] = Cur[k] BY <1>1 DEF IsAfter
<1> HIDE DEF x, w, u, t
<1>11. InPut(op[c]) => t \in Held(op[c]) /\ t \in Meta
  BY <1>2, HeldType DEF ShapeOK, t
<1>12. ASSUME NEW s \in Meta, NEW n \in Nat, HasChunks(Cur, s, n),
              x.key.kind = "objchunk" => s.object_id # t.object_id
       PROVE  HasChunks(u, s, n)
  BY <1>12, ChunksStay DEF CoreInv, x, u, t
<1>13. ShapeInv' BY <1>3, <1>5, <1>6 DEF CoreInv, ShapeInv
<1>14. ApartInv'
  <2> SUFFICES ASSUME NEW a \in Clients, NEW d \in Clients, op'[a].name = "put", op'[d].name = "gc" PROVE FALSE
    BY DEF ApartInv
  <2>1. op[a].name = "put" /\ op[d].name = "gc" BY <1>4, <1>5, <1>6
  <2> QED BY <2>1 DEF CoreInv, ApartInv
<1>15. KnownInv'
  <2>1. \A s \in MetasIn(u) : Good(s, now) BY <1>7, <1>8, <1>9 DEF CoreInv, KnownInv
  <2>2. \A m \in MapsOf(timeline') : \A s \in MetasIn(m) : Good(s, now') BY <1>1, <1>5, <2>1 DEF CoreInv, KnownInv
  <2>3. ASSUME NEW d \in Clients, NEW s \in Held(op'[d]) PROVE Good(s, now')
    <3>1. CASE d = c BY <1>5, <1>7, <2>3, <3>1 DEF CoreInv, KnownInv
    <3>2. CASE d # c BY <1>5, <1>6, <2>3, <3>2 DEF CoreInv, KnownInv
    <3> QED BY <3>1, <3>2
  <2> QED BY <2>2, <2>3 DEF KnownInv
<1>16. FreshInv'
  <2> SUFFICES ASSUME NEW a \in Clients, InPut(op'[a])
               PROVE  LET id == PutMeta(op'[a]).object_id
                      IN  /\ \A m \in MapsOf(timeline') : \A s \in MetasIn(m) : s.object_id # id
                          /\ \A d \in Clients \ {a} : \A s \in Held(op'[d]) : s.object_id # id
    BY DEF FreshInv
  <2>1. InPut(op[a]) /\ PutMeta(op'[a]) = PutMeta(op[a]) BY <1>5, <1>6, <1>7 DEF t
  <2> DEFINE id == PutMeta(op[a]).object_id
  <2>2. /\ \A m \in MapsOf(timeline) : \A s \in MetasIn(m) : s.object_id # id
        /\ \A d \in Clients \ {a} : \A s \in Held(op[d]) : s.object_id # id
    BY <2>1 DEF CoreInv, FreshInv
  <2> HIDE DEF id
  <2>3. \A s \in MetasIn(u) : s.object_id # id
    <3>1. CASE a = c
      <4>1. x.key.kind = "objchunk" BY <1>5, <1>7, <3>1
      <4> QED BY <1>8, <1>9, <2>2, <4>1
    <3>2. CASE a # c BY <1>7, <1>8, <1>9, <2>2, <3>2
    <3> QED BY <3>1, <3>2
  <2>4. ASSUME NEW d \in Clients \ {a}, NEW s \in Held(op'[d]) PROVE s.object_id # id
    <3>1. CASE d = c BY <1>5, <1>7, <2>2, <2>4, <3>1
    <3>2. CASE d # c BY <1>6, <2>2, <2>4, <3>2
    <3> QED BY <3>1, <3>2
  <2> QED BY <1>1, <2>1, <2>2, <2>3, <2>4 DEF id
<1>17. DoneInv'
  <2> SUFFICES ASSUME NEW a \in Clients, InPut(op'[a]) PROVE HasChunks(u, PutMeta(op'[a]), ChunksDone(op'[a]))
    BY DEF DoneInv, u
  <2>1. CASE a = c
    <3>1. /\ InPut(w) /\ x.key.kind = "objchunk" /\ PutMeta(w) = t /\ InPut(op[c])
          /\ ChunksDone(w) = ChunksDone(op[c]) + 1 /\ ChunksDone(op[c]) \in Nat
      BY <1>5, <1>7, <2>1
    <3> DEFINE n == ChunksDone(op[c])
    <3>2. HasChunks(Cur, t, n) BY <3>1 DEF CoreInv, DoneInv, t
    <3>3. t.object_id \in Seq(Int) BY <1>11, <3>1 DEF Meta
    <3>4. x.key = ChunkKey(t.object_id, n) /\ x.call = "put" /\ x.val = ChunkValue(t.etag, n)
      BY <1>7, <3>1 DEF PutCall
    <3>5. x.key \in DOMAIN u /\ u[x.key] = x.val BY <1>1, <3>4 DEF IsAfter
    <3>6. n \in Nat BY <3>1
    <3> HIDE DEF n
    <3>7. ASSUME NEW i \in 0..n
          PROVE  ChunkKey(t.object_id, i) \in DOMAIN u /\ u[ChunkKey(t.object_id, i)] = ChunkValue(t.etag, i)
      <4>1. CASE i = n BY <3>4, <3>5, <4>1
      <4>2. CASE i # n
        <5>1. i \in 0..(n - 1) /\ i \in Int /\ n \in Int BY <3>6, <4>2
        <5>2. ChunkKey(t.object_id, i) # x.key BY <3>3, <3>4, <4>2, <5>1, ChunkKeyInjective
        <5> QED BY <1>10, <3>2, <5>1, <5>2 DEF HasChunks
      <4> QED BY <4>1, <4>2
    <3>8. (n + 1) - 1 = n BY <3>6
    <3>9. HasChunks(u, t, n + 1) BY <3>7, <3>8 DEF HasChunks
    <3> QED BY <1>5, <2>1, <3>1, <3>9 DEF n
  <2>2. CASE a # c
    <3>1. /\ InPut(op[a]) /\ PutMeta(op'[a]) = PutMeta(op[a]) /\ ChunksDone(op'[a]) = ChunksDone(op[a])
      BY <1>6, <2>2
    <3>2. HasChunks(Cur, PutMeta(op[a]), ChunksDone(op[a])) BY <3>1 DEF CoreInv, DoneInv
    <3>3. op[a] \in OpState /\ ShapeOK(op[a]) BY DEF TypeInv, CoreInv, ShapeInv
    <3>4. PutMeta(op[a]) \in Held(op[a]) /\ PutMeta(op[a]) \in Meta BY <3>1, <3>3, HeldType DEF ShapeOK
    <3>5. ChunksDone(op[a]) \in Nat
      <4>1. IsRest(op[a].queue, PutMeta(op[a])) /\ op[a].queue \in Seq(KVCall) /\ Len(op[a].queue) >= 2
        BY <3>1, <3>3 DEF ShapeOK, QueueOK, InPut, OpState
      <4>2. Len(op[a].queue) \in Nat /\ PutMeta(op[a]).chunk_count \in Nat /\ Len(op[a].queue) - 2 <= PutMeta(op[a]).chunk_count
        BY <4>1, RestFacts DEF IsRest
      <4> QED BY <4>2 DEF ChunksDone
    <3>6. x.key.kind = "objchunk" => PutMeta(op[a]).object_id # t.object_id
      BY <1>7, <2>2, <3>4 DEF CoreInv, FreshInv, t
    <3> QED BY <1>12, <3>1, <3>2, <3>4, <3>5, <3>6
  <2> QED BY <2>1, <2>2
<1>18. Complete(u)
  <2> SUFFICES ASSUME NEW k \in DOMAIN u, k.kind = "objmeta", Live(u[k]) PROVE HasChunks(u, u[k], u[k].chunk_count)
    BY DEF Complete
  <2>1. CASE k \in DOMAIN Cur /\ u[k] = Cur[k] /\ k # x.key
    <3>1. HasChunks(Cur, Cur[k], Cur[k].chunk_count) BY <1>9, <2>1 DEF CoreInv, MapInv, Complete
    <3>2. Cur[k] \in Meta /\ Cur[k] \in MetasIn(Cur) BY <1>9, <2>1, MapFields DEF Fits, MetasIn
    <3>3. x.key.kind = "objchunk" => Cur[k].object_id # t.object_id
      BY <1>7, <1>9, <3>2 DEF CoreInv, FreshInv, t
    <3>4. Cur[k].chunk_count \in Nat BY <3>2 DEF Meta
    <3> QED BY <1>12, <2>1, <3>1, <3>2, <3>3, <3>4
  <2>2. CASE k = x.key /\ u[k] = x.val
    <3>1. InPut(op[c]) /\ u[k] = t /\ ChunksDone(op[c]) = t.chunk_count BY <1>7, <2>2 DEF Live
    <3>2. HasChunks(Cur, t, t.chunk_count) BY <3>1 DEF CoreInv, DoneInv, t
    <3>3. t \in Meta /\ t.chunk_count \in Nat BY <1>11, <3>1 DEF Meta
    <3>4. x.key.kind # "objchunk" BY <2>2
    <3> QED BY <1>12, <3>1, <3>2, <3>3, <3>4
  <2> QED BY <1>8, <2>1, <2>2
<1>19. MapInv' BY <1>1, <1>18 DEF CoreInv, MapInv
<1>20. MarkInv'
  <2> SUFFICES ASSUME NEW d \in Clients, op'[d].name = "gc", NEW k \in DOMAIN u, k.kind = "objmeta", Live(u[k])
               PROVE  u[k].object_id \in op'[d].reachable \/ (op'[d].pc = "mark" /\ k \in op'[d].todo)
    BY DEF MarkInv, MarkOK, u
  <2>1. d # c /\ op[d].name = "gc"
    <3>1. op[c].name # "gc" BY <1>1, <1>2 DEF ShapeOK, WhereOK
    <3> QED BY <1>4, <1>5, <1>6, <3>1
  <2>2. op'[d].reachable = op[d].reachable /\ op'[d].pc = op[d].pc /\ op'[d].todo = op[d].todo
    BY <1>5, <2>1 DEF Same
  <2>3. CASE k \in DOMAIN Cur /\ u[k] = Cur[k] BY <2>1, <2>2, <2>3 DEF CoreInv, MarkInv, MarkOK
  <2>4. CASE k = x.key /\ u[k] = x.val
    <3>1. op[c].name = "put" BY <1>7, <2>4 DEF Live, InPut
    <3> QED BY <2>1, <3>1 DEF CoreInv, ApartInv
  <2> QED BY <1>8, <2>3, <2>4
<1> QED BY <1>13, <1>14, <1>15, <1>16, <1>17, <1>19, <1>20 DEF CoreInv
\* GcSweep.
LEMMA SweepKeeps ==
    ASSUME TypeInv, CoreInv, NEW c \in Clients, NEW y, GcSweep(c, y) PROVE CoreInv'
<1> DEFINE o == DoneWith(op[c], y)
           u == Cur'
<1>1. /\ op[c].pc = "sweep" /\ y.kind = "objchunk" /\ UNCHANGED <<now, recent, count>> /\ Moves(c, o)
      /\ \/ IdOf(y) \in op[c].reachable /\ UNCHANGED timeline /\ Cur' = Cur
         \/ /\ IdOf(y) \notin op[c].reachable /\ IsErased(u, Cur, y)
            /\ MapsOf(timeline') = MapsOf(timeline) \cup {u}
  BY GcSweepMoves, Zenon
<1>2. op[c] \in OpState /\ ShapeOK(op[c]) BY DEF TypeInv, CoreInv, ShapeInv
<1>3. op[c].name = "gc" /\ op[c].queue = <<>> BY <1>1, <1>2 DEF ShapeOK, WhereOK, QueueOK
<1>4. o.name = "gc" /\ o.queue = <<>> /\ o.pc = "sweep" /\ o.reachable = op[c].reachable
  BY <1>1, <1>2, <1>3 DEF DoneWith, OpState
<1> HIDE DEF o
<1>5. ~InPut(o) /\ QueueOK(o) /\ Held(o) = {} BY <1>4, NoQueue
<1>6. WhereOK(o) BY <1>4 DEF WhereOK
<1>7. MarkOK(Cur, op[c]) /\ MarkOK(Cur, o) BY <1>1, <1>3, <1>4 DEF CoreInv, MarkInv, MarkOK
<1>8. \A d \in Clients : op[d].name # "put" BY <1>3 DEF CoreInv, ApartInv
<1>9. CASE UNCHANGED timeline /\ Cur' = Cur
  <2>1. Harmless(c, o) BY <1>1, <1>4, <1>5, <1>6, <1>7, <1>8, <1>9 DEF Harmless, ShapeOK
  <2> QED BY <2>1, HarmlessKeeps
<1>10. CASE /\ IdOf(y) \notin op[c].reachable /\ IsErased(u, Cur, y)
            /\ MapsOf(timeline') = MapsOf(timeline) \cup {u}
  <2>1. /\ DOMAIN u = DOMAIN Cur \ {y} /\ \A k \in DOMAIN u : u[k] = Cur[k]
        /\ \A k \in DOMAIN u : k.kind = "objmeta" => k \in DOMAIN Cur
    BY <1>10 DEF IsErased
  <2>2. MetasIn(u) \subseteq MetasIn(Cur) BY <2>1 DEF MetasIn
  <2>3. Cur \in MapsOf(timeline) /\ Cur \in KVMap BY CurIsOne DEF TypeInv, Cur
  <2>4. op'[c] = o /\ now' = now /\ \A d \in Clients \ {c} : Same(op[d], op'[d]) BY <1>1 DEF Moves
  <2> HIDE DEF u
  <2>5. \A d \in Clients \ {c} :
            /\ ShapeOK(op[d]) => ShapeOK(op'[d])
            /\ Held(op'[d]) = Held(op[d]) /\ op'[d].name = op[d].name
    BY <2>4, SameShape
  <2>6. ShapeInv' BY <1>5, <1>6, <2>4, <2>5 DEF CoreInv, ShapeInv, ShapeOK
  <2>7. \A d \in Clients : op'[d].name # "put" BY <1>4, <1>8, <2>4, <2>5
  <2>8. ApartInv' /\ FreshInv' /\ DoneInv' BY <2>7 DEF ApartInv, FreshInv, DoneInv, InPut
  <2>9. KnownInv'
    <3>1. \A m \in MapsOf(timeline') : \A s \in MetasIn(m) : Good(s, now')
      BY <1>10, <2>2, <2>3, <2>4 DEF CoreInv, KnownInv
    <3>2. \A d \in Clients : \A s \in Held(op'[d]) : Good(s, now')
      BY <1>5, <2>4, <2>5 DEF CoreInv, KnownInv
    <3> QED BY <3>1, <3>2 DEF KnownInv
  <2>10. Complete(u)
    <3> SUFFICES ASSUME NEW k \in DOMAIN u, k.kind = "objmeta", Live(u[k]) PROVE HasChunks(u, u[k], u[k].chunk_count)
      BY DEF Complete
    <3>1. k \in DOMAIN Cur /\ u[k] = Cur[k] BY <2>1
    <3>2. HasChunks(Cur, Cur[k], Cur[k].chunk_count) BY <2>3, <3>1 DEF CoreInv, MapInv, Complete
    <3>3. Cur[k].object_id \in op[c].reachable BY <1>1, <1>7, <3>1 DEF MarkOK
    <3>4. Cur[k] \in Meta BY <2>3, <3>1, MapFields DEF Fits
    <3>5. ASSUME NEW i \in 0..(Cur[k].chunk_count - 1) PROVE ChunkKey(Cur[k].object_id, i) # y
      <4>1. Cur[k].object_id \in Seq(Int) /\ i \in Int BY <3>4 DEF Meta
      <4>2. IdOf(ChunkKey(Cur[k].object_id, i)) = Cur[k].object_id BY <4>1, ChunkKeyInjective
      <4> QED BY <1>10, <3>3, <4>2
    <3>6. \A x \in DOMAIN Cur : x # y => x \in DOMAIN u /\ u[x] = Cur[x] BY <2>1
    <3> QED BY <3>1, <3>2, <3>5, <3>6, ChunksKept
  <2>11. MapInv' BY <1>10, <2>10 DEF CoreInv, MapInv
  <2>12. MarkInv'
    <3> SUFFICES ASSUME NEW d \in Clients, op'[d].name = "gc", NEW k \in DOMAIN u, k.kind = "objmeta", Live(u[k])
                 PROVE  u[k].object_id \in op'[d].reachable \/ (op'[d].pc = "mark" /\ k \in op'[d].todo)
      BY DEF MarkInv, MarkOK, u
    <3>1. k \in DOMAIN Cur /\ u[k] = Cur[k] BY <2>1
    <3>2. CASE d = c BY <1>7, <2>4, <3>1, <3>2 DEF MarkOK
    <3>3. CASE d # c
      <4>1. op[d].name = "gc" /\ op'[d].reachable = op[d].reachable /\ op'[d].pc = op[d].pc /\ op'[d].todo = op[d].todo
        BY <2>4, <3>3 DEF Same
      <4> QED BY <3>1, <4>1 DEF CoreInv, MarkInv, MarkOK
    <3> QED BY <3>2, <3>3
  <2> QED BY <2>6, <2>8, <2>9, <2>11, <2>12 DEF CoreInv
<1> QED BY <1>1, <1>9, <1>10

\* Crash and Recover: no operation is left, and no map is new.
LEMMA CrashKeeps == ASSUME TypeInv, CoreInv, Crash \/ Recover PROVE CoreInv'
<1>1. MapsOf(timeline') \subseteq MapsOf(timeline) /\ now' = now /\ \A c \in Clients : op'[c] = Idle
  <2>1. CASE Crash BY <2>1, CrashMoves
  <2>2. CASE Recover BY <2>2, RecoverMoves
  <2> QED BY <2>1, <2>2
<1>2. ShapeInv' /\ DoneInv' /\ FreshInv' BY <1>1, IdleShape DEF ShapeInv, DoneInv, FreshInv
<1>3. ApartInv' /\ MarkInv' BY <1>1, IdleType DEF ApartInv, MarkInv
<1>4. MapInv' BY <1>1 DEF CoreInv, MapInv
<1>5. KnownInv' BY <1>1, IdleShape DEF CoreInv, KnownInv
<1> QED BY <1>2, <1>3, <1>4, <1>5 DEF CoreInv

\* Every step keeps it.
LEMMA CoreInvNext ==
    ASSUME PutGcApart, ClockMoves, TypeInv, CoreInv, [Next]_vars PROVE CoreInv'
<1>1. CASE UNCHANGED vars
  BY <1>1 DEF vars, CoreInv, ShapeInv, ApartInv, KnownInv, FreshInv, DoneInv, MapInv, MarkInv, Cur
<1>2. ASSUME NEW c \in Clients, \E o : Harmless(c, o) PROVE CoreInv'
  BY <1>2, HarmlessKeeps
<1>3. ShapeInv BY DEF CoreInv
<1>4. ASSUME NEW c \in Clients, NEW b \in Buckets, CreateBucket(c, b) PROVE CoreInv'
  BY <1>2, <1>4, CreateHarmless
<1>5. ASSUME NEW c \in Clients, NEW req \in Requests, PutObject(c, req) PROVE CoreInv'
  BY <1>5, PutKeeps
<1>6. ASSUME NEW c \in Clients, NEW b \in Buckets, NEW k \in Keys, DeleteObject(c, b, k) PROVE CoreInv'
  BY <1>2, <1>6, DeleteHarmless
<1>7. ASSUME NEW c \in Clients, NEW b \in Buckets, NEW k \in Keys, GetObject(c, b, k) PROVE CoreInv'
  BY <1>2, <1>7, GetHarmless
<1>8. ASSUME NEW c \in Clients, NEW b \in Buckets, NEW pre \in ListPrefixes, ListObjects(c, b, pre) PROVE CoreInv'
  BY <1>2, <1>3, <1>8, ListHarmless
<1>9. ASSUME NEW c \in Clients, GarbageCollectChunks(c) PROVE CoreInv'
  BY <1>2, <1>3, <1>9, CollectHarmless
<1>10. ASSUME NEW c \in Clients, Write(c) PROVE CoreInv'
  BY <1>10, WriteKeeps
<1>11. ASSUME NEW c \in Clients, FlushFails(c) \/ GetReturn(c) \/ ListReturn(c) \/ Acknowledge(c) \/ GcReturn(c)
       PROVE  CoreInv'
  BY <1>2, <1>11, ReturnHarmless
<1>12. ASSUME NEW c \in Clients, GetChunk(c) PROVE CoreInv'
  BY <1>2, <1>3, <1>12, GetChunkHarmless
<1>13. ASSUME NEW c \in Clients, NEW k \in op[c].todo, ListEntry(c, k) PROVE CoreInv'
  BY <1>2, <1>3, <1>13, ListHarmless
<1>14. ASSUME NEW c \in Clients, NEW k \in op[c].todo, GcMark(c, k) PROVE CoreInv'
  BY <1>2, <1>14, MarkHarmless
<1>15. ASSUME NEW c \in Clients, NEW k \in op[c].todo, GcSweep(c, k) PROVE CoreInv'
  BY <1>15, SweepKeeps
<1>16. ASSUME NEW c \in Clients, GcScan(c) PROVE CoreInv'
  BY <1>2, <1>16, MarkHarmless
<1>17. CASE Crash \/ Recover BY <1>17, CrashKeeps
<1> QED BY <1>1, <1>4, <1>5, <1>6, <1>7, <1>8, <1>9, <1>10, <1>11, <1>12, <1>13, <1>14, <1>15, <1>16, <1>17
        DEF Next

\* It holds at the start.
LEMMA CoreInvInit == Init => CoreInv
<1> SUFFICES ASSUME Init PROVE CoreInv
  OBVIOUS
<1>1. \A c \in Clients : op[c] = Idle BY DEF Init
<1>2. \A m \in MapsOf(timeline) : DOMAIN m = {} BY DEF Init, MapsOf, KV!EmptyMap
<1>3. ShapeInv /\ DoneInv /\ FreshInv BY <1>1, IdleShape DEF ShapeInv, DoneInv, FreshInv
<1>4. ApartInv /\ MarkInv BY <1>1, IdleType DEF ApartInv, MarkInv
<1>5. MapInv BY <1>2 DEF MapInv, Complete
<1>6. KnownInv
  <2>1. \A m \in MapsOf(timeline) : MetasIn(m) = {} BY <1>2 DEF MetasIn
  <2> QED BY <1>1, <2>1, IdleShape DEF KnownInv
<1> QED BY <1>3, <1>4, <1>5, <1>6 DEF CoreInv

-----------------------------------------------------------------------------
(* Bytes and chunks.                                                        *)

\* Division with a remainder.
LEMMA Division ==
    ASSUME NEW p \in Nat, NEW cs \in Nat \ {0}
    PROVE  \E n \in Nat, r \in 0..(cs - 1) : p \div cs = n /\ p % cs = r /\ p = cs * n + r
<1>1. p \div cs \in Nat OBVIOUS
<1>2. p % cs \in 0..(cs - 1) OBVIOUS
<1>3. p = cs * (p \div cs) + (p % cs) OBVIOUS
<1> QED BY <1>1, <1>2, <1>3

\* A larger factor gives a larger product.
LEMMA Products ==
    ASSUME NEW cs \in Nat \ {0}, NEW d \in Nat, NEW n \in Nat, n >= d PROVE cs * n >= cs * d
<1>1. PICK x \in Nat : n = d + x BY SMTT(30) DEF Nat
<1>2. cs * (d + x) = cs * d + cs * x /\ cs * x \in Nat /\ cs * d \in Nat OBVIOUS
<1> QED BY <1>1, <1>2

\* Byte p of data is byte p % chunk_size_bytes_ of its chunk p \div
\* chunk_size_bytes_, and there is such a chunk.
InItsChunk(data, p) ==
    /\ p \div chunk_size_bytes_ \in 0..(ChunkCount(Len(data)) - 1)
    /\ (p % chunk_size_bytes_) + 1 \in DOMAIN ChunkValue(data, p \div chunk_size_bytes_)
    /\ ChunkValue(data, p \div chunk_size_bytes_)[(p % chunk_size_bytes_) + 1] = data[p + 1]

\* PutObject cuts the data so that every byte is in some chunk.
LEMMA ByteInChunk ==
    ASSUME NEW data \in Seq(Nat), NEW p \in 0..(Len(data) - 1) PROVE InItsChunk(data, p)
<1>1. PICK cs \in Nat \ {0} : cs = chunk_size_bytes_ BY ChunkSizeType
<1>2. PICK s \in Nat : s = Len(data) BY LenProperties
<1>3. p \in Nat /\ p < s BY <1>2
<1>4. PICK n \in Nat, r \in 0..(cs - 1) : p \div cs = n /\ p % cs = r /\ p = cs * n + r
  BY <1>1, <1>3, Division
<1>5. PICK cn \in Nat : cn = cs * n BY <1>1, <1>4
<1>6. p = cn + r BY <1>4, <1>5
<1>7. n \in 0..(ChunkCount(s) - 1)
  <2>1. s + cs - 1 \in Nat BY <1>1, <1>2
  <2>2. PICK a \in Nat : a = s + cs - 1 BY <2>1
  <2>3. PICK d \in Nat, e \in 0..(cs - 1) : a \div cs = d /\ a % cs = e /\ a = cs * d + e
    BY <1>1, <2>2, Division
  <2>4. PICK cd \in Nat : cd = cs * d BY <1>1, <2>3
  <2>5. a = cd + e BY <2>3, <2>4
  <2>6. n >= d => cn >= cd BY <1>1, <1>4, <1>5, <2>3, <2>4, Products
  <2>7. n < d BY <1>1, <1>2, <1>3, <1>4, <1>6, <2>2, <2>3, <2>5, <2>6
  <2>8. ChunkCount(s) = d BY <1>1, <2>2, <2>3 DEF ChunkCount
  <2>9. n \in 0..(d - 1) BY <1>4, <2>3, <2>7
  <2> QED BY <2>8, <2>9
<1>8. PICK end \in Nat : end = IF cn + cs < s THEN cn + cs ELSE s
  <2>1. (IF cn + cs < s THEN cn + cs ELSE s) \in Nat OBVIOUS
  <2> QED BY <2>1
<1>9. ChunkValue(data, n) = SubSeq(data, cn + 1, end)
  <2>1. n * cs = cn BY <1>1, <1>4, <1>5
  <2> QED BY <1>1, <1>2, <1>8, <2>1 DEF ChunkValue
<1>10. end <= s /\ cn + r + 1 <= end /\ cn < s BY <1>1, <1>2, <1>3, <1>4, <1>5, <1>6, <1>8
<1> DEFINE v == SubSeq(data, cn + 1, end)
<1>11. r + 1 \in DOMAIN v /\ v[r + 1] = data[p + 1]
  <2>1. cn + 1 \in 1..(Len(data) + 1) /\ end \in ((cn + 1) - 1)..Len(data) BY <1>2, <1>4, <1>5, <1>8, <1>10
  <2>2. /\ Len(v) = IF cn + 1 <= end THEN end - (cn + 1) + 1 ELSE 0
        /\ v \in Seq(Nat)
    BY <2>1, <1>5, <1>8
  <2>3. \A j \in 1..(end - (cn + 1) + 1) : v[j] = data[(cn + 1) + j - 1]
    BY <2>1, <1>5, <1>8
  <2> HIDE DEF v
  <2>4. PICK l \in Nat : l = Len(v) BY <2>2, LenProperties
  <2>5. l = end - (cn + 1) + 1 BY <1>4, <1>5, <1>8, <1>10, <2>2, <2>4
  <2>6. r + 1 \in 1..l BY <1>1, <1>4, <1>5, <1>8, <1>10, <2>4, <2>5
  <2>7. r + 1 \in DOMAIN v BY <2>2, <2>4, <2>6, LenProperties
  <2>8. (cn + 1) + (r + 1) - 1 = p + 1 BY <1>1, <1>3, <1>4, <1>5, <1>6
  <2>9. v[r + 1] = data[(cn + 1) + (r + 1) - 1] BY <2>3, <2>5, <2>6
  <2> QED BY <2>7, <2>8, <2>9
<1> HIDE DEF v
<1>12. p \div chunk_size_bytes_ = n /\ p % chunk_size_bytes_ = r BY <1>1, <1>4
<1> QED BY <1>2, <1>7, <1>9, <1>11, <1>12 DEF InItsChunk, v

\* Live metadata of the right sizes, with all its chunks, is whole.
LEMMA ChunksMakeWhole ==
    ASSUME NEW m, NEW t \in Meta, SizesOK(t), HasChunks(m, t, t.chunk_count) PROVE Whole(m, t)
<1>1. t.etag \in Seq(Nat) /\ t.size_bytes = Len(t.etag) /\ t.chunk_count = ChunkCount(Len(t.etag))
  BY DEF Meta, SizesOK
<1>2. \A n \in 0..(t.chunk_count - 1) :
          ChunkKey(t.object_id, n) \in DOMAIN m /\ m[ChunkKey(t.object_id, n)] = ChunkValue(t.etag, n)
  BY DEF HasChunks
<1>3. ASSUME NEW p \in 0..(t.size_bytes - 1)
      PROVE  LET k == ChunkKey(t.object_id, p \div chunk_size_bytes_)
             IN  /\ k \in DOMAIN m
                 /\ (p % chunk_size_bytes_) + 1 \in DOMAIN m[k]
                 /\ m[k][(p % chunk_size_bytes_) + 1] = t.etag[p + 1]
  <2>1. p \in 0..(Len(t.etag) - 1) BY <1>1
  <2>2. InItsChunk(t.etag, p) BY <1>1, <2>1, ByteInChunk
  <2> DEFINE n == p \div chunk_size_bytes_
             q == (p % chunk_size_bytes_) + 1
  <2>3. n \in 0..(t.chunk_count - 1) /\ q \in DOMAIN ChunkValue(t.etag, n) /\ ChunkValue(t.etag, n)[q] = t.etag[p + 1]
    BY <1>1, <2>2 DEF InItsChunk
  <2> HIDE DEF n, q
  <2>4. ChunkKey(t.object_id, n) \in DOMAIN m /\ m[ChunkKey(t.object_id, n)] = ChunkValue(t.etag, n)
    BY <1>2, <2>3
  <2>5. q \in DOMAIN m[ChunkKey(t.object_id, n)] /\ m[ChunkKey(t.object_id, n)][q] = t.etag[p + 1]
    BY <2>3, <2>4
  <2> QED BY <2>4, <2>5 DEF n, q
<1> QED BY <1>1, <1>2, <1>3 DEF Whole

\* The commit point holds (PutObject writes the metadata last, and the chunks
\* that metadata refers to are not swept): when callers keep puts and
\* collections apart and the clock moves between two puts, committed metadata
\* has all its bytes in every map a crash can leave.  Without the first a
\* collection may sweep the chunks of a put that has yet to commit; without
\* the second two versions of an object share an id, and chunks.
THEOREM CommittedIsWhole == ASSUME PutGcApart, ClockMoves PROVE Spec => []Intact
<1>1. Init => TypeInv /\ CoreInv BY TypeInvInit, CoreInvInit
<1>2. TypeInv /\ CoreInv /\ [Next]_vars => (TypeInv /\ CoreInv)' BY TypeInvNext, CoreInvNext
<1>3. TypeInv /\ CoreInv => Intact
  <2> SUFFICES ASSUME TypeInv, CoreInv, NEW i \in DOMAIN timeline, NEW k \in DOMAIN timeline[i],
                      k.kind = "objmeta", Deserialize(timeline[i][k]).state = "Committed"
               PROVE  Whole(timeline[i], Deserialize(timeline[i][k]))
    BY DEF Intact
  <2> DEFINE m == timeline[i]
             t == m[k]
  <2>1. m \in MapsOf(timeline) BY DEF MapsOf
  <2>2. m \in KVMap BY <2>1, CurIsOne DEF TypeInv
  <2> HIDE DEF m
  <2>3. t \in Meta /\ t \in MetasIn(m) BY <2>2, MapFields DEF m, Fits, MetasIn
  <2>4. Len(t.content_type) = 1
    <3>1. NoMeta.state = "Pending" BY DEF NoMeta
    <3> QED BY <3>1 DEF Deserialize, m
  <2>5. Deserialize(t) = t /\ Live(t) BY <2>4 DEF Deserialize, Live, m
  <2>6. HasChunks(m, t, t.chunk_count) BY <2>1, <2>5 DEF CoreInv, MapInv, Complete, m
  <2>7. SizesOK(t) BY <2>1, <2>3 DEF CoreInv, KnownInv, Good
  <2> HIDE DEF t
  <2>8. Whole(m, t) BY <2>3, <2>6, <2>7, ChunksMakeWhole
  <2> QED BY <2>5, <2>8 DEF m, t
<1> QED BY <1>1, <1>2, <1>3, PTL DEF Spec
-----------------------------------------------------------------------------
(* What a collection reclaims.  The clock plays no part.                    *)

\* Nothing in map m refers to what operation o found to be garbage, o has not
\* marked it, and once o sweeps it is gone or still to be looked at.
GarbageOK(m, o) ==
    \A g \in o.garbage :
        /\ g.kind = "objchunk" /\ IdOf(g) \notin o.reachable
        /\ \A k \in DOMAIN m : k.kind = "objmeta" /\ Live(m[k]) => m[k].object_id # IdOf(g)
        /\ o.pc = "sweep" /\ g \in DOMAIN m => g \in o.todo

GarbageInv == \A c \in Clients : op[c].name = "gc" => GarbageOK(Cur, op[c])

GcInv == ShapeInv /\ ApartInv /\ GarbageInv

\* Map u has no live metadata and no chunk that m has not.
NothingNew(m, u) ==
    \A k \in DOMAIN u :
        /\ k.kind = "objchunk" => k \in DOMAIN m
        /\ k.kind = "objmeta" /\ Live(u[k]) => k \in DOMAIN m /\ u[k] = m[k]

\* When operation o returns, its garbage is gone.
Reclaimed(o, p) == o.name = "gc" /\ p.pc = "idle" => o.garbage \cap DOMAIN Cur = {}

\* Client c goes on with locals o, and disturbs no collection.
GcStep(c, o) ==
    /\ Moves(c, o) /\ ShapeOK(o) /\ Reclaimed(op[c], o)
    /\ o.name = "put" => \A d \in Clients \ {c} : op[d].name # "gc"
    /\ o.name = "gc" => GarbageOK(Cur', o) /\ \A d \in Clients \ {c} : op[d].name # "put"
    /\ NothingNew(Cur, Cur') \/ \A d \in Clients \ {c} : op[d].name # "gc"

GcKept == GcInv' /\ \A c \in Clients : Reclaimed(op[c], op'[c])

\* What is garbage stays garbage.
LEMMA GarbageKept ==
    ASSUME NEW m, NEW u, NEW o, GarbageOK(m, o), NothingNew(m, u) PROVE GarbageOK(u, o)
  BY DEF GarbageOK, NothingNew

\* Such a step keeps the invariant.
LEMMA GcStepKeeps ==
    ASSUME TypeInv, GcInv, NEW c \in Clients, NEW o, GcStep(c, o) PROVE GcKept
<1>1. op'[c] = o /\ \A d \in Clients \ {c} : Same(op[d], op'[d]) BY DEF GcStep, Moves
<1>2. \A d \in Clients \ {c} :
          /\ ShapeOK(op[d]) => ShapeOK(op'[d])
          /\ op'[d].name = op[d].name /\ op'[d].pc = op[d].pc
          /\ \A m : GarbageOK(m, op[d]) => GarbageOK(m, op'[d])
  <2> SUFFICES ASSUME NEW d \in Clients \ {c}
               PROVE  /\ ShapeOK(op[d]) => ShapeOK(op'[d])
                      /\ op'[d].name = op[d].name /\ op'[d].pc = op[d].pc
                      /\ \A m : GarbageOK(m, op[d]) => GarbageOK(m, op'[d])
    OBVIOUS
  <2>1. Same(op[d], op'[d]) BY <1>1
  <2>2. ShapeOK(op[d]) => ShapeOK(op'[d]) BY <2>1, SameShape
  <2>3. /\ op'[d].name = op[d].name /\ op'[d].pc = op[d].pc /\ op'[d].todo = op[d].todo
        /\ op'[d].garbage = op[d].garbage /\ op'[d].reachable = op[d].reachable
    BY <2>1 DEF Same
  <2>4. \A m : GarbageOK(m, op[d]) => GarbageOK(m, op'[d]) BY <2>3 DEF GarbageOK
  <2> QED BY <2>2, <2>3, <2>4
<1>3. ShapeInv' BY <1>1, <1>2 DEF GcInv, ShapeInv, GcStep
<1>4. ApartInv'
  <2> SUFFICES ASSUME NEW a \in Clients, NEW d \in Clients, op'[a].name = "put", op'[d].name = "gc" PROVE FALSE
    BY DEF ApartInv
  <2>1. CASE a = c /\ d # c BY <1>1, <1>2, <2>1 DEF GcStep
  <2>2. CASE a # c /\ d = c BY <1>1, <1>2, <2>2 DEF GcStep
  <2>3. CASE a # c /\ d # c BY <1>2, <2>3 DEF GcInv, ApartInv
  <2> QED BY <2>1, <2>2, <2>3
<1>5. GarbageInv'
  <2> SUFFICES ASSUME NEW d \in Clients, op'[d].name = "gc" PROVE GarbageOK(Cur', op'[d])
    BY DEF GarbageInv
  <2>1. CASE d = c BY <1>1, <2>1 DEF GcStep
  <2>2. CASE d # c
    <3>1. op[d].name = "gc" /\ GarbageOK(Cur, op[d]) BY <1>2, <2>2 DEF GcInv, GarbageInv
    <3>2. NothingNew(Cur, Cur') BY <2>2, <3>1 DEF GcStep
    <3>3. GarbageOK(Cur', op[d]) BY <3>1, <3>2, GarbageKept
    <3> QED BY <1>2, <2>2, <3>3
  <2> QED BY <2>1, <2>2
<1>6. ASSUME NEW d \in Clients PROVE Reclaimed(op[d], op'[d])
  <2>1. CASE d = c BY <1>1, <2>1 DEF GcStep
  <2>2. CASE d # c
    <3>1. WhereOK(op[d]) BY DEF GcInv, ShapeInv, ShapeOK
    <3> QED BY <1>2, <2>2, <3>1 DEF WhereOK, Reclaimed
  <2> QED BY <2>1, <2>2
<1> QED BY <1>3, <1>4, <1>5, <1>6 DEF GcInv, GcKept

\* Operations other than collections, but for Write and PutObject.
LEMMA NotCollecting ==
    ASSUME TypeInv, GcInv, NEW c \in Clients,
           \/ \E b \in Buckets : CreateBucket(c, b)
           \/ \E b \in Buckets, k \in Keys : DeleteObject(c, b, k) \/ GetObject(c, b, k)
           \/ \E b \in Buckets, pre \in ListPrefixes : ListObjects(c, b, pre)
           \/ GetChunk(c) \/ (\E k \in op[c].todo : ListEntry(c, k))
           \/ FlushFails(c) \/ GetReturn(c) \/ ListReturn(c) \/ Acknowledge(c)
    PROVE  op[c].name # "gc" /\ op'[c].name # "gc"
<1>1. op \in [Clients -> OpState] /\ op[c] \in OpState /\ WhereOK(op[c])
  BY DEF TypeInv, GcInv, ShapeInv, ShapeOK
<1>2. \A o : Quiet(c, o) => op'[c] = o BY DEF Quiet, Moves
<1>4. ASSUME NEW b \in Buckets, CreateBucket(c, b) PROVE op[c].name # "gc" /\ op'[c].name # "gc"
  <2>1. op[c].pc = "idle" BY <1>4, CalledType DEF CreateBucket
  <2>2. PICK q : Moves(c, Begun("create", <<>>, <<>>, q)) BY <1>4, CreateBucketMoves
  <2>3. op'[c].name = "create" BY <2>2, IdleType DEF Moves, Begun, OpState
  <2> QED BY <1>1, <2>1, <2>3 DEF WhereOK
<1>5. ASSUME NEW b \in Buckets, NEW k \in Keys, DeleteObject(c, b, k) PROVE op[c].name # "gc" /\ op'[c].name # "gc"
  <2>1. op[c].pc = "idle" BY <1>5, CalledType DEF DeleteObject
  <2>2. PICK q : Moves(c, Begun("delete", b, k, q)) BY <1>5, DeleteObjectMoves
  <2>3. op'[c].name = "delete" BY <2>2, IdleType DEF Moves, Begun, OpState
  <2> QED BY <1>1, <2>1, <2>3 DEF WhereOK
<1>6. ASSUME NEW b \in Buckets, NEW k \in Keys, GetObject(c, b, k) PROVE op[c].name # "gc" /\ op'[c].name # "gc"
  <2>1. PICK t : op[c].pc = "idle" /\ Quiet(c, Reading(b, k, t)) BY <1>6, GetObjectMoves
  <2>2. op'[c].name = "get" BY <1>2, <2>1, IdleType DEF Reading, OpState
  <2> QED BY <1>1, <2>1, <2>2 DEF WhereOK
<1>7. ASSUME NEW b \in Buckets, NEW pre \in ListPrefixes, ListObjects(c, b, pre)
      PROVE  op[c].name # "gc" /\ op'[c].name # "gc"
  <2>1. PICK o : o.name = "list" /\ op[c].pc = "idle" /\ Quiet(c, o) BY <1>7, ListObjectsMoves
  <2> QED BY <1>1, <1>2, <2>1 DEF WhereOK
<1>8. ASSUME GetChunk(c) PROVE op[c].name # "gc" /\ op'[c].name # "gc"
  <2> DEFINE y == NextChunk(op[c])
             v == op[c].i + 1
             w == op[c].data \o Cur[y]
             a == [op[c] EXCEPT !.i = v, !.data = w]
             e == [Idle EXCEPT !.error = TRUE]
             u == IF y \in DOMAIN Cur THEN a ELSE e
  <2>1. op[c].pc = "get" /\ Quiet(c, u) BY <1>8, GetChunkMoves
  <2> HIDE DEF v, w, y
  <2>2. a.name = op[c].name /\ e.name = "" BY <1>1, IdleType DEF OpState
  <2> HIDE DEF a, e
  <2>3. op'[c] = a \/ op'[c] = e BY <1>2, <2>1
  <2> QED BY <1>1, <2>1, <2>2, <2>3 DEF WhereOK
<1>9. ASSUME NEW k \in op[c].todo, ListEntry(c, k) PROVE op[c].name # "gc" /\ op'[c].name # "gc"
  <2>1. PICK o : o.name = op[c].name /\ op[c].pc = "list" /\ Quiet(c, o) BY <1>9, ListEntryMoves
  <2> QED BY <1>1, <1>2, <2>1 DEF WhereOK
<1>10. ASSUME FlushFails(c) \/ GetReturn(c) \/ ListReturn(c) PROVE op[c].name # "gc" /\ op'[c].name # "gc"
  <2>1. Quiet(c, Idle) /\ op[c].pc \in {"flush", "get", "list"} BY <1>10, ReturnMoves
  <2> QED BY <1>1, <1>2, <2>1, IdleType DEF WhereOK
<1>11. ASSUME Acknowledge(c) PROVE op[c].name # "gc" /\ op'[c].name # "gc"
  <2>1. op[c].pc = "flush" /\ Moves(c, Idle) BY <1>11, AcknowledgeMoves, Zenon
  <2> QED BY <1>1, <2>1, IdleType DEF WhereOK, Moves
<1> QED BY <1>4, <1>5, <1>6, <1>7, <1>8, <1>9, <1>10, <1>11

\* They are harmless, and so disturb no collection.
LEMMA HarmlessGc ==
    ASSUME NEW c \in Clients, NEW o, Harmless(c, o), op[c].name # "gc", op'[c].name # "gc"
    PROVE  GcStep(c, o)
<1>1. Moves(c, o) /\ ShapeOK(o) /\ Cur' = Cur /\ o.name # "put" BY DEF Harmless
<1>2. o.name # "gc" BY <1>1 DEF Moves
<1>3. NothingNew(Cur, Cur') BY <1>1 DEF NothingNew
<1> QED BY <1>1, <1>2, <1>3 DEF GcStep, Reclaimed
\* PutObject: no collection is under way.
LEMMA PutGc ==
    ASSUME PutGcApart, TypeInv, GcInv, NEW c \in Clients, NEW req \in Requests, PutObject(c, req)
    PROVE  \E o : GcStep(c, o)
<1> DEFINE t == NewMeta(req, now')
           q == PutCalls(t.object_id, t)
           o == Begun("put", req.bucket, req.key, q)
<1>1. now' \in Int /\ t \in Meta /\ IsPutQueue(q, t) /\ Moves(c, o) BY PutObjectMoves
<1>2. t.state = "Committed" BY <1>1, NewMetaGood
<1>3. req.bucket \in Seq(Nat) /\ req.key \in Seq(Nat) BY ObjectStoreAssumption DEF PutObjectRequest
<1> HIDE DEF t, q
<1>4. ShapeOK(o) /\ o.name = "put" BY <1>1, <1>2, <1>3, PutBegun
<1> HIDE DEF o
<1>5. \A d \in Clients : op[d].name # "gc" BY CalledApart DEF GcInv, PutObject
<1> QED BY <1>1, <1>4, <1>5 DEF GcStep, Reclaimed

\* Write: puts alone write chunks and live metadata.
LEMMA WriteGc ==
    ASSUME TypeInv, GcInv, NEW c \in Clients, Write(c) PROVE \E o : GcStep(c, o)
<1> DEFINE x == Head(op[c].queue)
           w == Written(op[c])
           u == Cur'
<1>1. op[c].pc = "write" /\ x \in KVCall /\ Moves(c, w) /\ IsAfter(u, Cur, x) BY WriteMoves, Zenon
<1>2. op[c] \in OpState /\ OpOK(Cur, op[c]) /\ ShapeOK(op[c]) BY DEF TypeInv, GcInv, ShapeInv
<1>3. ShapeOK(w) /\ HeadOK(op[c]) BY <1>1, <1>2, WrittenShape
<1>4. w.name \in {op[c].name, ""} BY <1>2, IdleType DEF Written, OpState
<1>5. op[c].name # "gc" BY <1>1, <1>2 DEF ShapeOK, WhereOK
<1>6. \A k \in DOMAIN u : k.kind = "objmeta" =>
          \/ k \in DOMAIN Cur /\ u[k] = Cur[k] /\ k # x.key
          \/ k = x.key /\ u[k] = x.val
  BY <1>1, MetasAfter
<1>7. /\ x.key.kind = "objmeta" => x.val.state = "Deleted" \/ InPut(op[c])
      /\ x.key.kind = "objchunk" => InPut(op[c])
  BY <1>3 DEF HeadOK
<1>8. \A k \in DOMAIN u : k # x.key => k \in DOMAIN Cur BY <1>1 DEF IsAfter
<1> HIDE DEF x, w, u
<1>9. op[c].name = "put" => \A d \in Clients : op[d].name # "gc" BY DEF GcInv, ApartInv
<1>10. op[c].name # "put" => NothingNew(Cur, u)
  <2> SUFFICES ASSUME op[c].name # "put" PROVE NothingNew(Cur, u)
    OBVIOUS
  <2>1. ~InPut(op[c]) BY DEF InPut
  <2> QED BY <1>6, <1>7, <1>8, <2>1 DEF NothingNew, Live
<1>11. NothingNew(Cur, Cur') \/ \A d \in Clients \ {c} : op[d].name # "gc" BY <1>9, <1>10 DEF u
<1> QED BY <1>1, <1>3, <1>4, <1>5, <1>9, <1>11 DEF GcStep, Reclaimed

\* GarbageCollectChunks: nothing reachable is garbage.
LEMMA CollectGc ==
    ASSUME PutGcApart, TypeInv, GcInv, NEW c \in Clients, GarbageCollectChunks(c)
    PROVE  \E o : GcStep(c, o)
<1> DEFINE K == {k \in DOMAIN Cur : k.kind = "objmeta"}
           G == {k \in DOMAIN Cur : k.kind = "objchunk" /\ IdOf(k) \notin ReachableIn(Cur)}
           o == Marking(K, G)
<1>1. op[c].pc = "idle" /\ Quiet(c, o) BY CollectMoves
<1>2. \A g \in G : g.kind = "objchunk" /\ IdOf(g) \notin ReachableIn(Cur) OBVIOUS
<1>3. ASSUME NEW k \in DOMAIN Cur, k.kind = "objmeta", Live(Cur[k]) PROVE Cur[k].object_id \in ReachableIn(Cur)
  <2>1. Cur \in KVMap BY CurIsOne DEF TypeInv, Cur
  <2>2. Cur[k] \in Meta BY <1>3, <2>1, MapFields DEF Fits
  <2>3. Deserialize(Cur[k]) = Cur[k] /\ KeepsChunks(Deserialize(Cur[k])) BY <1>3, <2>2, LiveKept
  <2>4. Readable(Cur[k]) /\ Deserialize(Cur[k]).state = "Committed" BY <2>3 DEF KeepsChunks, Readable
  <2> QED BY <1>3, <2>3, <2>4 DEF ReachableIn
<1> HIDE DEF K, G
<1>4. o.pc = "mark" /\ o.name = "gc" /\ o.garbage = G /\ o.reachable = {} /\ o.queue = Idle.queue
  BY IdleType DEF Marking, OpState
<1> HIDE DEF o
<1>5. ShapeOK(o)
  <2>1. WhereOK(o) /\ o.queue = <<>> BY <1>4, IdleShape DEF WhereOK
  <2> QED BY <2>1, NoQueue DEF ShapeOK
<1>6. Moves(c, o) /\ Cur' = Cur BY <1>1 DEF Quiet, Cur
<1>7. GarbageOK(Cur, o) BY <1>2, <1>3, <1>4 DEF GarbageOK
<1>8. \A d \in Clients \ {c} : op[d].name # "put" BY CalledApart DEF GcInv, GarbageCollectChunks
<1>9. NothingNew(Cur, Cur') BY <1>6 DEF NothingNew
<1> QED BY <1>4, <1>5, <1>6, <1>7, <1>8, <1>9 DEF GcStep, Reclaimed

\* The steps of a collection: it marks no garbage, scans all of it, sweeps
\* what it looks at, and returns when it has looked at everything.
LEMMA CollectingGc ==
    ASSUME TypeInv, GcInv, NEW c \in Clients,
           \/ \E k \in op[c].todo : GcMark(c, k) \/ GcSweep(c, k)
           \/ GcScan(c) \/ GcReturn(c)
    PROVE  \E o : GcStep(c, o)
<1>1. op[c] \in OpState /\ ShapeOK(op[c]) BY DEF TypeInv, GcInv, ShapeInv
<1>2. ASSUME op[c].pc \in {"mark", "sweep"}
      PROVE  /\ op[c].name = "gc" /\ op[c].queue = <<>> /\ GarbageOK(Cur, op[c])
             /\ \A d \in Clients : op[d].name # "put"
  <2>1. op[c].name = "gc" /\ op[c].queue = <<>> BY <1>1, <1>2 DEF ShapeOK, WhereOK, QueueOK
  <2> QED BY <2>1 DEF GcInv, GarbageInv, ApartInv
<1>3. ASSUME NEW o, o.name = "gc", o.queue = <<>>, o.pc \in {"mark", "sweep"} PROVE ShapeOK(o)
  <2>1. WhereOK(o) BY <1>3 DEF WhereOK
  <2> QED BY <1>3, <2>1, NoQueue DEF ShapeOK
<1>4. ASSUME NEW k \in op[c].todo, GcMark(c, k) PROVE \E o : GcStep(c, o)
  <2> DEFINE t == Cur[k]
             o == Marked(op[c], k, t)
             I == {m.object_id : m \in {x \in {Deserialize(t)} : KeepsChunks(x)}}
  <2>1. op[c].pc = "mark" /\ k \in DOMAIN Cur /\ k.kind = "objmeta" /\ t \in Meta /\ Quiet(c, o) BY <1>4, GcMarkMoves
  <2>2. \A id \in I : Live(t) /\ id = t.object_id
    <3>1. KeepsChunks(Deserialize(t)) => Live(t) /\ Deserialize(t) = t
      BY DEF KeepsChunks, Deserialize, Live
    <3> QED BY <3>1
  <2>3. o = [op[c] EXCEPT !.todo = @ \ {k}, !.reachable = @ \cup I] BY DEF Marked
  <2> HIDE DEF I, o
  <2>4. /\ o.pc = "mark" /\ o.name = "gc" /\ o.queue = <<>> /\ o.garbage = op[c].garbage
        /\ o.reachable = op[c].reachable \cup I
    BY <1>1, <1>2, <2>1, <2>3 DEF OpState
  <2>5. GarbageOK(Cur, o) BY <1>2, <2>1, <2>2, <2>4 DEF GarbageOK
  <2>6. Moves(c, o) /\ Cur' = Cur BY <2>1 DEF Quiet, Cur
  <2>7. NothingNew(Cur, Cur') /\ ShapeOK(o) BY <1>3, <2>4, <2>6 DEF NothingNew
  <2> QED BY <1>2, <2>1, <2>4, <2>5, <2>6, <2>7 DEF GcStep, Reclaimed
<1>5. ASSUME GcScan(c) PROVE \E o : GcStep(c, o)
  <2> DEFINE K == {k \in DOMAIN Cur : k.kind = "objchunk"}
             o == Sweeping(op[c], K)
  <2>1. op[c].pc = "mark" /\ Quiet(c, o) BY <1>5, GcScanMoves
  <2>2. \A k \in DOMAIN Cur : k.kind = "objchunk" => k \in K OBVIOUS
  <2> HIDE DEF K
  <2>3. /\ o.pc = "sweep" /\ o.name = "gc" /\ o.queue = <<>> /\ o.garbage = op[c].garbage
        /\ o.reachable = op[c].reachable /\ o.todo = K
    BY <1>1, <1>2, <2>1 DEF Sweeping, OpState
  <2> HIDE DEF o
  <2>4. GarbageOK(Cur, o) BY <1>2, <2>1, <2>2, <2>3 DEF GarbageOK
  <2>5. Moves(c, o) /\ Cur' = Cur BY <2>1 DEF Quiet, Cur
  <2>6. NothingNew(Cur, Cur') /\ ShapeOK(o) BY <1>3, <2>3, <2>5 DEF NothingNew
  <2> QED BY <1>2, <2>1, <2>3, <2>4, <2>5, <2>6 DEF GcStep, Reclaimed
<1>6. ASSUME NEW y \in op[c].todo, GcSweep(c, y) PROVE \E o : GcStep(c, o)
  <2> DEFINE o == DoneWith(op[c], y)
             u == Cur'
  <2>1. /\ op[c].pc = "sweep" /\ Moves(c, o)
        /\ \/ IdOf(y) \in op[c].reachable /\ u = Cur
           \/ IsErased(u, Cur, y)
    BY <1>6, GcSweepMoves, Zenon
  <2>2. /\ o.pc = "sweep" /\ o.name = "gc" /\ o.queue = <<>> /\ o.garbage = op[c].garbage
        /\ o.reachable = op[c].reachable /\ o.todo = op[c].todo \ {y}
    BY <1>1, <1>2, <2>1 DEF DoneWith, OpState
  <2> HIDE DEF o, u
  <2>3. NothingNew(Cur, u)
    <3>1. CASE u = Cur BY <3>1 DEF NothingNew
    <3>2. CASE IsErased(u, Cur, y) BY <3>2 DEF NothingNew, IsErased
    <3> QED BY <2>1, <3>1, <3>2
  <2>4. GarbageOK(u, op[c]) BY <1>2, <2>1, <2>3, GarbageKept
  <2>5. GarbageOK(u, o)
    <3>1. \A g \in op[c].garbage : g \in DOMAIN u => g # y
      <4>1. CASE IdOf(y) \in op[c].reachable BY <1>2, <2>1, <4>1 DEF GarbageOK
      <4>2. CASE IsErased(u, Cur, y) BY <4>2 DEF IsErased
      <4> QED BY <2>1, <4>1, <4>2
    <3> QED BY <2>1, <2>2, <2>4, <3>1 DEF GarbageOK
  <2>6. ShapeOK(o) BY <1>3, <2>2
  <2> QED BY <1>2, <2>1, <2>2, <2>3, <2>5, <2>6 DEF GcStep, Reclaimed, u
<1>7. ASSUME GcReturn(c) PROVE \E o : GcStep(c, o)
  <2>1. op[c].pc = "sweep" /\ op[c].todo = {} /\ Moves(c, Idle) /\ Cur' = Cur BY <1>7, GcReturnMoves, Zenon
  <2>2. op[c].garbage \cap DOMAIN Cur = {} BY <1>2, <2>1 DEF GarbageOK
  <2>3. NothingNew(Cur, Cur') BY <2>1 DEF NothingNew
  <2>4. ShapeOK(Idle) /\ Idle.name = "" BY IdleShape, IdleType
  <2> QED BY <2>1, <2>2, <2>3, <2>4 DEF GcStep, Reclaimed
<1> QED BY <1>4, <1>5, <1>6, <1>7

\* Every step but a crash.
LEMMA GcInvNext ==
    ASSUME PutGcApart, TypeInv, GcInv, Next, ~Crash PROVE GcKept
<1>1. ASSUME NEW c \in Clients, \E o : GcStep(c, o) PROVE GcKept BY <1>1, GcStepKeeps
<1>2. ASSUME NEW c \in Clients, \E o : Harmless(c, o), op[c].name # "gc", op'[c].name # "gc" PROVE GcKept
  <2>1. \E o : GcStep(c, o) BY <1>2, HarmlessGc
  <2> QED BY <1>1, <2>1
<1>3. ShapeInv BY DEF GcInv
<1>4. ASSUME NEW c \in Clients, NEW b \in Buckets, CreateBucket(c, b) PROVE GcKept
  BY <1>2, <1>4, CreateHarmless, NotCollecting
<1>5. ASSUME NEW c \in Clients, NEW req \in Requests, PutObject(c, req) PROVE GcKept
  BY <1>1, <1>5, PutGc
<1>6. ASSUME NEW c \in Clients, NEW b \in Buckets, NEW k \in Keys, DeleteObject(c, b, k) PROVE GcKept
  BY <1>2, <1>6, DeleteHarmless, NotCollecting
<1>7. ASSUME NEW c \in Clients, NEW b \in Buckets, NEW k \in Keys, GetObject(c, b, k) PROVE GcKept
  BY <1>2, <1>7, GetHarmless, NotCollecting
<1>8. ASSUME NEW c \in Clients, NEW b \in Buckets, NEW pre \in ListPrefixes, ListObjects(c, b, pre) PROVE GcKept
  BY <1>2, <1>3, <1>8, ListHarmless, NotCollecting
<1>9. ASSUME NEW c \in Clients, GarbageCollectChunks(c) PROVE GcKept
  BY <1>1, <1>9, CollectGc
<1>10. ASSUME NEW c \in Clients, Write(c) PROVE GcKept
  BY <1>1, <1>10, WriteGc
<1>11. ASSUME NEW c \in Clients, FlushFails(c) \/ GetReturn(c) \/ ListReturn(c) \/ Acknowledge(c) PROVE GcKept
  BY <1>2, <1>11, ReturnHarmless, NotCollecting
<1>12. ASSUME NEW c \in Clients, GetChunk(c) PROVE GcKept
  BY <1>2, <1>3, <1>12, GetChunkHarmless, NotCollecting
<1>13. ASSUME NEW c \in Clients, NEW k \in op[c].todo, ListEntry(c, k) PROVE GcKept
  BY <1>2, <1>3, <1>13, ListHarmless, NotCollecting
<1>14. ASSUME NEW c \in Clients,
              (\E k \in op[c].todo : GcMark(c, k) \/ GcSweep(c, k)) \/ GcScan(c) \/ GcReturn(c)
       PROVE  GcKept
  BY <1>1, <1>14, CollectingGc
<1>15. ASSUME Recover PROVE GcKept
  <2>1. UNCHANGED <<now, op, recent, count>> /\ \A c \in Clients : op[c] = Idle BY <1>15, RecoverMoves
  <2>2. \A c \in Clients : op'[c] = Idle /\ op[c].name = "" /\ op'[c].name = "" BY <2>1, IdleType
  <2> QED BY <2>2, IdleShape DEF GcKept, GcInv, ShapeInv, ApartInv, GarbageInv, Reclaimed
<1> QED BY <1>4, <1>5, <1>6, <1>7, <1>8, <1>9, <1>10, <1>11, <1>12, <1>13, <1>14, <1>15 DEF Next

\* GarbageCollectChunks reclaims: when callers keep puts and collections
\* apart, every chunk nothing referred to when a collection began is gone
\* when it returns, whatever deletes, reads and other collections ran beside
\* it.  Beside a put it may mark an object the put has just committed.
THEOREM CollectionsReclaim == ASSUME PutGcApart PROVE Spec => GcReclaims
<1>1. Init => TypeInv /\ GcInv
  <2> SUFFICES ASSUME Init PROVE GcInv
    BY TypeInvInit
  <2>1. \A c \in Clients : op[c] = Idle /\ op[c].name = "" BY IdleType DEF Init
  <2> QED BY <2>1, IdleShape DEF GcInv, ShapeInv, ApartInv, GarbageInv
<1>2. ASSUME TypeInv, GcInv, Next
      PROVE  GcInv' /\ \A c \in Clients : up' => Reclaimed(op[c], op'[c])
  <2>1. CASE Crash
    <3>1. up' = FALSE /\ op' = [c \in Clients |-> Idle] BY <1>2, <2>1, CrashMoves, Zenon
    <3>2. \A c \in Clients : op'[c] = Idle /\ op'[c].name = "" BY <3>1, IdleType
    <3>3. GcInv' BY <3>2, IdleShape DEF GcInv, ShapeInv, ApartInv, GarbageInv
    <3> QED BY <3>1, <3>3
  <2>2. CASE ~Crash BY <1>2, <2>2, GcInvNext DEF GcKept
  <2> QED BY <2>1, <2>2
<1>3. ASSUME TypeInv, GcInv, UNCHANGED vars PROVE GcInv'
  BY <1>3 DEF vars, GcInv, ShapeInv, ApartInv, GarbageInv, Cur
<1>4. TypeInv /\ GcInv /\ [Next]_vars => (TypeInv /\ GcInv)' BY <1>2, <1>3, TypeInvNext
<1>5. TypeInv /\ GcInv /\ [Next]_vars =>
         [\A c \in Clients : op[c].name = "gc" /\ op'[c].pc = "idle" /\ up' =>
             op[c].garbage \cap DOMAIN KV!Current = {}]_vars
  <2>1. KV!Current = Cur BY DEF KV!Current, Cur, CurOf
  <2> QED BY <1>2, <2>1 DEF Reclaimed
<1> QED BY <1>1, <1>4, <1>5, PTL DEF Spec, GcReclaims
-----------------------------------------------------------------------------
(* Reads.                                                                   *)

\* Callers keep reads and collections apart too, and no two objects have
\* names that the codec joins alike.
GetGcApart == {"get", "gc"} \in Serialized

NamesDiffer ==
    \A b, c \in Buckets, k, l \in Keys : b \o k = c \o l => b = c /\ k = l

\* Metadata t is stored under the name it has.
Placed(k, t) ==
    t.bucket \in Buckets /\ t.key \in Keys /\ k.path = t.bucket \o t.key /\ t.state # "Pending"

PlacedMap(m) == \A k \in DOMAIN m : k.kind = "objmeta" => Placed(k, m[k])

PlacedQueue(o) ==
    \A j \in DOMAIN o.queue : o.queue[j].key.kind = "objmeta" => Placed(o.queue[j].key, o.queue[j].val)

\* d is what the first i chunks of data hold.
ReadTo(d, data, i) ==
    /\ Len(d) = IF i * chunk_size_bytes_ < Len(data) THEN i * chunk_size_bytes_ ELSE Len(data)
    /\ \A j \in 1..Len(d) : d[j] = data[j]

\* A read has what it reads to the end.
GetOK(m, o) ==
    /\ HasChunks(m, o.meta, o.meta.chunk_count)
    /\ o.meta.bucket = o.bucket /\ o.meta.key = o.key
    /\ ReadTo(o.data, o.meta.etag, o.i)

ReadApartInv == \A c, d \in Clients : op[c].name = "get" => op[d].name # "gc"

PlacedInv == (\A m \in MapsOf(timeline) : PlacedMap(m)) /\ \A c \in Clients : PlacedQueue(op[c])

GetInv == \A c \in Clients : op[c].name = "get" => GetOK(Cur, op[c])

ReadInv == ReadApartInv /\ PlacedInv /\ GetInv

\* The chunks cover the data, and each begins inside it.
LEMMA CountFits ==
    ASSUME NEW size \in Nat
    PROVE  /\ ChunkCount(size) \in Nat /\ ChunkCount(size) * chunk_size_bytes_ >= size
           /\ \A i \in 0..(ChunkCount(size) - 1) : i * chunk_size_bytes_ < size
<1>1. PICK cs \in Nat \ {0} : cs = chunk_size_bytes_ BY ChunkSizeType
<1>2. PICK a \in Nat : a = size + cs - 1
  <2>1. size + cs - 1 \in Nat BY <1>1
  <2> QED BY <2>1
<1>3. PICK d \in Nat, e \in 0..(cs - 1) : a \div cs = d /\ a % cs = e /\ a = cs * d + e
  BY <1>1, <1>2, Division
<1>4. PICK cd \in Nat : cd = cs * d BY <1>1, <1>3
<1>5. a = cd + e BY <1>3, <1>4
<1>6. ChunkCount(size) = d BY <1>1, <1>2, <1>3 DEF ChunkCount
<1>7. cd >= size BY <1>1, <1>2, <1>3, <1>5
<1>8. d * cs = cd BY <1>1, <1>3, <1>4
<1>9. ASSUME NEW i \in 0..(d - 1) PROVE i * cs < size
  <2>1. i \in Nat /\ i + 1 \in Nat /\ d >= i + 1 BY <1>3
  <2>2. cs * d >= cs * (i + 1) BY <1>1, <1>3, <2>1, Products
  <2>3. PICK ci \in Nat : ci = i * cs BY <1>1, <2>1
  <2>4. cs * (i + 1) = ci + cs
    <3>1. cs * (i + 1) = i * cs + cs BY <1>1, <2>1
    <3> QED BY <2>3, <3>1
  <2>5. cd >= ci + cs BY <1>4, <2>2, <2>4
  <2>6. ci < size BY <1>1, <1>2, <1>3, <1>5, <2>3, <2>5
  <2> QED BY <2>3, <2>6
<1> QED BY <1>1, <1>3, <1>6, <1>7, <1>8, <1>9

\* A chunk takes up where the ones before it end.
LEMMA ReadNext ==
    ASSUME NEW data \in Seq(Nat), NEW d \in Seq(Int), NEW i \in 0..(ChunkCount(Len(data)) - 1), ReadTo(d, data, i)
    PROVE  ReadTo(d \o ChunkValue(data, i), data, i + 1)
<1>1. PICK cs \in Nat \ {0} : cs = chunk_size_bytes_ BY ChunkSizeType
<1>2. PICK s \in Nat : s = Len(data) BY LenProperties
<1>3. i \in Nat BY <1>2, CountFits
<1>4. PICK ci \in Nat : ci = i * cs BY <1>1, <1>3
<1>5. ci < s BY <1>1, <1>2, <1>4, CountFits
<1>6. (i + 1) * cs = ci + cs
  <2>1. (i + 1) * cs = i * cs + cs BY <1>1, <1>3
  <2> QED BY <1>4, <2>1
<1>7. PICK end \in Nat : end = IF ci + cs < s THEN ci + cs ELSE s
  <2>1. (IF ci + cs < s THEN ci + cs ELSE s) \in Nat OBVIOUS
  <2> QED BY <2>1
<1>8. ci < end /\ end <= s BY <1>1, <1>5, <1>7
<1> DEFINE v == SubSeq(data, ci + 1, end)
<1>9. ChunkValue(data, i) = v BY <1>1, <1>2, <1>4, <1>7 DEF ChunkValue
<1>10. v \in Seq(Int) /\ Len(v) = end - ci /\ \A j \in 1..(end - ci) : v[j] = data[ci + j]
  <2>1. ci + 1 \in 1..(Len(data) + 1) /\ end \in ((ci + 1) - 1)..Len(data) BY <1>2, <1>4, <1>5, <1>7, <1>8
  <2>2. v \in Seq(Nat) /\ Len(v) = IF ci + 1 <= end THEN end - (ci + 1) + 1 ELSE 0
    BY <2>1
  <2>3. \A j \in 1..(end - (ci + 1) + 1) : v[j] = data[(ci + 1) + j - 1] BY <1>4, <1>7, <2>1
  <2>4. end - (ci + 1) + 1 = end - ci /\ ci + 1 <= end /\ \A j \in Int : (ci + 1) + j - 1 = ci + j
    BY <1>4, <1>7, <1>8
  <2> HIDE DEF v
  <2>5. v \in Seq(Int) BY <2>2, SeqMonotonic
  <2>6. Len(v) = end - ci BY <2>2, <2>4
  <2>7. \A j \in 1..(end - ci) : v[j] = data[ci + j] BY <1>4, <1>7, <2>3, <2>4
  <2> QED BY <2>5, <2>6, <2>7
<1> HIDE DEF v
<1>11. Len(d) = ci
  <2>1. Len(d) = IF ci < s THEN ci ELSE s BY <1>1, <1>2, <1>4 DEF ReadTo
  <2> QED BY <1>5, <2>1
<1>12. \A j \in 1..ci : d[j] = data[j] BY <1>11 DEF ReadTo
<1> DEFINE w == d \o v
<1>13. /\ w \in Seq(Int) /\ Len(w) = end
       /\ \A j \in 1..end : w[j] = IF j <= ci THEN d[j] ELSE v[j - ci]
  <2>1. w \in Seq(Int) /\ Len(w) = Len(d) + Len(v) BY <1>10, ConcatProperties
  <2>2. \A j \in 1..(Len(d) + Len(v)) : w[j] = IF j <= Len(d) THEN d[j] ELSE v[j - Len(d)]
    BY <1>10, ConcatProperties
  <2>3. Len(d) + Len(v) = end BY <1>4, <1>7, <1>8, <1>10, <1>11
  <2> HIDE DEF w
  <2> QED BY <1>11, <2>1, <2>2, <2>3
<1> HIDE DEF w
<1>14. ASSUME NEW j \in 1..end PROVE w[j] = data[j]
  <2>1. CASE j <= ci
    <3>1. j \in 1..ci BY <1>4, <1>7, <2>1
    <3> QED BY <1>12, <1>13, <2>1, <3>1
  <2>2. CASE j > ci
    <3>1. j - ci \in 1..(end - ci) /\ ci + (j - ci) = j /\ ~(j <= ci) BY <1>4, <1>7, <2>2
    <3>2. v[j - ci] = data[j] BY <1>10, <3>1
    <3> QED BY <1>13, <3>1, <3>2
  <2> QED BY <1>4, <1>7, <2>1, <2>2
<1>15. Len(w) = IF (i + 1) * chunk_size_bytes_ < Len(data) THEN (i + 1) * chunk_size_bytes_ ELSE Len(data)
  BY <1>1, <1>2, <1>6, <1>7, <1>13
<1>16. ReadTo(w, data, i + 1) BY <1>13, <1>14, <1>15 DEF ReadTo
<1> QED BY <1>9, <1>16 DEF w

\* The first chunks are none, and all of them are the data.
LEMMA ReadEnds ==
    ASSUME NEW data \in Seq(Nat)
    PROVE  /\ ReadTo(<<>>, data, 0)
           /\ \A d \in Seq(Int) : ReadTo(d, data, ChunkCount(Len(data))) => d = data
<1>1. PICK cs \in Nat \ {0} : cs = chunk_size_bytes_ BY ChunkSizeType
<1>2. PICK s \in Nat : s = Len(data) BY LenProperties
<1>3. ReadTo(<<>>, data, 0)
  <2>1. Len(<<>>) = 0 /\ 0 * cs = 0 BY <1>1, EmptySeq
  <2>2. 0 = IF 0 * cs < s THEN 0 * cs ELSE s BY <1>2, <2>1
  <2> QED BY <1>1, <1>2, <2>1, <2>2 DEF ReadTo
<1>4. ASSUME NEW d \in Seq(Int), ReadTo(d, data, ChunkCount(Len(data))) PROVE d = data
  <2>1. PICK e \in Nat : e = ChunkCount(s) * cs
    <3>1. ChunkCount(s) \in Nat BY <1>2, CountFits
    <3> QED BY <1>1, <3>1
  <2>2. e >= s BY <1>1, <1>2, <2>1, CountFits
  <2>3. Len(d) = IF e < s THEN e ELSE s BY <1>1, <1>2, <1>4, <2>1 DEF ReadTo
  <2>4. Len(d) = s BY <1>2, <2>1, <2>2, <2>3
  <2>5. \A j \in 1..Len(d) : d[j] = data[j] BY <1>4 DEF ReadTo
  <2>6. data \in Seq(Int) BY SeqMonotonic
  <2> QED BY <1>2, <2>4, <2>5, <2>6, SeqEqual
<1> QED BY <1>3, <1>4
\* A read by o that returns, leaving locals p, has read all of one version.
ReadBack(o, p) ==
    o.name = "get" /\ p.pc = "idle" =>
        ~p.error /\ o.data = o.meta.etag /\ o.meta.bucket = o.bucket /\ o.meta.key = o.key

\* Client c goes on with locals o, and disturbs no read.
ReadStep(c, o) ==
    /\ Moves(c, o) /\ ReadBack(op[c], o)
    /\ MapsOf(timeline') \subseteq MapsOf(timeline) \cup {Cur'} /\ PlacedMap(Cur') /\ PlacedQueue(o)
    /\ o.name = "get" => GetOK(Cur', o) /\ \A d \in Clients \ {c} : op[d].name # "gc"
    /\ o.name = "gc" => \A d \in Clients \ {c} : op[d].name # "get"
    /\ \A d \in Clients \ {c} :
          op[d].name = "get" => HasChunks(Cur', op[d].meta, op[d].meta.chunk_count)

ReadKept == ReadInv' /\ \A c \in Clients : ReadBack(op[c], op'[c])

\* Such a step keeps the invariant.
LEMMA ReadStepKeeps ==
    ASSUME TypeInv, CoreInv, ReadInv, NEW c \in Clients, NEW o, ReadStep(c, o) PROVE ReadKept
<1>1. op'[c] = o /\ \A d \in Clients \ {c} : Same(op[d], op'[d]) BY DEF ReadStep, Moves
<1>2. \A d \in Clients \ {c} :
          /\ op'[d].name = op[d].name /\ op'[d].pc = op[d].pc /\ op'[d].meta = op[d].meta
          /\ op'[d].bucket = op[d].bucket /\ op'[d].key = op[d].key /\ op'[d].queue = op[d].queue
          /\ op'[d].data = op[d].data /\ op'[d].i = op[d].i
  BY <1>1 DEF Same
<1>3. ReadApartInv'
  <2> SUFFICES ASSUME NEW a \in Clients, NEW d \in Clients, op'[a].name = "get", op'[d].name = "gc" PROVE FALSE
    BY DEF ReadApartInv
  <2>1. CASE a = c /\ d # c BY <1>1, <1>2, <2>1 DEF ReadStep
  <2>2. CASE a # c /\ d = c BY <1>1, <1>2, <2>2 DEF ReadStep
  <2>3. CASE a # c /\ d # c BY <1>2, <2>3 DEF ReadInv, ReadApartInv
  <2> QED BY <2>1, <2>2, <2>3
<1>4. PlacedInv'
  <2>1. \A m \in MapsOf(timeline') : PlacedMap(m) BY DEF ReadStep, ReadInv, PlacedInv
  <2>2. ASSUME NEW d \in Clients PROVE PlacedQueue(op'[d])
    <3>1. CASE d = c BY <1>1, <3>1 DEF ReadStep
    <3>2. CASE d # c BY <1>2, <3>2 DEF ReadInv, PlacedInv, PlacedQueue
    <3> QED BY <3>1, <3>2
  <2> QED BY <2>1, <2>2 DEF PlacedInv
<1>5. GetInv'
  <2> SUFFICES ASSUME NEW d \in Clients, op'[d].name = "get" PROVE GetOK(Cur', op'[d])
    BY DEF GetInv
  <2>1. CASE d = c BY <1>1, <2>1 DEF ReadStep
  <2>2. CASE d # c
    <3>1. op[d].name = "get" /\ GetOK(Cur, op[d]) BY <1>2, <2>2 DEF ReadInv, GetInv
    <3>2. HasChunks(Cur', op[d].meta, op[d].meta.chunk_count) BY <2>2, <3>1 DEF ReadStep
    <3> QED BY <1>2, <2>2, <3>1, <3>2 DEF GetOK
  <2> QED BY <2>1, <2>2
<1>6. ASSUME NEW d \in Clients PROVE ReadBack(op[d], op'[d])
  <2>1. CASE d = c BY <1>1, <2>1 DEF ReadStep
  <2>2. CASE d # c
    <3>1. WhereOK(op[d]) BY DEF CoreInv, ShapeInv, ShapeOK
    <3> QED BY <1>2, <2>2, <3>1 DEF WhereOK, ReadBack
  <2> QED BY <2>1, <2>2
<1> QED BY <1>3, <1>4, <1>5, <1>6 DEF ReadInv, ReadKept

\* An operation with nothing to write.
LEMMA NothingPlaced == ASSUME NEW o, o.queue = <<>> PROVE PlacedQueue(o)
<1>1. DOMAIN o.queue = {} BY EmptySeq
<1> QED BY <1>1 DEF PlacedQueue

\* A harmless step that neither begins nor ends a read, a delete or a
\* collection.
LEMMA HarmlessRead ==
    ASSUME TypeInv, ReadInv, NEW c \in Clients, NEW o, Harmless(c, o), PlacedQueue(o), ReadBack(op[c], o),
           o.name = "get" => GetOK(Cur, o) /\ \A d \in Clients \ {c} : op[d].name # "gc",
           o.name = "gc" => \A d \in Clients \ {c} : op[d].name # "get"
    PROVE  ReadStep(c, o)
<1>1. Moves(c, o) /\ MapsOf(timeline') \subseteq MapsOf(timeline) /\ Cur' = Cur BY DEF Harmless
<1>2. Cur \in MapsOf(timeline) BY CurIsOne DEF TypeInv, Cur
<1>3. PlacedMap(Cur') BY <1>1, <1>2 DEF ReadInv, PlacedInv
<1>4. \A d \in Clients : op[d].name = "get" => HasChunks(Cur', op[d].meta, op[d].meta.chunk_count)
  BY <1>1 DEF ReadInv, GetInv, GetOK
<1> QED BY <1>1, <1>3, <1>4 DEF ReadStep

\* No read runs when a collection is called, and no collection when a read is.
LEMMA CalledReadApart ==
    ASSUME GetGcApart, TypeInv, ShapeInv, NEW c \in Clients
    PROVE  /\ Called(c, "gc") => \A d \in Clients : op[d].name # "get"
           /\ Called(c, "get") => \A d \in Clients : op[d].name # "gc"
<1>1. ASSUME NEW d \in Clients, op[d].name \in {"get", "gc"} PROVE op[d].pc # "idle"
  <2>1. WhereOK(op[d]) BY DEF ShapeInv, ShapeOK
  <2> QED BY <1>1, <2>1 DEF WhereOK
<1>2. {"gc", "get"} = {"get", "gc"} OBVIOUS
<1>3. ASSUME Called(c, "gc"), NEW d \in Clients, op[d].name = "get" PROVE FALSE
  BY <1>1, <1>2, <1>3 DEF Called, GetGcApart
<1>4. ASSUME Called(c, "get"), NEW d \in Clients, op[d].name = "gc" PROVE FALSE
  BY <1>1, <1>4 DEF Called, GetGcApart
<1> QED BY <1>3, <1>4

\* CreateBucket.
LEMMA CreateRead ==
    ASSUME TypeInv, CoreInv, ReadInv, NEW c \in Clients, NEW b \in Buckets, CreateBucket(c, b)
    PROVE  \E o : ReadStep(c, o)
<1>1. op[c].name = ""
  <2>1. op[c].pc = "idle" BY CalledType DEF CreateBucket
  <2>2. WhereOK(op[c]) BY DEF CoreInv, ShapeInv, ShapeOK
  <2> QED BY <2>1, <2>2 DEF WhereOK
<1>2. PICK o : Harmless(c, o) BY CreateHarmless
<1>3. PICK q : Moves(c, Begun("create", <<>>, <<>>, q)) BY CreateBucketMoves
<1>4. Begun("create", <<>>, <<>>, q).name = "create" BY IdleType DEF Begun, OpState
<1>5. o.name = "create" BY <1>2, <1>3, <1>4 DEF Harmless, Moves
<1>6. PlacedQueue(o) BY <1>2, <1>5 DEF Harmless, ShapeOK, QueueOK, PlacedQueue
<1> QED BY <1>1, <1>2, <1>5, <1>6, HarmlessRead DEF ReadBack

\* DeleteObject writes the metadata back under its own name.
LEMMA DeleteRead ==
    ASSUME TypeInv, CoreInv, ReadInv, NEW c \in Clients, NEW b \in Buckets, NEW k \in Keys, DeleteObject(c, b, k)
    PROVE  \E o : ReadStep(c, o)
<1> DEFINE x == ObjectMetaKey(b, k)
           t == Cur[x]
           q == DeleteCalls(b, k, t)
           w == Begun("delete", b, k, q)
           u == [t EXCEPT !.state = "Deleted"]
<1>1. op[c].name = ""
  <2>1. op[c].pc = "idle" BY CalledType DEF DeleteObject
  <2>2. WhereOK(op[c]) BY DEF CoreInv, ShapeInv, ShapeOK
  <2> QED BY <2>1, <2>2 DEF WhereOK
<1>2. x \in DOMAIN Cur /\ t \in Meta /\ Moves(c, w) BY DeleteObjectMoves
<1>3. x.kind = "objmeta" BY DEF ObjectMetaKey
<1>4. Placed(x, t)
  <2>1. Cur \in MapsOf(timeline) BY CurIsOne DEF TypeInv, Cur
  <2> QED BY <1>2, <1>3, <2>1 DEF ReadInv, PlacedInv, PlacedMap
<1> HIDE DEF t
<1>5. /\ q \in Seq(KVCall) /\ Len(q) = 2 /\ q # <<>> /\ q[1] = PutCall(x, u)
      /\ q[2] = DelCall(BucketIndexKey(b, k))
  BY <1>2, DeleteCallsType
<1>6. Placed(x, u) BY <1>2, <1>4 DEF Placed, Meta
<1> HIDE DEF q, u, x
<1>7. q[1].key = x /\ q[1].val = u /\ q[2].key.kind = "bucketidx"
  BY <1>5 DEF PutCall, DelCall, BucketIndexKey
<1>8. b \in Seq(Nat) /\ k \in Seq(Nat) /\ "delete" \in OpNames BY ObjectStoreAssumption DEF OpNames
<1>9. w.name = "delete" /\ w.queue = q BY <1>5, <1>8, BegunType
<1> HIDE DEF w
<1>10. PlacedQueue(w)
  <2>1. DOMAIN q = 1..2 BY <1>5, LenProperties
  <2>2. DOMAIN q = {1, 2} BY <2>1
  <2> QED BY <1>6, <1>7, <1>9, <2>2 DEF PlacedQueue
<1>11. PICK o : Harmless(c, o) BY DeleteHarmless
<1>12. o = w BY <1>2, <1>11 DEF Harmless, Moves
<1> QED BY <1>1, <1>9, <1>10, <1>11, <1>12, HarmlessRead DEF ReadBack
\* GetObject: committed metadata under its own name, with all its chunks.
LEMMA GetRead ==
    ASSUME GetGcApart, NamesDiffer, TypeInv, CoreInv, ReadInv, NEW c \in Clients,
           NEW b \in Buckets, NEW k \in Keys, GetObject(c, b, k)
    PROVE  \E o : ReadStep(c, o)
<1> DEFINE x == ObjectMetaKey(b, k)
           t == Cur[x]
           w == Reading(b, k, t)
<1>1. /\ x \in DOMAIN Cur /\ t \in Meta /\ Len(t.content_type) = 1 /\ t.state # "Deleted"
      /\ op[c].pc = "idle" /\ Quiet(c, w)
  BY GetObjectMoves
<1>2. op[c].name = ""
  <2>1. WhereOK(op[c]) BY DEF CoreInv, ShapeInv, ShapeOK
  <2> QED BY <1>1, <2>1 DEF WhereOK
<1>3. x.kind = "objmeta" /\ x.path = b \o k BY DEF ObjectMetaKey
<1>4. Cur \in MapsOf(timeline) BY CurIsOne DEF TypeInv, Cur
<1>5. Placed(x, t) BY <1>1, <1>3, <1>4 DEF ReadInv, PlacedInv, PlacedMap
<1>6. HasChunks(Cur, t, t.chunk_count)
  <2>1. Live(t) BY <1>1, <1>5 DEF Live, Placed, Meta
  <2> QED BY <1>1, <1>3, <1>4, <2>1 DEF CoreInv, MapInv, Complete
<1> HIDE DEF t
<1>7. t.bucket = b /\ t.key = k
  <2>1. t.bucket \in Buckets /\ t.key \in Keys /\ t.bucket \o t.key = b \o k BY <1>3, <1>5 DEF Placed
  <2> QED BY <2>1, Zenon DEF NamesDiffer
<1> HIDE DEF x
<1>8. w.name = "get" /\ w.meta = t /\ w.bucket = b /\ w.key = k /\ w.i = 0 /\ w.data = <<>> /\ w.queue = Idle.queue /\ w.pc = "get"
  BY IdleType DEF Reading, OpState
<1> HIDE DEF w
<1>9. t.etag \in Seq(Nat) BY <1>1 DEF Meta
<1>10. ReadTo(<<>>, t.etag, 0) BY <1>9, ReadEnds
<1>11. GetOK(Cur, w) BY <1>6, <1>7, <1>8, <1>10 DEF GetOK
<1>12. PlacedQueue(w) BY <1>8, IdleShape, NothingPlaced
<1>13. \A d \in Clients : op[d].name # "gc" BY CalledReadApart DEF CoreInv, GetObject
<1>14. PICK o : Harmless(c, o) BY GetHarmless
<1>15. o = w BY <1>1, <1>14 DEF Harmless, Moves, Quiet
<1> QED BY <1>2, <1>8, <1>11, <1>12, <1>13, <1>14, <1>15, HarmlessRead DEF ReadBack

\* What a running read knows of its metadata.
LEMMA Reads ==
    ASSUME TypeInv, CoreInv, ReadInv, NEW c \in Clients, op[c].pc = "get"
    PROVE  /\ op[c].name = "get" /\ op[c].queue = <<>> /\ GetOK(Cur, op[c])
           /\ op[c].meta \in Meta /\ SizesOK(op[c].meta) /\ op[c].meta.etag \in Seq(Nat)
           /\ op[c].meta.chunk_count = ChunkCount(Len(op[c].meta.etag))
           /\ op[c].data \in Seq(Int) /\ op[c].i \in 0..op[c].meta.chunk_count
           /\ \A d \in Clients : op[d].name # "gc"
<1>1. op[c] \in OpState /\ ShapeOK(op[c]) /\ OpOK(Cur, op[c]) BY DEF TypeInv, CoreInv, ShapeInv
<1>2. op[c].name = "get" /\ op[c].queue = <<>> BY <1>1 DEF ShapeOK, WhereOK, QueueOK
<1>3. Held(op[c]) = {op[c].meta} BY <1>2, NoQueue
<1>4. SizesOK(op[c].meta) BY <1>3 DEF CoreInv, KnownInv, Good
<1>5. op[c].meta \in Meta /\ op[c].data \in Seq(Int) /\ op[c].i \in Nat /\ op[c].meta.etag \in Seq(Nat) /\ op[c].meta.chunk_count \in Nat
  BY <1>1 DEF OpState, Meta
<1>6. op[c].i \in 0..op[c].meta.chunk_count BY <1>1, <1>5 DEF OpOK
<1> QED BY <1>2, <1>4, <1>5, <1>6 DEF ReadInv, GetInv, ReadApartInv, SizesOK

\* GetChunk finds the chunk, and its bytes come next.
LEMMA GetChunkRead ==
    ASSUME TypeInv, CoreInv, ReadInv, NEW c \in Clients, GetChunk(c) PROVE \E o : ReadStep(c, o)
<1> DEFINE k == NextChunk(op[c])
           t == op[c].meta
           i == op[c].i
           w == IF k \in DOMAIN Cur THEN [op[c] EXCEPT !.i = @ + 1, !.data = @ \o Cur[k]]
                ELSE [Idle EXCEPT !.error = TRUE]
<1>1. op[c].pc = "get" /\ op[c].i < op[c].meta.chunk_count /\ Quiet(c, w) BY GetChunkMoves
<1>2. /\ op[c].name = "get" /\ op[c].queue = <<>> /\ GetOK(Cur, op[c]) /\ t \in Meta /\ t.etag \in Seq(Nat)
      /\ t.chunk_count = ChunkCount(Len(t.etag)) /\ op[c].data \in Seq(Int) /\ i \in 0..t.chunk_count
      /\ \A d \in Clients : op[d].name # "gc"
  BY <1>1, Reads
<1>3. i \in 0..(t.chunk_count - 1) BY <1>1, <1>2 DEF Meta
<1>4. k = ChunkKey(t.object_id, i) BY DEF NextChunk
<1>5. k \in DOMAIN Cur /\ Cur[k] = ChunkValue(t.etag, i) BY <1>2, <1>3, <1>4 DEF GetOK, HasChunks
<1>6. ReadTo(op[c].data \o Cur[k], t.etag, i + 1)
  <2>1. ReadTo(op[c].data, t.etag, i) BY <1>2 DEF GetOK
  <2>2. i \in 0..(ChunkCount(Len(t.etag)) - 1) BY <1>2, <1>3
  <2> QED BY <1>2, <1>5, <2>1, <2>2, ReadNext
<1> DEFINE v == op[c].data \o Cur[k]
<1>7. w = [op[c] EXCEPT !.i = i + 1, !.data = v] BY <1>5
<1> HIDE DEF v, w
<1>8. op[c] \in OpState BY DEF TypeInv
<1>9. /\ w.i = i + 1 /\ w.data = v /\ w.meta = t /\ w.bucket = op[c].bucket /\ w.key = op[c].key
      /\ w.name = "get" /\ w.queue = <<>> /\ w.pc = "get"
  BY <1>1, <1>2, <1>7, <1>8 DEF OpState
<1>10. ReadTo(v, t.etag, i + 1) BY <1>6 DEF v
<1> HIDE DEF t, i, k
<1>11. GetOK(Cur, w) BY <1>2, <1>9, <1>10 DEF GetOK, t
<1>12. PlacedQueue(w) BY <1>9, NothingPlaced
<1>13. PICK o : Harmless(c, o) BY GetChunkHarmless DEF CoreInv
<1>14. o = w BY <1>1, <1>13 DEF Harmless, Moves, Quiet
<1> QED BY <1>2, <1>9, <1>11, <1>12, <1>13, <1>14, HarmlessRead DEF ReadBack

\* FlushFails, ListReturn, Acknowledge, GcReturn, and GetReturn: there is no
\* chunk left.
LEMMA ReturnRead ==
    ASSUME TypeInv, CoreInv, ReadInv, NEW c \in Clients,
           FlushFails(c) \/ GetReturn(c) \/ ListReturn(c) \/ Acknowledge(c) \/ GcReturn(c)
    PROVE  ReadStep(c, Idle)
<1>1. Harmless(c, Idle) BY ReturnHarmless
<1>2. PlacedQueue(Idle) /\ Idle.name = "" BY IdleShape, IdleType, NothingPlaced
<1>3. ReadBack(op[c], Idle)
  <2>1. op[c].pc = "get" <=> op[c].name = "get" BY DEF CoreInv, ShapeInv, ShapeOK, WhereOK
  <2>2. CASE GetReturn(c)
    <3>1. op[c].pc = "get" /\ ~MoreChunks(c)
      <4> QED BY <2>2, Zenon DEF GetReturn
    <3>2. /\ GetOK(Cur, op[c]) /\ op[c].meta \in Meta /\ op[c].meta.etag \in Seq(Nat)
          /\ op[c].meta.chunk_count = ChunkCount(Len(op[c].meta.etag))
          /\ op[c].data \in Seq(Int) /\ op[c].i \in 0..op[c].meta.chunk_count
      BY <3>1, Reads
    <3>3. op[c].i = op[c].meta.chunk_count
      <4>1. op[c].meta.chunk_count \in Nat BY <3>2 DEF Meta
      <4> QED BY <3>1, <3>2, <4>1 DEF MoreChunks
    <3>4. ReadTo(op[c].data, op[c].meta.etag, ChunkCount(Len(op[c].meta.etag))) BY <3>2, <3>3 DEF GetOK
    <3>5. op[c].data = op[c].meta.etag BY <3>2, <3>4, ReadEnds
    <3>6. Idle.error = FALSE BY DEF Idle
    <3> QED BY <3>2, <3>5, <3>6 DEF ReadBack, GetOK
  <2>3. CASE FlushFails(c)
    <3>1. op[c].pc = "flush" BY <2>3, Zenon DEF FlushFails
    <3> QED BY <2>1, <3>1 DEF ReadBack
  <2>4. CASE ListReturn(c)
    <3>1. op[c].pc = "list" BY <2>4, Zenon DEF ListReturn
    <3> QED BY <2>1, <3>1 DEF ReadBack
  <2>5. CASE Acknowledge(c)
    <3>1. op[c].pc = "flush" BY <2>5, Zenon DEF Acknowledge
    <3> QED BY <2>1, <3>1 DEF ReadBack
  <2>6. CASE GcReturn(c)
    <3>1. op[c].pc = "sweep" BY <2>6, Zenon DEF GcReturn
    <3> QED BY <2>1, <3>1 DEF ReadBack
  <2> QED BY <2>2, <2>3, <2>4, <2>5, <2>6
<1> QED BY <1>1, <1>2, <1>3, HarmlessRead

\* Listings and collections hold no data.
LEMMA OtherRead ==
    ASSUME TypeInv, CoreInv, ReadInv, NEW c \in Clients, NEW o, Harmless(c, o),
           op[c].name # "get", o.pc \in {"list", "mark", "sweep"},
           o.name = "gc" => \A d \in Clients \ {c} : op[d].name # "get"
    PROVE  ReadStep(c, o)
<1>1. ShapeOK(o) BY DEF Harmless
<1>2. o.queue = <<>> /\ o.name # "get" BY <1>1 DEF ShapeOK, QueueOK, WhereOK
<1>3. PlacedQueue(o) BY <1>2, NothingPlaced
<1> QED BY <1>2, <1>3, HarmlessRead DEF ReadBack
\* ListObjects, ListEntry, GarbageCollectChunks, GcMark and GcScan.
LEMMA ScanRead ==
    ASSUME PutGcApart, GetGcApart, TypeInv, CoreInv, ReadInv, NEW c \in Clients,
           \/ \E b \in Buckets, pre \in ListPrefixes : ListObjects(c, b, pre)
           \/ \E k \in op[c].todo : ListEntry(c, k) \/ GcMark(c, k)
           \/ GarbageCollectChunks(c) \/ GcScan(c)
    PROVE  \E o : ReadStep(c, o)
<1>1. ShapeInv /\ WhereOK(op[c]) /\ op[c] \in OpState BY DEF TypeInv, CoreInv, ShapeInv, ShapeOK
<1>2. ASSUME NEW w, NEW o, Quiet(c, w), Harmless(c, o) PROVE o = w BY <1>2 DEF Quiet, Harmless, Moves
<1>3. ASSUME NEW b \in Buckets, NEW pre \in ListPrefixes, ListObjects(c, b, pre) PROVE \E o : ReadStep(c, o)
  <2>1. PICK w : w.pc = "list" /\ w.name = "list" /\ op[c].pc = "idle" /\ Quiet(c, w) BY <1>3, ListObjectsMoves
  <2>2. PICK o : Harmless(c, o) BY <1>1, <1>3, ListHarmless
  <2>3. o = w /\ op[c].name # "get" BY <1>1, <1>2, <2>1, <2>2 DEF WhereOK
  <2> QED BY <2>1, <2>2, <2>3, OtherRead
<1>4. ASSUME NEW k \in op[c].todo, ListEntry(c, k) PROVE \E o : ReadStep(c, o)
  <2>1. PICK w : w.pc = "list" /\ w.name = op[c].name /\ op[c].pc = "list" /\ Quiet(c, w) BY <1>4, ListEntryMoves
  <2>2. PICK o : Harmless(c, o) BY <1>1, <1>4, ListHarmless
  <2>3. o = w /\ op[c].name # "get" /\ o.name # "gc" BY <1>1, <1>2, <2>1, <2>2 DEF WhereOK
  <2> QED BY <2>1, <2>2, <2>3, OtherRead
<1>5. ASSUME GarbageCollectChunks(c) PROVE \E o : ReadStep(c, o)
  <2>1. PICK K, G : op[c].pc = "idle" /\ Quiet(c, Marking(K, G)) BY <1>5, CollectMoves
  <2>2. Marking(K, G).pc = "mark" BY IdleType DEF Marking, OpState
  <2>3. PICK o : Harmless(c, o) BY <1>1, <1>5, CollectHarmless
  <2>4. o = Marking(K, G) /\ op[c].name # "get" BY <1>1, <1>2, <2>1, <2>3 DEF WhereOK
  <2>5. \A d \in Clients : op[d].name # "get" BY <1>1, <1>5, CalledReadApart DEF GarbageCollectChunks
  <2> QED BY <2>2, <2>3, <2>4, <2>5, OtherRead
<1>6. ASSUME op[c].pc = "mark" PROVE op[c].name = "gc" /\ \A d \in Clients : op[d].name # "get"
  <2>1. op[c].name = "gc" BY <1>1, <1>6 DEF WhereOK
  <2> QED BY <2>1 DEF ReadInv, ReadApartInv
<1>7. ASSUME NEW k \in op[c].todo, GcMark(c, k) PROVE \E o : ReadStep(c, o)
  <2> DEFINE I == {m.object_id : m \in {x \in {Deserialize(Cur[k])} : KeepsChunks(x)}}
             w == [op[c] EXCEPT !.todo = @ \ {k}, !.reachable = @ \cup I]
  <2>1. op[c].pc = "mark" /\ Quiet(c, w) BY <1>7, GcMarkMoves DEF Marked
  <2> HIDE DEF I
  <2>2. w.pc = "mark" BY <1>1, <2>1 DEF OpState
  <2> HIDE DEF w
  <2>3. PICK o : Harmless(c, o) BY <1>7, MarkHarmless
  <2>4. o = w BY <1>2, <2>1, <2>3
  <2> QED BY <1>6, <2>1, <2>2, <2>3, <2>4, OtherRead
<1>8. ASSUME GcScan(c) PROVE \E o : ReadStep(c, o)
  <2>1. PICK K : op[c].pc = "mark" /\ Quiet(c, Sweeping(op[c], K)) BY <1>8, GcScanMoves
  <2>2. Sweeping(op[c], K).pc = "sweep" BY <1>1 DEF Sweeping, OpState
  <2>3. PICK o : Harmless(c, o) BY <1>8, MarkHarmless
  <2>4. o = Sweeping(op[c], K) BY <1>2, <2>1, <2>3
  <2> QED BY <1>6, <2>1, <2>2, <2>3, <2>4, OtherRead
<1> QED BY <1>3, <1>4, <1>5, <1>7, <1>8

\* PutObject: what it will write has the name it was called with.
LEMMA PutRead ==
    ASSUME TypeInv, CoreInv, ReadInv, NEW c \in Clients, NEW req \in Requests, PutObject(c, req)
    PROVE  \E o : ReadStep(c, o)
<1> DEFINE t == NewMeta(req, now')
           q == PutCalls(t.object_id, t)
           o == Begun("put", req.bucket, req.key, q)
<1>1. /\ now' \in Int /\ t \in Meta /\ IsPutQueue(q, t) /\ Moves(c, o)
      /\ t.bucket \in Buckets /\ t.key \in Keys
  BY PutObjectMoves
<1>2. t.state = "Committed" BY <1>1, NewMetaGood
<1>3. req.bucket \in Seq(Nat) /\ req.key \in Seq(Nat) BY ObjectStoreAssumption DEF PutObjectRequest
<1>4. op[c].name = ""
  <2>1. op[c].pc = "idle" BY CalledType DEF PutObject
  <2>2. WhereOK(op[c]) BY DEF CoreInv, ShapeInv, ShapeOK
  <2> QED BY <2>1, <2>2 DEF WhereOK
<1> HIDE DEF t, q
<1>5. o.name = "put" /\ o.queue = q
  <2>1. q \in Seq(KVCall) /\ q # <<>> /\ "put" \in OpNames BY <1>1 DEF IsPutQueue, OpNames
  <2> QED BY <1>3, <2>1, BegunType
<1> HIDE DEF o
<1>6. PlacedQueue(o)
  <2> SUFFICES ASSUME NEW j \in DOMAIN q, q[j].key.kind = "objmeta" PROVE Placed(q[j].key, q[j].val)
    BY <1>5 DEF PlacedQueue
  <2>1. PICK n \in Nat : n = t.chunk_count BY <1>1 DEF Meta
  <2>2. DOMAIN q = 1..(n + 2) BY <1>1, <2>1, LenProperties DEF IsPutQueue
  <2>3. j \in 1..n \/ j = n + 1 \/ j = n + 2 BY <2>1, <2>2
  <2>4. CASE j \in 1..n
    <3>1. q[j] = PutCall(ChunkKey(t.object_id, j - 1), ChunkValue(t.etag, j - 1))
      BY <1>1, <2>1, <2>4 DEF IsPutQueue
    <3>2. q[j].key = ChunkKey(t.object_id, j - 1) BY <3>1 DEF PutCall
    <3>3. q[j].key.kind = "objchunk" BY <3>2 DEF ChunkKey
    <3> QED BY <3>3
  <2>5. CASE j = n + 1
    <3>1. q[j] = PutCall(ObjectMetaKey(t.bucket, t.key), t) BY <1>1, <2>1, <2>5 DEF IsPutQueue
    <3>2. q[j].key = ObjectMetaKey(t.bucket, t.key) /\ q[j].val = t BY <3>1 DEF PutCall
    <3>3. ObjectMetaKey(t.bucket, t.key).path = t.bucket \o t.key BY DEF ObjectMetaKey
    <3> QED BY <1>1, <1>2, <3>2, <3>3 DEF Placed
  <2>6. CASE j = n + 2
    <3>1. q[j].key.kind = "bucketidx" BY <1>1, <2>1, <2>6 DEF IsPutQueue, PutCall, BucketIndexKey
    <3> QED BY <3>1
  <2> QED BY <2>3, <2>4, <2>5, <2>6
<1>7. UNCHANGED timeline BY DEF PutObject
<1>8. Cur' = Cur BY <1>7 DEF Cur
<1>9. Cur \in MapsOf(timeline) BY CurIsOne DEF TypeInv, Cur
<1>10. PlacedMap(Cur') BY <1>8, <1>9 DEF ReadInv, PlacedInv
<1>11. \A d \in Clients : op[d].name = "get" => HasChunks(Cur', op[d].meta, op[d].meta.chunk_count)
  BY <1>8 DEF ReadInv, GetInv, GetOK
<1> QED BY <1>1, <1>4, <1>5, <1>6, <1>7, <1>10, <1>11 DEF ReadStep, ReadBack

\* Write: the metadata goes where it belongs, and the chunks to another object
\* than any that is read.
LEMMA WriteRead ==
    ASSUME TypeInv, CoreInv, ReadInv, NEW c \in Clients, Write(c) PROVE \E o : ReadStep(c, o)
<1> DEFINE x == Head(op[c].queue)
           w == Written(op[c])
           u == Cur'
<1>1. /\ op[c].pc = "write" /\ x \in KVCall /\ Moves(c, w) /\ IsAfter(u, Cur, x)
      /\ MapsOf(timeline') = MapsOf(timeline) \cup {u}
  BY WriteMoves, Zenon
<1>2. op[c] \in OpState /\ OpOK(Cur, op[c]) /\ ShapeOK(op[c]) BY DEF TypeInv, CoreInv, ShapeInv
<1>3. op[c].queue \in Seq(KVCall) /\ op[c].queue # <<>> BY <1>1, <1>2 DEF OpOK, OpState
<1>4. op[c].name \in {"create", "put", "delete"} BY <1>1, <1>2 DEF ShapeOK, WhereOK
<1>5. w.name \in {op[c].name, ""} BY <1>2, IdleType DEF Written, OpState
<1>6. PICK L \in Nat \ {0} :
          /\ L = Len(op[c].queue) /\ Len(Tail(op[c].queue)) = L - 1 /\ x = op[c].queue[1]
          /\ Tail(op[c].queue) \in Seq(KVCall) /\ \A i \in 1..(L - 1) : Tail(op[c].queue)[i] = op[c].queue[i + 1]
          /\ DOMAIN op[c].queue = 1..L /\ DOMAIN Tail(op[c].queue) = 1..(L - 1)
  BY <1>3, TailFacts
<1>7. PlacedQueue(op[c]) BY DEF ReadInv, PlacedInv
<1>8. x.key.kind = "objmeta" => Placed(x.key, x.val) BY <1>6, <1>7 DEF PlacedQueue
<1>9. PlacedQueue(w)
  <2>1. CASE Tail(op[c].queue) # <<>>
    <3>1. w.queue = Tail(op[c].queue)
      <4>1. w = [op[c] EXCEPT !.queue = Tail(op[c].queue)] BY <2>1 DEF Written
      <4> DEFINE r == Tail(op[c].queue)
      <4> HIDE DEF r
      <4>2. [op[c] EXCEPT !.queue = r].queue = r BY <1>2 DEF OpState
      <4> QED BY <4>1, <4>2 DEF r
    <3>2. \A i \in 1..(L - 1) : i + 1 \in 1..L OBVIOUS
    <3> HIDE DEF w, x
    <3> QED BY <1>6, <1>7, <3>1, <3>2 DEF PlacedQueue
  <2>2. CASE Tail(op[c].queue) = <<>>
    <3>1. w.queue = <<>>
      <4>1. Idle.queue = <<>> BY IdleShape
      <4>2. [op[c] EXCEPT !.pc = "flush", !.queue = <<>>].queue = <<>> BY <1>2 DEF OpState
      <4> QED BY <2>2, <4>1, <4>2 DEF Written
    <3> QED BY <3>1, NothingPlaced
  <2> QED BY <2>1, <2>2
<1>10. \A k \in DOMAIN u : k.kind = "objmeta" =>
          \/ k \in DOMAIN Cur /\ u[k] = Cur[k] /\ k # x.key
          \/ k = x.key /\ u[k] = x.val
  BY <1>1, MetasAfter
<1>11. HeadOK(op[c]) BY <1>1, <1>2, WrittenShape
<1>12. x.key.kind = "objchunk" => InPut(op[c]) BY <1>11 DEF HeadOK
<1> HIDE DEF u, x, w
<1>13. PlacedMap(u)
  <2>1. Cur \in MapsOf(timeline) BY CurIsOne DEF TypeInv, Cur
  <2>2. PlacedMap(Cur) BY <2>1 DEF ReadInv, PlacedInv
  <2> QED BY <1>8, <1>10, <2>2 DEF PlacedMap
<1>14. ASSUME NEW d \in Clients \ {c}, op[d].name = "get"
       PROVE  HasChunks(u, op[d].meta, op[d].meta.chunk_count)
  <2>1. op[d].pc = "get" BY <1>14 DEF CoreInv, ShapeInv, ShapeOK, WhereOK
  <2>2. op[d].queue = <<>> /\ op[d].meta \in Meta /\ GetOK(Cur, op[d]) BY <1>14, <2>1, Reads
  <2>3. op[d].meta \in Held(op[d]) BY <2>1, <2>2, NoQueue
  <2>4. x.key.kind = "objchunk" => op[d].meta.object_id # PutMeta(op[c]).object_id
    BY <1>12, <1>14, <2>3 DEF CoreInv, FreshInv
  <2>5. op[d].meta.chunk_count \in Nat BY <2>2 DEF Meta
  <2>6. HasChunks(Cur, op[d].meta, op[d].meta.chunk_count) BY <2>2 DEF GetOK
  <2> QED BY <2>2, <2>4, <2>5, <2>6, ChunksStay DEF CoreInv, x, u
<1>15. ReadBack(op[c], w) BY <1>4 DEF ReadBack
<1> QED BY <1>1, <1>4, <1>5, <1>9, <1>13, <1>14, <1>15 DEF ReadStep, u

\* GcSweep: nothing is read.
LEMMA SweepRead ==
    ASSUME TypeInv, CoreInv, ReadInv, NEW c \in Clients, NEW y, GcSweep(c, y) PROVE \E o : ReadStep(c, o)
<1> DEFINE o == DoneWith(op[c], y)
           u == Cur'
<1>1. /\ op[c].pc = "sweep" /\ Moves(c, o)
      /\ \/ UNCHANGED timeline /\ u = Cur
         \/ IsErased(u, Cur, y) /\ MapsOf(timeline') = MapsOf(timeline) \cup {u}
  BY GcSweepMoves, Zenon
<1>2. op[c] \in OpState /\ ShapeOK(op[c]) BY DEF TypeInv, CoreInv, ShapeInv
<1>3. op[c].name = "gc" /\ op[c].queue = <<>> BY <1>1, <1>2 DEF ShapeOK, WhereOK, QueueOK
<1>4. o.name = "gc" /\ o.queue = <<>> BY <1>2, <1>3 DEF DoneWith, OpState
<1> HIDE DEF o, u
<1>5. PlacedQueue(o) BY <1>4, NothingPlaced
<1>6. \A d \in Clients : op[d].name # "get" BY <1>3 DEF ReadInv, ReadApartInv
<1>7. PlacedMap(Cur)
  <2>1. Cur \in MapsOf(timeline) BY CurIsOne DEF TypeInv, Cur
  <2> QED BY <2>1 DEF ReadInv, PlacedInv
<1>8. PlacedMap(u) /\ MapsOf(timeline') \subseteq MapsOf(timeline) \cup {u}
  <2>1. CASE UNCHANGED timeline /\ u = Cur BY <1>7, <2>1
  <2>2. CASE IsErased(u, Cur, y) /\ MapsOf(timeline') = MapsOf(timeline) \cup {u}
    BY <1>7, <2>2 DEF PlacedMap, IsErased
  <2> QED BY <1>1, <2>1, <2>2
<1> QED BY <1>1, <1>3, <1>4, <1>5, <1>6, <1>8 DEF ReadStep, ReadBack, u
\* Every step but a crash.
LEMMA ReadInvNext ==
    ASSUME PutGcApart, GetGcApart, NamesDiffer, TypeInv, CoreInv, ReadInv, Next, ~Crash PROVE ReadKept
<1>1. ASSUME NEW c \in Clients, \E o : ReadStep(c, o) PROVE ReadKept BY <1>1, ReadStepKeeps
<1>2. ASSUME NEW c \in Clients, NEW b \in Buckets, CreateBucket(c, b) PROVE ReadKept
  BY <1>1, <1>2, CreateRead
<1>3. ASSUME NEW c \in Clients, NEW req \in Requests, PutObject(c, req) PROVE ReadKept
  BY <1>1, <1>3, PutRead
<1>4. ASSUME NEW c \in Clients, NEW b \in Buckets, NEW k \in Keys, DeleteObject(c, b, k) PROVE ReadKept
  BY <1>1, <1>4, DeleteRead
<1>5. ASSUME NEW c \in Clients, NEW b \in Buckets, NEW k \in Keys, GetObject(c, b, k) PROVE ReadKept
  BY <1>1, <1>5, GetRead
<1>6. ASSUME NEW c \in Clients,
             \/ \E b \in Buckets, pre \in ListPrefixes : ListObjects(c, b, pre)
             \/ \E k \in op[c].todo : ListEntry(c, k) \/ GcMark(c, k)
             \/ GarbageCollectChunks(c) \/ GcScan(c)
      PROVE  ReadKept
  BY <1>1, <1>6, ScanRead
<1>7. ASSUME NEW c \in Clients, Write(c) PROVE ReadKept
  BY <1>1, <1>7, WriteRead
<1>8. ASSUME NEW c \in Clients, FlushFails(c) \/ GetReturn(c) \/ ListReturn(c) \/ Acknowledge(c) \/ GcReturn(c)
      PROVE  ReadKept
  BY <1>1, <1>8, ReturnRead
<1>9. ASSUME NEW c \in Clients, GetChunk(c) PROVE ReadKept
  BY <1>1, <1>9, GetChunkRead
<1>10. ASSUME NEW c \in Clients, NEW k \in op[c].todo, GcSweep(c, k) PROVE ReadKept
  BY <1>1, <1>10, SweepRead
<1>11. ASSUME Recover PROVE ReadKept
  <2>1. /\ UNCHANGED <<now, op, recent, count>> /\ \A c \in Clients : op[c] = Idle
        /\ MapsOf(timeline') \subseteq MapsOf(timeline)
    BY <1>11, RecoverMoves
  <2>2. \A c \in Clients : op'[c] = Idle /\ op[c].name = "" /\ op'[c].name = "" BY <2>1, IdleType
  <2>3. PlacedInv' BY <2>1, <2>2, IdleShape, NothingPlaced DEF ReadInv, PlacedInv
  <2> QED BY <2>2, <2>3 DEF ReadKept, ReadInv, ReadApartInv, GetInv, ReadBack
<1> QED BY <1>2, <1>3, <1>4, <1>5, <1>6, <1>7, <1>8, <1>9, <1>10, <1>11 DEF Next

\* GetObject reads one version (it reads the metadata and then one chunk per
\* call): under any overwrites and deletes on the way it misses no chunk and
\* returns exactly the bytes whose metadata it read, those of the object asked
\* for.  Collections must be kept apart, or they may sweep the version being
\* read; names must not join alike, or another object's metadata is read; and
\* the clock must move, or an overwrite reuses the chunks.
THEOREM ReadsAreWhole ==
    ASSUME PutGcApart, GetGcApart, ClockMoves, NamesDiffer PROVE Spec => ReadsWhole
<1>1. Init => TypeInv /\ CoreInv /\ ReadInv
  <2> SUFFICES ASSUME Init PROVE ReadInv
    BY TypeInvInit, CoreInvInit
  <2>1. \A c \in Clients : op[c] = Idle /\ op[c].name = "" BY IdleType DEF Init
  <2>2. \A m \in MapsOf(timeline) : DOMAIN m = {} BY DEF Init, MapsOf, KV!EmptyMap
  <2>3. PlacedInv BY <2>1, <2>2, IdleShape, NothingPlaced DEF PlacedInv, PlacedMap
  <2> QED BY <2>1, <2>3 DEF ReadInv, ReadApartInv, GetInv
<1>2. ASSUME TypeInv, CoreInv, ReadInv, Next
      PROVE  ReadInv' /\ \A c \in Clients : up' => ReadBack(op[c], op'[c])
  <2>1. CASE Crash
    <3>1. UNCHANGED <<timeline, now, recent>> /\ up' = FALSE /\ op' = [c \in Clients |-> Idle]
      BY <1>2, <2>1, CrashMoves, Zenon
    <3>2. \A c \in Clients : op'[c] = Idle /\ op'[c].name = "" BY <3>1, IdleType
    <3>3. PlacedInv' BY <1>2, <3>1, <3>2, IdleShape, NothingPlaced DEF ReadInv, PlacedInv
    <3>4. ReadInv' BY <3>2, <3>3 DEF ReadInv, ReadApartInv, GetInv
    <3> QED BY <3>1, <3>4
  <2>2. CASE ~Crash BY <1>2, <2>2, ReadInvNext DEF ReadKept
  <2> QED BY <2>1, <2>2
<1>3. ASSUME TypeInv, CoreInv, ReadInv, UNCHANGED vars PROVE ReadInv'
  BY <1>3 DEF vars, ReadInv, ReadApartInv, PlacedInv, GetInv, Cur
<1>4. TypeInv /\ CoreInv /\ ReadInv /\ [Next]_vars => (TypeInv /\ CoreInv /\ ReadInv)'
  BY <1>2, <1>3, TypeInvNext, CoreInvNext
<1>5. TypeInv /\ CoreInv /\ ReadInv /\ [Next]_vars =>
         [\A c \in Clients :
            op[c].pc = "get" /\ op'[c].pc = "idle" /\ up' =>
                /\ ~op'[c].error
                /\ op[c].data = op[c].meta.etag
                /\ op[c].meta.bucket = op[c].bucket /\ op[c].meta.key = op[c].key]_vars
  <2> SUFFICES ASSUME TypeInv, CoreInv, ReadInv, Next, NEW c \in Clients, op[c].pc = "get", op'[c].pc = "idle", up'
               PROVE  /\ ~op'[c].error
                      /\ op[c].data = op[c].meta.etag
                      /\ op[c].meta.bucket = op[c].bucket /\ op[c].meta.key = op[c].key
    OBVIOUS
  <2>1. op[c].name = "get" BY DEF CoreInv, ShapeInv, ShapeOK, WhereOK
  <2>2. ReadBack(op[c], op'[c]) BY <1>2
  <2> QED BY <2>1, <2>2 DEF ReadBack
<1> QED BY <1>1, <1>4, <1>5, PTL DEF Spec, ReadsWhole

-----------------------------------------------------------------------------
(* Listings.  The clock plays no part, nor do collections.                  *)

\* Callers keep puts and deletes apart, and no bucket's name continues
\* another's after a colon.
PutDeleteApart == {"put", "delete"} \in Serialized

BucketsDiffer == \A b, c \in Buckets : IsPrefix(b, c) => b = c

Entry(p) == [kind |-> "bucketidx", path |-> p]

NameOf(o) == o.bucket \o o.key

Changes(o) == o.name \in {"put", "delete"}

\* Metadata t is what an object with name p may have.
Own(p, t) ==
    /\ t.bucket \in Buckets /\ t.key \in Keys /\ t.key # <<>> /\ NameOf(t) = p
    /\ t.state # "Pending"

\* Call x of operation o writes to its own object, and only a delete removes.
CallOK(o, x) ==
    /\ x.key.kind = "objmeta" => x.key.path = NameOf(o) /\ Own(NameOf(o), x.val)
    /\ x.key.kind = "bucketidx" => x.key = Entry(NameOf(o))
    /\ x.call = "del" => o.name = "delete"

\* Only puts and deletes flush, and a delete writes the metadata first.
ChangeOK(o) ==
    /\ o.pc = "flush" => Changes(o)
    /\ Changes(o) =>
          /\ o.bucket \in Buckets /\ o.key \in Keys
          /\ \A j \in DOMAIN o.queue : CallOK(o, o.queue[j])
          /\ o.name = "delete" =>
                /\ Len(o.queue) = 2 => o.queue[1].key.kind = "objmeta" /\ o.queue[1].val.state = "Deleted"
                /\ Len(o.queue) <= 2

\* What it has written is in map m.
ChangedOK(m, o) ==
    /\ o.name = "put" /\ o.pc = "flush" => Entry(NameOf(o)) \in DOMAIN m
    /\ o.name = "delete" /\ Len(o.queue) < 2 => MetaIn(m, NameOf(o)).state = "Deleted"

\* Listing o shows readable, committed objects of its bucket, and has shown or
\* will visit each such object that is settled; r is recent.
SettledOK(r, o, t) ==
    /\ NameOf(t) \in Names /\ r[NameOf(t)] = {t}
    /\ Live(t) => t \in o.listed \/ Entry(NameOf(t)) \in o.todo

ListOK(r, o) ==
    o.name = "list" =>
        /\ o.bucket \in Buckets /\ \A k \in o.todo : IsPrefix(o.bucket, k.path)
        /\ \A t \in o.listed : t.bucket = o.bucket /\ Live(t)
        /\ \A t \in o.settled : SettledOK(r, o, t)

\* Operation o changes nothing that is settled for listing l.
Undisturbed(l, o) ==
    l.name = "list" /\ Changes(o) => \A t \in l.settled : NameOf(o) # NameOf(t)

ClashInv == \A c, d \in Clients : op[c].name = "put" => op[d].name # "delete"

ChangeInv == \A c \in Clients : ChangeOK(op[c]) /\ ChangedOK(Cur, op[c])

ShowInv ==
    /\ \A c \in Clients : ListOK(recent, op[c])
    /\ \A c, d \in Clients : Undisturbed(op[c], op[d])

\* Metadata is stored, and remembered, under the name of its object.
NameInv ==
    /\ \A m \in MapsOf(timeline) : \A k \in DOMAIN m : k.kind = "objmeta" => k.path \in Names
    /\ \A p \in Names : \A t \in recent[p] : t = NoMeta \/ Own(p, t)

\* An object whose only version is committed has its index entry in every map
\* a crash can leave.
EntryInv ==
    \A p \in Names : \A t \in recent[p] :
        recent[p] = {t} /\ t.state = "Committed" => \A m \in MapsOf(timeline) : Entry(p) \in DOMAIN m

ListInv == ShapeInv /\ ClashInv /\ ChangeInv /\ ShowInv /\ NameInv /\ EntryInv

\* What a listing that returns has shown.
ListBack(o, p) ==
    o.pc = "list" /\ p.pc = "idle" =>
        /\ \A t \in o.listed : t.bucket = o.bucket
        /\ \A t \in o.settled : t \in o.listed <=> Readable(t) /\ t.state = "Committed"

\* Client c goes on with locals o, and disturbs no put, delete or listing.
ListStep(c, o) ==
    /\ Moves(c, o) /\ ShapeOK(o) /\ ListBack(op[c], o)
    /\ ChangeOK(o) /\ ChangedOK(Cur', o) /\ ListOK(recent', o)
    /\ \A d \in Clients \ {c} :
          /\ o.name = "put" => op[d].name # "delete"
          /\ o.name = "delete" => op[d].name # "put"
          /\ ChangedOK(Cur', op[d])
          /\ Undisturbed(o, op[d]) /\ Undisturbed(op'[d], o)
          /\ op[d].name = "list" => \A t \in op'[d].settled : recent'[NameOf(t)] = recent[NameOf(t)]

ListKept == ListInv' /\ \A c \in Clients : ListBack(op[c], op'[c])

\* Locals that differ in their ghost only.
LEMMA SameList ==
    ASSUME NEW a, NEW b, Same(a, b)
    PROVE  /\ a.name = b.name /\ a.pc = b.pc
           /\ ChangeOK(a) => ChangeOK(b)
           /\ \A m : ChangedOK(m, a) => ChangedOK(m, b)
           /\ \A x : (Undisturbed(x, a) => Undisturbed(x, b)) /\ (Undisturbed(a, x) => Undisturbed(b, x))
           /\ \A r, s : ListOK(r, a) /\ (a.name = "list" => \A t \in b.settled : s[NameOf(t)] = r[NameOf(t)])
                           => ListOK(s, b)
<1>1. /\ a.pc = b.pc /\ a.name = b.name /\ a.bucket = b.bucket /\ a.key = b.key /\ a.queue = b.queue
      /\ a.todo = b.todo /\ a.listed = b.listed /\ b.settled \subseteq a.settled
  BY DEF Same
<1>2. NameOf(a) = NameOf(b) BY <1>1 DEF NameOf
<1>3. ChangeOK(a) => ChangeOK(b) BY <1>1, <1>2, Zenon DEF ChangeOK, CallOK, Changes
<1>4. \A m : ChangedOK(m, a) => ChangedOK(m, b) BY <1>1, <1>2, Zenon DEF ChangedOK
<1>5. \A x : (Undisturbed(x, a) => Undisturbed(x, b)) /\ (Undisturbed(a, x) => Undisturbed(b, x))
  BY <1>1, <1>2 DEF Undisturbed, Changes
<1>6. ASSUME NEW r, NEW s, ListOK(r, a), a.name = "list" => \A t \in b.settled : s[NameOf(t)] = r[NameOf(t)]
      PROVE  ListOK(s, b)
  <2> SUFFICES ASSUME b.name = "list" PROVE ListOK(s, b) BY DEF ListOK
  <2>1. \A t \in b.settled : SettledOK(s, b, t)
    BY <1>1, <1>6 DEF ListOK, SettledOK
  <2> QED BY <1>1, <1>6, <2>1 DEF ListOK
<1> QED BY <1>1, <1>3, <1>4, <1>5, <1>6

\* Such a step keeps the invariant, if the two files of names keep theirs.
LEMMA ListStepKeeps ==
    ASSUME TypeInv, ListInv, NEW c \in Clients, NEW o, ListStep(c, o), NameInv', EntryInv'
    PROVE  ListKept
<1>1. op'[c] = o /\ \A d \in Clients \ {c} : Same(op[d], op'[d]) BY DEF ListStep, Moves
<1>2. ShapeInv'
  <2> SUFFICES ASSUME NEW d \in Clients PROVE ShapeOK(op'[d]) BY DEF ShapeInv
  <2>1. CASE d = c BY <1>1, <2>1 DEF ListStep
  <2>2. CASE d # c
    <3>1. ShapeOK(op[d]) BY DEF ListInv, ShapeInv
    <3> QED BY <1>1, <2>2, <3>1, SameShape
  <2> QED BY <2>1, <2>2
<1>3. ClashInv'
  <2> SUFFICES ASSUME NEW a \in Clients, NEW d \in Clients, op'[a].name = "put", op'[d].name = "delete" PROVE FALSE
    BY DEF ClashInv
  <2>1. \A e \in Clients \ {c} : op'[e].name = op[e].name BY <1>1, SameList
  <2>2. CASE a = c /\ d # c BY <1>1, <2>1, <2>2 DEF ListStep
  <2>3. CASE a # c /\ d = c BY <1>1, <2>1, <2>3 DEF ListStep
  <2>4. CASE a # c /\ d # c BY <2>1, <2>4 DEF ListInv, ClashInv
  <2> QED BY <2>2, <2>3, <2>4
<1>4. ChangeInv'
  <2> SUFFICES ASSUME NEW d \in Clients PROVE ChangeOK(op'[d]) /\ ChangedOK(Cur', op'[d])
    BY DEF ChangeInv
  <2>1. CASE d = c BY <1>1, <2>1 DEF ListStep
  <2>2. CASE d # c
    <3>1. ChangeOK(op[d]) /\ ChangedOK(Cur', op[d]) BY <2>2 DEF ListInv, ChangeInv, ListStep
    <3>2. Same(op[d], op'[d]) BY <1>1, <2>2
    <3> QED BY <3>1, <3>2, SameList
  <2> QED BY <2>1, <2>2
<1>5. ASSUME NEW d \in Clients PROVE ListOK(recent', op'[d])
  <2>1. CASE d = c BY <1>1, <2>1 DEF ListStep
  <2>2. CASE d # c
    <3>1. ListOK(recent, op[d]) BY DEF ListInv, ShowInv
    <3>2. Same(op[d], op'[d]) BY <1>1, <2>2
    <3>3. op[d].name = "list" => \A t \in op'[d].settled : recent'[NameOf(t)] = recent[NameOf(t)]
      BY <2>2 DEF ListStep
    <3> QED BY <3>1, <3>2, <3>3, SameList
  <2> QED BY <2>1, <2>2
<1>6. ASSUME NEW a \in Clients, NEW d \in Clients PROVE Undisturbed(op'[a], op'[d])
  <2>1. CASE a = c /\ d = c
    <3> QED BY <1>1, <2>1 DEF Undisturbed, Changes
  <2>2. CASE a = c /\ d # c
    <3>1. Undisturbed(o, op[d]) BY <2>2 DEF ListStep
    <3> QED BY <1>1, <2>2, <3>1, SameList
  <2>3. CASE a # c /\ d = c BY <1>1, <2>3 DEF ListStep
  <2>4. CASE a # c /\ d # c
    <3>1. Undisturbed(op[a], op[d]) BY DEF ListInv, ShowInv
    <3>2. Same(op[a], op'[a]) /\ Same(op[d], op'[d]) BY <1>1, <2>4
    <3>3. Undisturbed(op'[a], op[d]) BY <3>1, <3>2, SameList
    <3> QED BY <3>2, <3>3, SameList
  <2> QED BY <2>1, <2>2, <2>3, <2>4
<1>7. ShowInv' BY <1>5, <1>6 DEF ShowInv
<1>8. ASSUME NEW d \in Clients PROVE ListBack(op[d], op'[d])
  <2>1. CASE d = c BY <1>1, <2>1 DEF ListStep
  <2>2. CASE d # c
    <3>1. op'[d].pc = op[d].pc BY <1>1, <2>2, SameList
    <3> QED BY <3>1 DEF ListBack
  <2> QED BY <2>1, <2>2
<1>9. ListInv' BY <1>2, <1>3, <1>4, <1>7 DEF ListInv
<1> QED BY <1>8, <1>9 DEF ListKept

\* An operation that changes no object.
LEMMA NoChange ==
    ASSUME NEW o, ~Changes(o), o.pc # "flush"
    PROVE  /\ ChangeOK(o) /\ o.name \notin {"put", "delete"}
           /\ (\A m : ChangedOK(m, o)) /\ \A l : Undisturbed(l, o)
  BY DEF ChangeOK, ChangedOK, Changes, Undisturbed

\* A step that leaves the store alone and changes no object.
LEMMA QuietList ==
    ASSUME TypeInv, ListInv, NEW c \in Clients, NEW o, Moves(c, o), UNCHANGED <<timeline, recent>>,
           ShapeOK(o), ~Changes(o), o.pc # "flush", ListBack(op[c], o), ListOK(recent, o),
           \A d \in Clients \ {c} : Undisturbed(o, op[d])
    PROVE  ListKept
<1>1. timeline' = timeline /\ recent' = recent /\ Cur' = Cur BY DEF Cur
<1>2. NameInv' /\ EntryInv' BY <1>1 DEF ListInv, NameInv, EntryInv
<1>3. /\ ChangeOK(o) /\ o.name \notin {"put", "delete"}
      /\ (\A m : ChangedOK(m, o)) /\ \A l : Undisturbed(l, o)
  BY NoChange
<1>4. \A d \in Clients \ {c} : ChangedOK(Cur', op[d]) BY <1>1 DEF ListInv, ChangeInv
<1>5. ListStep(c, o) BY <1>1, <1>3, <1>4 DEF ListStep
<1> QED BY <1>2, <1>5, ListStepKeeps

\* An operation that is not a listing.
LEMMA NoList ==
    ASSUME NEW o, o.name # "list" PROVE (\A r : ListOK(r, o)) /\ \A x : Undisturbed(o, x)
  BY DEF ListOK, Undisturbed

-----------------------------------------------------------------------------
(* Names and their prefixes.                                                *)

\* s is a prefix of t if t begins with the elements of s.
LEMMA PrefixElems ==
    ASSUME NEW s \in Seq(Nat), NEW t \in Seq(Int)
    PROVE  IsPrefix(s, t) <=> Len(s) <= Len(t) /\ \A i \in 1..Len(s) : s[i] = t[i]
<1>1. Len(s) \in Nat /\ Len(t) \in Nat OBVIOUS
<1>2. SubSeq(s, 1, Len(s)) = s OBVIOUS
<1> DEFINE n == Len(s)
           u == SubSeq(t, 1, n)
<1> SUFFICES ASSUME n <= Len(t) PROVE s = u <=> \A i \in 1..n : s[i] = t[i]
  BY <1>2 DEF IsPrefix
<1>3. Len(u) = n /\ (\A i \in 1..n : u[i] = t[i]) /\ u \in Seq(Int)
  BY <1>1
<1>4. s = [i \in 1..n |-> s[i]] /\ u = [i \in 1..n |-> u[i]]
  BY <1>3
<1> HIDE DEF u
<1>5. ASSUME s = u, NEW i \in 1..n PROVE s[i] = t[i] BY <1>3, <1>5
<1>6. ASSUME \A i \in 1..n : s[i] = t[i] PROVE s = u
  <2>1. \A i \in 1..n : s[i] = u[i] BY <1>3, <1>6
  <2> QED BY <1>4, <2>1
<1> QED BY <1>5, <1>6

\* The parts of a joined name.
LEMMA Joined ==
    ASSUME NEW b \in Seq(Nat), NEW k \in Seq(Nat)
    PROVE  /\ b \o k \in Seq(Nat) /\ b \o k \in Seq(Int) /\ Len(b \o k) = Len(b) + Len(k)
           /\ Len(b) \in Nat /\ Len(k) \in Nat
           /\ \A i \in 1..Len(b) : (b \o k)[i] = b[i]
           /\ \A i \in 1..Len(k) : (b \o k)[Len(b) + i] = k[i]
<1>1. Len(b) \in Nat /\ Len(k) \in Nat OBVIOUS
<1>2. /\ b \o k \in Seq(Nat) /\ Len(b \o k) = Len(b) + Len(k)
      /\ \A i \in 1..(Len(b) + Len(k)) : (b \o k)[i] = IF i <= Len(b) THEN b[i] ELSE k[i - Len(b)]
  BY ConcatProperties
<1>3. b \o k \in Seq(Int) BY NameTypes
<1>4. \A i \in 1..Len(b) : (b \o k)[i] = b[i] BY <1>1, <1>2
<1>5. ASSUME NEW i \in 1..Len(k) PROVE (b \o k)[Len(b) + i] = k[i]
  <2>1. Len(b) + i \in 1..(Len(b) + Len(k)) /\ ~(Len(b) + i <= Len(b)) /\ (Len(b) + i) - Len(b) = i
    BY <1>1
  <2> QED BY <1>2, <2>1
<1> QED BY <1>1, <1>2, <1>3, <1>4, <1>5

\* A bucket whose name a joined name begins with is the bucket joined.
LEMMA BucketOfName ==
    ASSUME BucketsDiffer, NEW b \in Buckets, NEW c \in Buckets, NEW k \in Seq(Nat), IsPrefix(b, c \o k)
    PROVE  b = c
<1>1. b \in Seq(Nat) /\ c \in Seq(Nat) /\ b \in Seq(Int) /\ c \in Seq(Int)
  <2>1. b \in Seq(Nat) /\ c \in Seq(Nat) BY ObjectStoreAssumption
  <2> QED BY <2>1, NameTypes
<1> DEFINE n == c \o k
<1>2. /\ n \in Seq(Int) /\ Len(b) \in Nat /\ Len(c) \in Nat
      /\ \A i \in 1..Len(c) : n[i] = c[i]
  BY <1>1, Joined
<1> HIDE DEF n
<1>3. \A i \in 1..Len(b) : b[i] = n[i] BY <1>1, <1>2, PrefixElems DEF n
<1>4. CASE Len(b) <= Len(c)
  <2>1. \A i \in 1..Len(b) : b[i] = c[i] BY <1>2, <1>3, <1>4
  <2>2. IsPrefix(b, c) BY <1>1, <1>4, <2>1, PrefixElems
  <2> QED BY <2>2 DEF BucketsDiffer
<1>5. CASE Len(c) <= Len(b)
  <2>1. \A i \in 1..Len(c) : c[i] = b[i] BY <1>2, <1>3, <1>5
  <2>2. IsPrefix(c, b) BY <1>1, <1>5, <2>1, PrefixElems
  <2> QED BY <2>2 DEF BucketsDiffer
<1> QED BY <1>2, <1>4, <1>5

\* So names of objects in different buckets, or with different keys, differ.
LEMMA ObjectOfName ==
    ASSUME BucketsDiffer, NEW b \in Buckets, NEW c \in Buckets, NEW k \in Keys, NEW l \in Keys,
           b \o k = c \o l
    PROVE  b = c /\ k = l
<1>1. b \in Seq(Nat) /\ c \in Seq(Nat) /\ k \in Seq(Nat) /\ l \in Seq(Nat)
  BY ObjectStoreAssumption
<1>2. /\ b \o k \in Seq(Int) /\ Len(b \o k) = Len(b) + Len(k) /\ Len(b) \in Nat /\ Len(k) \in Nat
      /\ \A i \in 1..Len(b) : (b \o k)[i] = b[i]
      /\ \A i \in 1..Len(k) : (b \o k)[Len(b) + i] = k[i]
  BY <1>1, Joined
<1>3. /\ Len(c \o l) = Len(c) + Len(l) /\ Len(l) \in Nat /\ Len(c) \in Nat
      /\ \A i \in 1..Len(l) : (c \o l)[Len(c) + i] = l[i]
  BY <1>1, Joined
<1>4. Len(b) <= Len(b \o k) BY <1>2
<1>5. IsPrefix(b, b \o k)
  BY <1>1, <1>2, <1>4, PrefixElems
<1>6. b = c BY <1>1, <1>5, BucketOfName
<1>7. Len(k) = Len(l) BY <1>2, <1>3, <1>6
<1>8. \A i \in 1..Len(k) : k[i] = l[i] BY <1>2, <1>3, <1>6, <1>7
<1>9. k = [i \in 1..Len(k) |-> k[i]] /\ l = [i \in 1..Len(l) |-> l[i]] BY <1>1
<1> QED BY <1>6, <1>7, <1>8, <1>9

\* The index keys a listing of bucket b visits are keys of that bucket, and
\* those of its objects whose key begins with pre are among them.
LEMMA Visited ==
    ASSUME NEW b \in Seq(Nat), NEW pre \in Seq(Nat)
    PROVE  /\ \A s \in Seq(Int) : IsPrefix(b \o pre, s) => IsPrefix(b, s)
           /\ \A k \in Seq(Nat) : k # <<>> /\ IsPrefix(pre, k) =>
                 IsPrefix(b \o pre, b \o k) /\ Len(b \o k) > Len(b)
<1>1. /\ b \o pre \in Seq(Nat) /\ b \o pre \in Seq(Int) /\ Len(b \o pre) = Len(b) + Len(pre)
      /\ Len(b) \in Nat /\ Len(pre) \in Nat
      /\ \A i \in 1..Len(b) : (b \o pre)[i] = b[i]
      /\ \A i \in 1..Len(pre) : (b \o pre)[Len(b) + i] = pre[i]
  BY Joined
<1> DEFINE n == b \o pre
<1>2. ASSUME NEW s \in Seq(Int), IsPrefix(n, s) PROVE IsPrefix(b, s)
  <2>1. Len(s) \in Nat OBVIOUS
  <2> HIDE DEF n
  <2>2. Len(n) <= Len(s) /\ \A i \in 1..Len(n) : n[i] = s[i] BY <1>1, <1>2, PrefixElems DEF n
  <2>3. Len(b) <= Len(s) /\ \A i \in 1..Len(b) : b[i] = s[i] BY <1>1, <2>1, <2>2 DEF n
  <2> QED BY <2>3, PrefixElems
<1>3. ASSUME NEW k \in Seq(Nat), k # <<>>, IsPrefix(pre, k)
      PROVE  IsPrefix(n, b \o k) /\ Len(b \o k) > Len(b)
  <2> DEFINE u == b \o k
  <2>1. /\ u \in Seq(Int) /\ Len(u) = Len(b) + Len(k) /\ Len(k) \in Nat /\ k \in Seq(Int)
        /\ \A i \in 1..Len(b) : u[i] = b[i]
        /\ \A i \in 1..Len(k) : u[Len(b) + i] = k[i]
    BY Joined, NameTypes
  <2>2. Len(k) # 0 BY <1>3, EmptySeq
  <2>3. Len(pre) <= Len(k) /\ \A i \in 1..Len(pre) : pre[i] = k[i] BY <1>3, <2>1, PrefixElems
  <2> HIDE DEF u, n
  <2>4. ASSUME NEW i \in 1..Len(n) PROVE n[i] = u[i]
    <3>1. CASE i <= Len(b) BY <1>1, <2>1, <3>1 DEF n
    <3>2. CASE i > Len(b)
      <4>1. PICK j \in 1..Len(pre) : i = Len(b) + j
        <5>1. i - Len(b) \in 1..Len(pre) /\ i = Len(b) + (i - Len(b)) BY <1>1, <3>2 DEF n
        <5> QED BY <5>1
      <4>2. j \in 1..Len(k) BY <1>1, <2>1, <2>3
      <4> QED BY <1>1, <2>1, <2>3, <4>1, <4>2 DEF n
    <3> QED BY <1>1, <3>1, <3>2 DEF n
  <2>5. Len(n) <= Len(u) /\ Len(u) > Len(b) BY <1>1, <2>1, <2>2, <2>3 DEF n
  <2>6. IsPrefix(n, u) BY <1>1, <2>1, <2>4, <2>5, PrefixElems DEF n
  <2> QED BY <2>5, <2>6 DEF u
<1> QED BY <1>2, <1>3

-----------------------------------------------------------------------------
(* Steps that leave the store alone.                                        *)

\* A step of an operation that neither lists nor changes anything.
LEMMA OtherList ==
    ASSUME TypeInv, ListInv, NEW c \in Clients, NEW o, Quiet(c, o), o.queue = <<>>, WhereOK(o),
           o.name \in {"", "get", "gc"}, op[c].pc # "list"
    PROVE  ListKept
<1>1. Moves(c, o) /\ UNCHANGED <<timeline, recent>> BY DEF Quiet
<1>2. ShapeOK(o) BY NoQueue DEF ShapeOK
<1>3. ~Changes(o) /\ o.name # "list" /\ o.pc # "flush" BY DEF Changes, WhereOK
<1>4. ListBack(op[c], o) BY DEF ListBack
<1>5. ListOK(recent, o) /\ \A d \in Clients \ {c} : Undisturbed(o, op[d]) BY <1>3, NoList
<1> QED BY <1>1, <1>2, <1>3, <1>4, <1>5, QuietList

\* FlushFails and GetReturn.
LEMMA ReturnList ==
    ASSUME TypeInv, ListInv, NEW c \in Clients, FlushFails(c) \/ GetReturn(c) PROVE ListKept
<1>1. Quiet(c, Idle) BY ReturnMoves
<1>2. op[c].pc # "list" BY DEF FlushFails, GetReturn
<1> QED BY <1>1, <1>2, IdleShape, IdleType, OtherList

\* GetObject.
LEMMA GetList ==
    ASSUME TypeInv, ListInv, NEW c \in Clients, NEW b \in Buckets, NEW k \in Keys, GetObject(c, b, k)
    PROVE  ListKept
<1>1. PICK t \in Meta : op[c].pc = "idle" /\ Quiet(c, Reading(b, k, t)) BY GetObjectMoves
<1> DEFINE o == Reading(b, k, t)
<1>2. o.pc = "get" /\ o.name = "get" /\ o.queue = Idle.queue BY IdleType DEF Reading, OpState
<1> HIDE DEF o
<1>3. o.queue = <<>> /\ WhereOK(o) BY <1>2, IdleShape DEF WhereOK
<1>4. Quiet(c, o) BY <1>1 DEF o
<1> QED BY <1>1, <1>2, <1>3, <1>4, OtherList

\* GetChunk.
LEMMA GetChunkList ==
    ASSUME TypeInv, ListInv, NEW c \in Clients, GetChunk(c) PROVE ListKept
<1> DEFINE k == NextChunk(op[c])
           u == [op[c] EXCEPT !.i = @ + 1, !.data = @ \o Cur[k]]
           e == [Idle EXCEPT !.error = TRUE]
<1>1. op[c].pc = "get" /\ (Quiet(c, u) \/ Quiet(c, e)) BY GetChunkMoves
<1>2. ShapeOK(op[c]) /\ op[c] \in OpState BY DEF ListInv, ShapeInv, TypeInv
<1>3. op[c].name = "get" /\ op[c].queue = <<>> BY <1>1, <1>2 DEF ShapeOK, WhereOK, QueueOK
<1>4. u.pc = op[c].pc /\ u.name = op[c].name /\ u.queue = op[c].queue BY <1>2 DEF OpState
<1>5. e.pc = "idle" /\ e.name = "" /\ e.queue = Idle.queue BY IdleType DEF OpState
<1> HIDE DEF u, e
<1>6. WhereOK(u) /\ WhereOK(e) BY <1>1, <1>3, <1>4, <1>5 DEF WhereOK
<1> QED BY <1>1, <1>3, <1>4, <1>5, <1>6, IdleShape, OtherList

\* GarbageCollectChunks, GcMark and GcScan.
LEMMA MarkList ==
    ASSUME TypeInv, ListInv, NEW c \in Clients,
           GarbageCollectChunks(c) \/ GcScan(c) \/ \E k \in op[c].todo : GcMark(c, k)
    PROVE  ListKept
<1>1. ShapeOK(op[c]) /\ op[c] \in OpState BY DEF ListInv, ShapeInv, TypeInv
<1>2. ASSUME op[c].pc = "mark" PROVE op[c].name = "gc" /\ op[c].queue = <<>>
  BY <1>1, <1>2 DEF ShapeOK, WhereOK, QueueOK
<1>3. CASE GarbageCollectChunks(c)
  <2>1. PICK K, G : op[c].pc = "idle" /\ Quiet(c, Marking(K, G)) BY <1>3, CollectMoves
  <2> DEFINE o == Marking(K, G)
  <2>2. o.pc = "mark" /\ o.name = "gc" /\ o.queue = Idle.queue BY IdleType DEF Marking, OpState
  <2> HIDE DEF o
  <2>3. WhereOK(o) /\ o.queue = <<>> BY <2>2, IdleShape DEF WhereOK
  <2> QED BY <2>1, <2>2, <2>3, OtherList DEF o
<1>4. CASE GcScan(c)
  <2>1. PICK K : op[c].pc = "mark" /\ Quiet(c, Sweeping(op[c], K)) BY <1>4, GcScanMoves
  <2> DEFINE o == Sweeping(op[c], K)
  <2>2. o.pc = "sweep" /\ o.name = op[c].name /\ o.queue = op[c].queue BY <1>1 DEF Sweeping, OpState
  <2> HIDE DEF o
  <2>3. WhereOK(o) BY <1>2, <2>1, <2>2 DEF WhereOK
  <2> QED BY <1>2, <2>1, <2>2, <2>3, OtherList DEF o
<1>5. ASSUME NEW k \in op[c].todo, GcMark(c, k) PROVE ListKept
  <2> DEFINE I == {m.object_id : m \in {x \in {Deserialize(Cur[k])} : KeepsChunks(x)}}
             o == [op[c] EXCEPT !.todo = @ \ {k}, !.reachable = @ \cup I]
  <2>1. op[c].pc = "mark" /\ Quiet(c, o) BY <1>5, GcMarkMoves DEF Marked
  <2> HIDE DEF I
  <2>2. o.pc = op[c].pc /\ o.name = op[c].name /\ o.queue = op[c].queue BY <1>1 DEF OpState
  <2> HIDE DEF o
  <2>3. WhereOK(o) BY <1>2, <2>1, <2>2 DEF WhereOK
  <2> QED BY <1>2, <2>1, <2>2, <2>3, OtherList
<1> QED BY <1>3, <1>4, <1>5

\* CreateBucket.
LEMMA CreateList ==
    ASSUME TypeInv, ListInv, NEW c \in Clients, NEW b \in Buckets, CreateBucket(c, b) PROVE ListKept
<1> DEFINE q == <<PutCall(BucketMetaKey(b), b)>>
           o == Begun("create", <<>>, <<>>, q)
<1>1. q \in Seq(KVCall) /\ Len(q) = 1 /\ q[1] = PutCall(BucketMetaKey(b), b) /\ Moves(c, o)
  BY CreateBucketMoves
<1> HIDE DEF q
<1>2. ShapeOK(o) /\ o.name = "create" BY <1>1, CreateBegun
<1>3. UNCHANGED <<timeline, recent>> BY DEF CreateBucket
<1>4. op[c].pc = "idle" BY CalledType DEF CreateBucket
<1>5. o.pc = "write" BY IdleType DEF Begun, OpState
<1> HIDE DEF o
<1>6. ~Changes(o) /\ o.name # "list" /\ o.pc # "flush" BY <1>2, <1>5 DEF Changes
<1>7. ListBack(op[c], o) BY <1>4 DEF ListBack
<1>8. ListOK(recent, o) /\ \A d \in Clients \ {c} : Undisturbed(o, op[d]) BY <1>6, NoList
<1> QED BY <1>1, <1>2, <1>3, <1>6, <1>7, <1>8, QuietList

-----------------------------------------------------------------------------
(* ListObjects.                                                             *)

\* A listing is at its loop, with nothing to write.
LEMMA AtLoop ==
    ASSUME TypeInv, ListInv, NEW c \in Clients, op[c].pc = "list"
    PROVE  op[c].name = "list" /\ op[c].queue = <<>>
<1>1. ShapeOK(op[c]) /\ op[c] \in OpState BY DEF ListInv, ShapeInv, TypeInv
<1> QED BY <1>1 DEF ShapeOK, WhereOK, QueueOK, OpState, OpNames

\* Metadata that is readable and committed.
LEMMA LiveIsShown ==
    ASSUME NEW t \in Meta
    PROVE  /\ Live(t) <=> Readable(t) /\ t.state = "Committed"
           /\ Live(t) => Deserialize(t) = t /\ t # NoMeta /\ t.state # "Deleted"
           /\ NoMeta.state = "Pending" /\ NoMeta.bucket = <<>>
<1>1. NoMeta.state = "Pending" /\ NoMeta.bucket = <<>> BY DEF NoMeta
<1>2. Readable(t) /\ t.state = "Committed" => Live(t) BY DEF Readable, Deserialize, Live
<1>3. Live(t) => Deserialize(t) = t /\ t # NoMeta /\ t.state # "Deleted"
  BY <1>1 DEF Live, Deserialize
<1> QED BY <1>1, <1>2, <1>3 DEF Readable, Live

\* ListReturn: everything settled was visited.
LEMMA ListReturnList ==
    ASSUME TypeInv, ListInv, NEW c \in Clients, ListReturn(c) PROVE ListKept
<1>1. Quiet(c, Idle) BY ReturnMoves
<1>2. op[c].pc = "list" /\ op[c].todo = {} BY DEF ListReturn
<1>3. op[c].name = "list" /\ op[c] \in OpState BY <1>2, AtLoop DEF TypeInv
<1>4. ListOK(recent, op[c]) BY DEF ListInv, ShowInv
<1>5. ASSUME NEW t \in op[c].settled PROVE t \in op[c].listed <=> Readable(t) /\ t.state = "Committed"
  <2>1. t \in Meta BY <1>3 DEF OpState
  <2>2. Live(t) => t \in op[c].listed BY <1>2, <1>3, <1>4 DEF ListOK, SettledOK
  <2>3. t \in op[c].listed => Live(t) BY <1>3, <1>4 DEF ListOK
  <2> QED BY <2>1, <2>2, <2>3, LiveIsShown
<1>6. ListBack(op[c], Idle) BY <1>3, <1>4, <1>5 DEF ListBack, ListOK
<1>7. Moves(c, Idle) /\ UNCHANGED <<timeline, recent>> BY <1>1 DEF Quiet
<1>8. ~Changes(Idle) /\ Idle.name # "list" /\ Idle.pc # "flush" BY IdleType DEF Changes
<1>9. ListOK(recent, Idle) /\ \A d \in Clients \ {c} : Undisturbed(Idle, op[d]) BY <1>8, NoList
<1> QED BY <1>6, <1>7, <1>8, <1>9, IdleShape, QuietList

\* ListObjects: each live object that is settled has its entry.
LEMMA ListObjectsList ==
    ASSUME BucketsDiffer, TypeInv, ListInv, NEW c \in Clients, NEW b \in Buckets, NEW pre \in ListPrefixes,
           ListObjects(c, b, pre)
    PROVE  ListKept
<1> DEFINE K == {k \in ListKeys("bucketidx") : IsPrefix(b \o pre, k.path) /\ Len(k.path) > Len(b)}
           S == Settled(b, pre)
           o == Listing(b, K, S)
<1>1. PICK w : w.queue = <<>> /\ w.pc = "list" /\ w.name = "list" /\ op[c].pc = "idle" /\ Quiet(c, w)
  BY ListObjectsMoves
<1>2. Moves(c, w) /\ UNCHANGED <<timeline, recent>> BY <1>1 DEF Quiet
<1>3. w = o
  <2>1. Goto(c, o) BY DEF ListObjects, Listing
  <2>2. op \in [Clients -> OpState] BY DEF TypeInv
  <2> HIDE DEF o
  <2>3. op'[c] = o BY <2>1, <2>2 DEF Goto
  <2> QED BY <1>2, <2>3 DEF Moves
<1>4. b \in Seq(Nat) /\ pre \in Seq(Nat) /\ b # <<>>
  <2>1. BucketExists(b) BY DEF ListObjects
  <2> QED BY <2>1, ObjectStoreAssumption DEF BucketExists
<1>5. Cur \in KVMap /\ Cur \in MapsOf(timeline) /\ DOMAIN Cur \subseteq KVKey
  <2>1. Cur \in KVMap /\ Cur \in MapsOf(timeline) BY CurIsOne DEF TypeInv, Cur
  <2> QED BY <2>1, MapFields
<1>6. K = {k \in DOMAIN Cur : k.kind = "bucketidx" /\ IsPrefix(b \o pre, k.path) /\ Len(k.path) > Len(b)}
  BY DEF ListKeys, KV!Current, Cur, CurOf
<1>7. ASSUME NEW t \in S
      PROVE  /\ t \in Meta /\ t.bucket = b /\ t.key \in Keys /\ t.key # <<>> /\ t.key \in Seq(Nat)
             /\ NameOf(t) \in Names /\ t \in recent[NameOf(t)] /\ recent[NameOf(t)] = {t} /\ IsPrefix(pre, t.key)
  <2>1. /\ t.bucket = b /\ recent[t.bucket \o t.key] = {t} /\ IsPrefix(pre, t.key)
        /\ \E p \in DOMAIN recent : t \in recent[p]
    BY <1>7 DEF Settled
  <2>2. PICK p \in Names : t \in recent[p] /\ t \in Meta BY <2>1 DEF TypeInv
  <2>3. t # NoMeta BY <1>4, <2>1, <2>2, LiveIsShown
  <2>4. Own(p, t) BY <2>2, <2>3 DEF ListInv, NameInv
  <2> QED BY <2>1, <2>2, <2>4, ObjectStoreAssumption DEF Own, NameOf
<1>8. o.bucket = b /\ o.todo = K /\ o.settled = S /\ o.listed = {} /\ o.name = "list"
  <2> HIDE DEF K, S
  <2>1. o.bucket = b /\ o.todo = K /\ o.settled = S /\ o.listed = Idle.listed /\ o.name = "list"
    BY IdleType DEF Listing, OpState
  <2>2. Idle.listed = {} BY DEF Idle
  <2> QED BY <2>1, <2>2
<1>9. \A k \in K : IsPrefix(b, k.path)
  <2> TAKE k \in K
  <2>1. k \in KVKey /\ IsPrefix(b \o pre, k.path) BY <1>5, <1>6
  <2>2. k.path \in Seq(Int) BY <2>1 DEF KVKey
  <2> QED BY <1>4, <2>1, <2>2, Visited
<1>10. ASSUME NEW t \in S PROVE SettledOK(recent, o, t)
  <2> SUFFICES ASSUME Live(t) PROVE Entry(NameOf(t)) \in K
    BY <1>7, <1>8 DEF SettledOK
  <2>1. Entry(NameOf(t)) \in DOMAIN Cur
    BY <1>5, <1>7 DEF ListInv, EntryInv, Live
  <2>2. IsPrefix(b \o pre, NameOf(t)) /\ Len(NameOf(t)) > Len(b)
    BY <1>4, <1>7, Visited DEF NameOf
  <2>3. Entry(NameOf(t)).kind = "bucketidx" /\ Entry(NameOf(t)).path = NameOf(t) BY DEF Entry
  <2> HIDE DEF K, S
  <2> QED BY <1>6, <2>1, <2>2, <2>3
<1>11. ASSUME NEW d \in Clients \ {c} PROVE Undisturbed(o, op[d])
  <2> SUFFICES ASSUME Changes(op[d]), NEW t \in S, NameOf(op[d]) = NameOf(t) PROVE FALSE
    BY <1>8 DEF Undisturbed
  <2>1. op[d].bucket \in Buckets /\ op[d].key \in Keys BY DEF ListInv, ChangeInv, ChangeOK
  <2>2. op[d].bucket = b /\ op[d].key = t.key
    <3>1. t.key \in Keys /\ op[d].bucket \o op[d].key = b \o t.key BY <1>7 DEF NameOf
    <3>2. \A x \in Buckets, y, l \in Keys : x \o y = b \o l => x = b /\ y = l BY ObjectOfName
    <3> DEFINE x == op[d].bucket
               y == op[d].key
               l == t.key
    <3>3. x \in Buckets /\ y \in Keys /\ l \in Keys /\ x \o y = b \o l BY <2>1, <3>1
    <3> HIDE DEF x, y, l
    <3>4. x = b /\ y = l BY <3>2, <3>3
    <3> QED BY <3>4 DEF x, y, l
  <2>3. ~(op[d].name \in {"put", "delete"} /\ op[d].bucket = b /\ op[d].key = t.key) BY DEF Settled
  <2> QED BY <2>2, <2>3 DEF Changes
<1> HIDE DEF K, S, o
<1>12. ListOK(recent, o) BY <1>8, <1>9, <1>10 DEF ListOK
<1>13. ShapeOK(w) BY <1>1, NoQueue DEF ShapeOK, WhereOK
<1>14. ListBack(op[c], o) BY <1>1 DEF ListBack
<1>15. ~Changes(o) /\ o.pc # "flush" BY <1>1, <1>3, <1>8 DEF Changes
<1> QED BY <1>2, <1>3, <1>11, <1>12, <1>13, <1>14, <1>15, QuietList

\* What is stored, in terms of the current map.
LEMMA StoredIsMetaIn == \A p : StoredMeta(p) = MetaIn(Cur, p)
  BY DEF StoredMeta, MetaIn, Has, Get, KV!Current, Cur, CurOf

\* What ListObjects shows for an index key of bucket b.
LEMMA ShownIsLive ==
    ASSUME BucketsDiffer, TypeInv, AckInv, ListInv, NEW b \in Buckets, NEW k, IsPrefix(b, k.path),
           NEW t \in Shown(k)
    PROVE  t.bucket = b /\ Live(t)
<1> DEFINE s == StoredMeta(k.path)
           x == [kind |-> "objmeta", path |-> k.path]
<1>1. s \in Meta /\ t = Deserialize(s) /\ t # NoMeta /\ t.state # "Deleted" BY StoredMetaType DEF Shown
<1>2. s = t /\ Len(t.content_type) = 1 BY <1>1 DEF Deserialize
<1>3. x \in DOMAIN Cur
  <2>1. s = IF x \in DOMAIN Cur THEN Cur[x] ELSE NoMeta BY StoredIsMetaIn DEF MetaIn
  <2> QED BY <1>1, <1>2, <2>1
<1>4. Cur \in MapsOf(timeline) BY CurIsOne DEF TypeInv, Cur
<1>5. k.path \in Names BY <1>3, <1>4 DEF ListInv, NameInv
<1>6. t \in recent[k.path] BY <1>2, <1>4, <1>5, StoredIsMetaIn DEF AckInv
<1>7. Own(k.path, t) BY <1>1, <1>5, <1>6 DEF ListInv, NameInv
<1>8. t.state \in {"Pending", "Committed", "Deleted"} BY <1>1, <1>2 DEF Meta
<1>9. Live(t) BY <1>1, <1>2, <1>7, <1>8 DEF Own, Live
<1>10. t.bucket = b
  <2>1. t.bucket \in Buckets /\ t.key \in Seq(Nat) /\ t.bucket \o t.key = k.path
    BY <1>7, ObjectStoreAssumption DEF Own, NameOf
  <2> QED BY <2>1, BucketOfName
<1> QED BY <1>9, <1>10

\* ListEntry: a live object that is settled is shown when its entry is visited.
LEMMA ListEntryList ==
    ASSUME BucketsDiffer, TypeInv, AckInv, ListInv, NEW c \in Clients, NEW k \in op[c].todo, ListEntry(c, k)
    PROVE  ListKept
<1> DEFINE o == [op[c] EXCEPT !.todo = @ \ {k}, !.listed = @ \cup Shown(k)]
<1>1. PICK w : w.pc = "list" /\ w.name = op[c].name /\ w.queue = op[c].queue /\ op[c].pc = "list" /\ Quiet(c, w)
  BY ListEntryMoves
<1>2. Moves(c, w) /\ UNCHANGED <<timeline, recent>> BY <1>1 DEF Quiet
<1>3. op[c] \in OpState BY DEF TypeInv
<1>4. w = o
  <2>1. Goto(c, o) BY DEF ListEntry
  <2>2. op \in [Clients -> OpState] BY DEF TypeInv
  <2> HIDE DEF o
  <2>3. op'[c] = o BY <2>1, <2>2 DEF Goto
  <2> QED BY <1>2, <2>3 DEF Moves
<1>5. /\ o.bucket = op[c].bucket /\ o.settled = op[c].settled /\ o.todo = op[c].todo \ {k}
      /\ o.listed = op[c].listed \cup Shown(k) /\ o.name = op[c].name
  BY <1>3 DEF OpState
<1> HIDE DEF o
<1>6. op[c].name = "list" /\ op[c].queue = <<>> BY <1>1, AtLoop
<1>7. /\ ListOK(recent, op[c]) /\ op[c].bucket \in Buckets /\ IsPrefix(op[c].bucket, k.path)
      /\ \A t \in op[c].listed : t.bucket = op[c].bucket /\ Live(t)
      /\ \A t \in op[c].settled : SettledOK(recent, op[c], t)
  BY <1>6 DEF ListInv, ShowInv, ListOK
<1>8. ASSUME NEW t \in op[c].settled, Live(t), Entry(NameOf(t)) = k PROVE t \in Shown(k)
  <2>1. NameOf(t) \in Names /\ recent[NameOf(t)] = {t} BY <1>7 DEF SettledOK
  <2>2. k.path = NameOf(t) BY <1>8 DEF Entry
  <2>3. Cur \in MapsOf(timeline) BY CurIsOne DEF TypeInv, Cur
  <2>4. StoredMeta(k.path) = t BY <2>1, <2>2, <2>3, StoredIsMetaIn DEF AckInv
  <2>5. t \in Meta BY <1>3 DEF OpState
  <2>6. Deserialize(t) = t /\ t # NoMeta /\ t.state # "Deleted" BY <1>8, <2>5, LiveIsShown
  <2> QED BY <2>4, <2>6 DEF Shown
<1>9. \A t \in o.settled : SettledOK(recent, o, t)
  BY <1>5, <1>7, <1>8 DEF SettledOK
<1>10. \A t \in o.listed : t.bucket = o.bucket /\ Live(t)
  BY <1>5, <1>7, ShownIsLive
<1>11. \A x \in o.todo : IsPrefix(o.bucket, x.path)
  BY <1>5, <1>6, <1>7 DEF ListOK
<1>12. ListOK(recent, o) BY <1>5, <1>7, <1>9, <1>10, <1>11 DEF ListOK
<1>13. ASSUME NEW d \in Clients \ {c} PROVE Undisturbed(o, op[d])
  <2>1. Undisturbed(op[c], op[d]) BY DEF ListInv, ShowInv
  <2> QED BY <1>5, <2>1 DEF Undisturbed
<1>14. ShapeOK(o) BY <1>1, <1>4, <1>6, NoQueue DEF ShapeOK, WhereOK
<1>15. ListBack(op[c], o) BY <1>1, <1>4 DEF ListBack
<1>16. ~Changes(o) /\ o.pc # "flush" BY <1>1, <1>4, <1>5, <1>6 DEF Changes
<1> QED BY <1>2, <1>4, <1>12, <1>13, <1>14, <1>15, <1>16, QuietList

-----------------------------------------------------------------------------
(* Puts and deletes that begin.                                             *)

\* Unsettle leaves nothing with name p settled.
LEMMA UnsettleOthers ==
    ASSUME TypeInv, NEW c \in Clients, NEW o, NEW p, op' = [Unsettle(p) EXCEPT ![c] = o],
           NEW d \in Clients \ {c}, NEW t \in op'[d].settled
    PROVE  NameOf(t) # p
<1> DEFINE s(e) == [op[e] EXCEPT !.settled = {x \in @ : x.bucket \o x.key # p}]
<1>1. Unsettle(p) = [e \in Clients |-> s(e)] BY DEF Unsettle
<1>2. op[d] \in OpState BY DEF TypeInv
<1>3. s(d).settled = {x \in op[d].settled : x.bucket \o x.key # p} BY <1>2 DEF OpState
<1> HIDE DEF s
<1>4. op'[d] = s(d) BY <1>1
<1> QED BY <1>3, <1>4 DEF NameOf

\* No put runs when a delete is called, and no delete when a put is.
LEMMA CalledClash ==
    ASSUME PutDeleteApart, TypeInv, ShapeInv, NEW c \in Clients
    PROVE  /\ Called(c, "delete") => \A d \in Clients : op[d].name # "put"
           /\ Called(c, "put") => \A d \in Clients : op[d].name # "delete"
<1>1. ASSUME NEW d \in Clients, op[d].name \in {"put", "delete"} PROVE op[d].pc # "idle"
  <2>1. WhereOK(op[d]) BY DEF ShapeInv, ShapeOK
  <2> QED BY <1>1, <2>1 DEF WhereOK
<1>2. {"delete", "put"} = {"put", "delete"} OBVIOUS
<1>3. ASSUME Called(c, "delete"), NEW d \in Clients, op[d].name = "put" PROVE FALSE
  BY <1>1, <1>2, <1>3 DEF Called, PutDeleteApart
<1>4. ASSUME Called(c, "put"), NEW d \in Clients, op[d].name = "delete" PROVE FALSE
  BY <1>1, <1>4 DEF Called, PutDeleteApart
<1> QED BY <1>3, <1>4

\* A put or delete begins with locals o.
LEMMA ChangeBegins ==
    ASSUME PutDeleteApart, TypeInv, ListInv, NEW c \in Clients, NEW o, Moves(c, o), ShapeOK(o), ChangeOK(o),
           o.pc = "write", UNCHANGED <<timeline, recent>>, op' = [Unsettle(NameOf(o)) EXCEPT ![c] = o],
           \/ Called(c, "put") /\ o.name = "put"
           \/ Called(c, "delete") /\ o.name = "delete" /\ Len(o.queue) = 2
    PROVE  ListKept
<1>1. timeline' = timeline /\ recent' = recent /\ Cur' = Cur BY DEF Cur
<1>2. NameInv' /\ EntryInv' BY <1>1 DEF ListInv, NameInv, EntryInv
<1>3. ChangedOK(Cur', o) BY DEF ChangedOK
<1>4. op[c].pc = "idle" BY DEF Called
<1>5. ListBack(op[c], o) BY <1>4 DEF ListBack
<1>6. o.name # "list" OBVIOUS
<1>7. ListOK(recent', o) /\ \A x : Undisturbed(o, x) BY <1>6, NoList
<1>8. ASSUME NEW d \in Clients \ {c}
      PROVE  (o.name = "put" => op[d].name # "delete") /\ (o.name = "delete" => op[d].name # "put")
  BY CalledClash DEF ListInv
<1>9. ASSUME NEW d \in Clients \ {c} PROVE Undisturbed(op'[d], o)
  <2>1. \A t \in op'[d].settled : NameOf(t) # NameOf(o) BY UnsettleOthers
  <2> QED BY <2>1 DEF Undisturbed
<1>10. \A d \in Clients \ {c} : ChangedOK(Cur', op[d]) BY <1>1 DEF ListInv, ChangeInv
<1>11. ListStep(c, o) BY <1>1, <1>3, <1>5, <1>7, <1>8, <1>9, <1>10 DEF ListStep
<1> QED BY <1>2, <1>11, ListStepKeeps

\* PutObject.
LEMMA PutList ==
    ASSUME PutDeleteApart, TypeInv, ListInv, NEW c \in Clients, NEW req \in Requests, PutObject(c, req)
    PROVE  ListKept
<1> DEFINE t == NewMeta(req, now')
           q == PutCalls(t.object_id, t)
           o == Begun("put", req.bucket, req.key, q)
           p == req.bucket \o req.key
<1>1. /\ now' \in Int /\ t \in Meta /\ IsPutQueue(q, t) /\ t.bucket \in Buckets /\ t.key \in Keys /\ Moves(c, o)
  BY PutObjectMoves
<1>2. /\ t.bucket = req.bucket /\ t.key = req.key /\ t.state = "Committed"
      /\ t.object_id = MakeObjectId(req.bucket, req.key, now')
  BY DEF NewMeta
<1>3. req.bucket \in Seq(Nat) /\ req.key \in Seq(Nat) /\ "put" \in OpNames
  BY <1>1, <1>2, ObjectStoreAssumption DEF OpNames
<1>4. op' = [Unsettle(p) EXCEPT ![c] = o] BY <1>2 DEF PutObject, Begun, NewMeta
<1>5. Called(c, "put") /\ UNCHANGED <<timeline, recent>> /\ req.key # <<>> BY DEF PutObject
<1> HIDE DEF t
<1>6. q \in Seq(KVCall) /\ q # <<>> BY <1>1 DEF IsPutQueue
<1> HIDE DEF q
<1>7. /\ o.pc = "write" /\ o.name = "put" /\ o.bucket = req.bucket /\ o.key = req.key /\ o.queue = q
  BY <1>3, <1>6, BegunType
<1>8. ShapeOK(o) BY <1>1, <1>2, <1>3, PutBegun
<1> HIDE DEF o
<1>9. NameOf(o) = p BY <1>7 DEF NameOf
<1>10. Own(p, t) BY <1>1, <1>2, <1>5 DEF Own, NameOf
<1>11. ASSUME NEW j \in DOMAIN q
       PROVE  CallOK(o, q[j])
  <2>1. PICK n \in Nat : n = t.chunk_count BY <1>1 DEF Meta
  <2>2. Len(q) = n + 2 /\ DOMAIN q = 1..Len(q) BY <1>1, <1>6, <2>1, LenProperties DEF IsPutQueue
  <2>3. CASE j \in 1..n
    <3>1. PICK i, v : q[j] = PutCall(ChunkKey(t.object_id, i), v) BY <1>1, <2>1, <2>3 DEF IsPutQueue
    <3>2. q[j].key.kind = "objchunk" /\ q[j].call = "put" BY <3>1 DEF PutCall, ChunkKey
    <3> QED BY <3>2 DEF CallOK
  <2>4. CASE j = n + 1
    <3>1. q[j] = PutCall(ObjectMetaKey(req.bucket, req.key), t) BY <1>1, <1>2, <2>1, <2>4 DEF IsPutQueue
    <3> DEFINE y == ObjectMetaKey(req.bucket, req.key)
    <3>2. y.kind = "objmeta" /\ y.path = p BY DEF ObjectMetaKey
    <3> HIDE DEF y, p
    <3>3. q[j].key = y /\ q[j].val = t /\ q[j].call = "put" BY <3>1 DEF PutCall, y
    <3> QED BY <1>9, <1>10, <3>2, <3>3 DEF CallOK
  <2>5. CASE j = n + 2
    <3>1. q[j] = PutCall(BucketIndexKey(req.bucket, req.key), t.object_id)
      BY <1>1, <1>2, <2>1, <2>5 DEF IsPutQueue
    <3>2. q[j].key.kind = "bucketidx" /\ q[j].key = Entry(p) /\ q[j].call = "put"
      BY <3>1 DEF PutCall, BucketIndexKey, Entry
    <3> QED BY <1>9, <3>2 DEF CallOK
  <2>6. j \in 1..n \/ j = n + 1 \/ j = n + 2 BY <2>2
  <2> QED BY <2>3, <2>4, <2>5, <2>6
<1>12. ChangeOK(o) BY <1>1, <1>2, <1>7, <1>9, <1>11 DEF ChangeOK, Changes
<1> QED BY <1>1, <1>4, <1>5, <1>7, <1>8, <1>9, <1>12, ChangeBegins

\* DeleteObject.
LEMMA DeleteList ==
    ASSUME PutDeleteApart, TypeInv, AckInv, ListInv, NEW c \in Clients, NEW b \in Buckets, NEW k \in Keys,
           DeleteObject(c, b, k)
    PROVE  ListKept
<1> DEFINE x == ObjectMetaKey(b, k)
           t == Cur[x]
           q == DeleteCalls(b, k, t)
           u == [t EXCEPT !.state = "Deleted"]
           o == Begun("delete", b, k, q)
           p == b \o k
<1>1. x \in DOMAIN Cur /\ t \in Meta /\ Deserialize(t) = t /\ t # NoMeta /\ Moves(c, o)
  BY DeleteObjectMoves
<1>2. Called(c, "delete") /\ UNCHANGED <<timeline, recent>> BY DEF DeleteObject
<1>3. op' = [Unsettle(p) EXCEPT ![c] = o]
  <2>1. op' = [Unsettle(p) EXCEPT ![c] = Begun("delete", b, k, DeleteCalls(b, k, Deserialize(t)))]
    BY DEF DeleteObject, Begun, Get, KV!Current, Cur, CurOf
  <2> QED BY <1>1, <2>1
<1>4. Own(p, t)
  <2>1. p \in Names BY NameOfObject
  <2>2. Cur \in MapsOf(timeline) BY CurIsOne DEF TypeInv, Cur
  <2>3. MetaIn(Cur, p) = t BY <1>1 DEF MetaIn, ObjectMetaKey
  <2>4. t \in recent[p] BY <2>1, <2>2, <2>3 DEF AckInv
  <2> QED BY <1>1, <2>1, <2>4 DEF ListInv, NameInv
<1> HIDE DEF t, x
<1>5. /\ q \in Seq(KVCall) /\ Len(q) = 2 /\ q # <<>>
      /\ u \in Meta /\ q[1] = PutCall(ObjectMetaKey(b, k), u)
      /\ q[2] = DelCall(BucketIndexKey(b, k))
  BY <1>1, DeleteCallsType
<1>6. u.bucket = t.bucket /\ u.key = t.key /\ u.state = "Deleted" BY <1>1 DEF Meta
<1>7. ShapeOK(o) BY <1>1, DeleteBegun
<1> HIDE DEF u, q
<1>8. Own(p, u) BY <1>4, <1>6 DEF Own, NameOf
<1>9. o.pc = "write" /\ o.name = "delete" /\ o.bucket = b /\ o.key = k /\ o.queue = q
  <2>1. b \in Seq(Nat) /\ k \in Seq(Nat) /\ "delete" \in OpNames BY ObjectStoreAssumption DEF OpNames
  <2> QED BY <1>5, <2>1, BegunType
<1> HIDE DEF o
<1>10. NameOf(o) = p BY <1>9 DEF NameOf
<1>11. /\ q[1].key.kind = "objmeta" /\ q[1].key.path = p /\ q[1].val = u /\ q[1].call = "put"
       /\ q[2].key.kind = "bucketidx" /\ q[2].key = Entry(p)
  BY <1>5 DEF PutCall, DelCall, ObjectMetaKey, BucketIndexKey, Entry
<1>12. DOMAIN q = {1, 2}
  <2>1. DOMAIN q = 1..2 BY <1>5, LenProperties
  <2> QED BY <2>1
<1>13. ASSUME NEW j \in DOMAIN q
       PROVE  CallOK(o, q[j])
  <2>1. CASE j = 1 BY <1>8, <1>10, <1>11, <2>1 DEF CallOK
  <2>2. CASE j = 2 BY <1>9, <1>10, <1>11, <2>2 DEF CallOK
  <2> QED BY <1>12, <2>1, <2>2
<1>14. Len(q) <= 2 /\ q[1].key.kind = "objmeta" /\ q[1].val.state = "Deleted" BY <1>5, <1>6, <1>11
<1>15. ChangeOK(o) BY <1>9, <1>10, <1>13, <1>14 DEF ChangeOK, Changes
<1> QED BY <1>1, <1>2, <1>3, <1>5, <1>7, <1>9, <1>10, <1>15, ChangeBegins

-----------------------------------------------------------------------------
(* Writes.                                                                  *)

\* The locals of a put or delete after a write.
LEMMA WrittenFields ==
    ASSUME NEW o \in OpState, o.name # "create"
    PROVE  LET w == Written(o)
           IN  /\ w.name = o.name /\ w.bucket = o.bucket /\ w.key = o.key /\ NameOf(w) = NameOf(o)
               /\ w.queue = Tail(o.queue) /\ (w.pc = "flush" => Tail(o.queue) = <<>> \/ o.pc = "flush")
<1> DEFINE r == Tail(o.queue)
           w == Written(o)
<1>1. CASE r # <<>>
  <2>1. w = [o EXCEPT !.queue = r] BY <1>1 DEF Written
  <2> HIDE DEF r, w
  <2>2. w.name = o.name /\ w.bucket = o.bucket /\ w.key = o.key /\ w.queue = r /\ w.pc = o.pc
    BY <2>1 DEF OpState
  <2> QED BY <2>2 DEF NameOf, r, w
<1>2. CASE r = <<>>
  <2>1. w = [o EXCEPT !.pc = "flush", !.queue = <<>>] BY <1>2 DEF Written
  <2> HIDE DEF w
  <2>2. w.name = o.name /\ w.bucket = o.bucket /\ w.key = o.key /\ w.queue = <<>> BY <2>1 DEF OpState
  <2> QED BY <1>2, <2>2 DEF NameOf, w
<1> QED BY <1>1, <1>2

\* What an operation is about to write: a bucket, or part of its own object.
\* A delete removes the index entry when the metadata says deleted.
LEMMA NextCall ==
    ASSUME TypeInv, ListInv, NEW c \in Clients, op[c].pc = "write"
    PROVE  LET o == op[c]
               x == Head(o.queue)
           IN  /\ o.queue \in Seq(KVCall) /\ o.queue # <<>> /\ x = o.queue[1] /\ x \in KVCall
               /\ \/ o.name = "create" /\ x.key.kind = "bucket" /\ x.call = "put"
                  \/ Changes(o) /\ CallOK(o, x)
               /\ o.name = "put" /\ Tail(o.queue) = <<>> => x.key = Entry(NameOf(o)) /\ x.call = "put"
               /\ o.name = "delete" /\ x.key.kind = "objmeta" => x.val.state = "Deleted"
               /\ o.name = "delete" /\ x.key.kind # "objmeta" => MetaIn(Cur, NameOf(o)).state = "Deleted"
<1> DEFINE o == op[c]
           q == o.queue
           x == Head(q)
<1>1. /\ o \in OpState /\ OpOK(Cur, o) /\ ShapeOK(o) /\ ChangeOK(o) /\ ChangedOK(Cur, o)
  BY DEF TypeInv, ListInv, ShapeInv, ChangeInv
<1>2. q \in Seq(KVCall) /\ q # <<>> /\ o.name \in {"create", "put", "delete"}
  BY <1>1 DEF OpOK, OpState, ShapeOK, WhereOK
<1> HIDE DEF o
<1>3. /\ Len(q) \in Nat \ {0} /\ Len(Tail(q)) = Len(q) - 1 /\ x = q[1] /\ DOMAIN q = 1..Len(q)
  BY <1>2, TailFacts
<1>4. 1 \in DOMAIN q BY <1>3
<1>5. x \in KVCall BY <1>2, <1>3, <1>4, ElementOfSeq
<1>6. QueueOK(o) BY <1>1 DEF ShapeOK
<1> HIDE DEF q, x
<1>7. o.name = "create" => x.key.kind = "bucket" /\ x.call = "put"
  BY <1>3, <1>4, <1>5, <1>6 DEF QueueOK, KVCall, q
<1>8. o.name # "create" => Changes(o) /\ CallOK(o, x)
  BY <1>1, <1>2, <1>3, <1>4 DEF ChangeOK, Changes, q
<1>9. ASSUME o.name = "put", Tail(q) = <<>> PROVE x.key = Entry(NameOf(o)) /\ x.call = "put"
  <2>1. Len(q) = 1
    <3>1. PICK n \in Nat : n = Len(q) BY <1>3
    <3>2. n - 1 = 0 BY <1>3, <1>9, <3>1, EmptySeq
    <3>3. n = 1 BY <3>2
    <3> QED BY <3>1, <3>3, Zenon
  <2>2. x.key.kind = "bucketidx" BY <1>3, <1>6, <1>9, <2>1 DEF QueueOK, q
  <2>3. x.call \in {"put", "del"} BY <1>5 DEF KVCall
  <2> QED BY <1>8, <1>9, <2>2, <2>3 DEF CallOK
<1>10. ASSUME o.name = "delete", x.key.kind = "objmeta" PROVE x.val.state = "Deleted"
  BY <1>3, <1>4, <1>6, <1>10 DEF QueueOK, q
<1>11. ASSUME o.name = "delete", x.key.kind # "objmeta" PROVE MetaIn(Cur, NameOf(o)).state = "Deleted"
  <2>1. (Len(q) = 2 => x.key.kind = "objmeta") /\ Len(q) <= 2 BY <1>1, <1>3, <1>11 DEF ChangeOK, Changes, q
  <2>2. Len(q) < 2 BY <1>3, <1>11, <2>1
  <2> QED BY <1>1, <1>11, <2>2 DEF ChangedOK, q
<1> QED BY <1>2, <1>3, <1>5, <1>7, <1>8, <1>9, <1>10, <1>11 DEF o, q, x

\* What was written before stays so.
LEMMA WriteKeepsChanged ==
    ASSUME TypeInv, ListInv, NEW c \in Clients, Write(c), NEW d \in Clients
    PROVE  ChangedOK(Cur', op[d])
<1> DEFINE x == Head(op[c].queue)
           p == NameOf(op[d])
           u == Cur'
<1>1. x \in KVCall /\ IsAfter(u, Cur, x) /\ op[c].pc = "write" BY WriteMoves, Zenon
<1>2. /\ \/ op[c].name = "create" /\ x.key.kind = "bucket" /\ x.call = "put"
         \/ Changes(op[c]) /\ CallOK(op[c], x)
      /\ op[c].name = "delete" /\ x.key.kind = "objmeta" => x.val.state = "Deleted"
  BY <1>1, NextCall
<1>3. ChangedOK(Cur, op[d]) BY DEF ListInv, ChangeInv
<1>4. \A a, b \in Clients : op[a].name = "put" => op[b].name # "delete" BY DEF ListInv, ClashInv
<1> HIDE DEF x, p, u
<1>5. ASSUME op[d].name = "put", op[d].pc = "flush" PROVE Entry(p) \in DOMAIN u
  <2>1. Entry(p) \in DOMAIN Cur BY <1>3, <1>5 DEF ChangedOK, p
  <2>2. x.call = "put"
    <3>1. x.call \in {"put", "del"} BY <1>1 DEF KVCall
    <3> QED BY <1>2, <1>4, <1>5, <3>1 DEF CallOK
  <2> QED BY <1>1, <2>1, <2>2 DEF IsAfter
<1>6. ASSUME op[d].name = "delete", Len(op[d].queue) < 2 PROVE MetaIn(u, p).state = "Deleted"
  <2>1. MetaIn(Cur, p).state = "Deleted" BY <1>3, <1>6 DEF ChangedOK, p
  <2>2. x.key.kind = "objmeta" => x.val.state = "Deleted" BY <1>2, <1>4, <1>6 DEF Changes
  <2> QED BY <1>1, <2>1, <2>2, MetaAfter
<1> QED BY <1>5, <1>6 DEF ChangedOK, p, u

\* What the operation itself has written.
LEMMA WriteChanges ==
    ASSUME TypeInv, ListInv, NEW c \in Clients, Write(c)
    PROVE  ChangeOK(Written(op[c])) /\ ChangedOK(Cur', Written(op[c]))
<1> DEFINE o == op[c]
           q == o.queue
           x == Head(q)
           w == Written(o)
           u == Cur'
           p == NameOf(o)
<1>1. o.pc = "write" /\ IsAfter(u, Cur, x) BY WriteMoves, Zenon
<1>2. o \in OpState /\ OpOK(Cur, o) /\ ShapeOK(o) /\ ChangeOK(o) BY DEF TypeInv, ListInv, ShapeInv, ChangeInv
<1>3. /\ q \in Seq(KVCall) /\ q # <<>> /\ x = q[1] /\ x \in KVCall
      /\ \/ o.name = "create" /\ x.key.kind = "bucket" /\ x.call = "put"
         \/ Changes(o) /\ CallOK(o, x)
      /\ o.name = "put" /\ Tail(q) = <<>> => x.key = Entry(p) /\ x.call = "put"
      /\ o.name = "delete" /\ x.key.kind = "objmeta" => x.val.state = "Deleted"
      /\ o.name = "delete" /\ x.key.kind # "objmeta" => MetaIn(Cur, p).state = "Deleted"
  BY <1>1, NextCall
<1>4. CASE o.name = "create"
  <2>1. w.name \in {"create", ""} /\ w.pc \in {"write", "idle"}
    BY <1>1, <1>2, <1>4, IdleType DEF Written, OpState
  <2> HIDE DEF w
  <2>2. ~Changes(w) /\ w.pc # "flush" BY <2>1 DEF Changes
  <2> QED BY <2>2, NoChange DEF w
<1>5. CASE o.name # "create"
  <2>1. /\ w.name = o.name /\ w.bucket = o.bucket /\ w.key = o.key /\ NameOf(w) = p
        /\ w.queue = Tail(q) /\ (w.pc = "flush" => Tail(q) = <<>>)
    BY <1>1, <1>2, <1>5, WrittenFields
  <2>2. /\ Len(q) \in Nat \ {0} /\ Len(Tail(q)) = Len(q) - 1
        /\ \A i \in 1..(Len(q) - 1) : Tail(q)[i] = q[i + 1]
        /\ DOMAIN q = 1..Len(q) /\ DOMAIN Tail(q) = 1..(Len(q) - 1)
    BY <1>3, TailFacts
  <2> HIDE DEF o, q, x, w, u, p
  <2>3. Changes(o) /\ Changes(w) BY <1>3, <1>5, <2>1 DEF Changes
  <2>4. /\ o.bucket \in Buckets /\ o.key \in Keys
        /\ \A j \in DOMAIN q : CallOK(o, q[j])
        /\ o.name = "delete" => Len(q) <= 2
    BY <1>2, <2>3 DEF ChangeOK, q
  <2>5. ASSUME NEW j \in DOMAIN Tail(q) PROVE CallOK(w, Tail(q)[j])
    <3>1. j + 1 \in DOMAIN q /\ Tail(q)[j] = q[j + 1] BY <2>2
    <3>2. CallOK(o, Tail(q)[j]) BY <2>4, <3>1
    <3> QED BY <2>1, <3>2 DEF CallOK, p
  <2>6. o.name = "delete" => Len(w.queue) <= 1 BY <2>1, <2>2, <2>4
  <2>7. ChangeOK(w)
    <3>1. PICK n : n = Len(w.queue) OBVIOUS
    <3>2. w.name = "delete" => n <= 1 BY <2>1, <2>6, <3>1, Zenon
    <3>3. n \in Int
      <4>1. Len(Tail(q)) \in Int BY <2>2
      <4> QED BY <2>1, <3>1, <4>1, Zenon
    <3>4. w.name = "delete" => n # 2 /\ n <= 2 BY <3>2, <3>3
    <3>5. w.name = "delete" => Len(w.queue) # 2 /\ Len(w.queue) <= 2 BY <3>1, <3>4, Zenon
    <3> QED BY <2>1, <2>3, <2>4, <2>5, <3>5 DEF ChangeOK
  <2>8. ASSUME w.name = "put", w.pc = "flush" PROVE Entry(p) \in DOMAIN u
    <3>1. x.key = Entry(p) /\ x.call = "put" BY <1>3, <2>1, <2>8
    <3> QED BY <1>1, <3>1 DEF IsAfter
  <2>9. ASSUME w.name = "delete" PROVE MetaIn(u, p).state = "Deleted"
    <3>1. CASE x.key.kind = "objmeta"
      <4>1. x.val.state = "Deleted" /\ x.key.path = p BY <1>3, <2>1, <2>3, <2>9, <3>1 DEF CallOK, Changes, p
      <4>2. x.key \in KVKey /\ x.call \in {"put", "del"} BY <1>3 DEF KVCall
      <4> DEFINE k == [kind |-> "objmeta", path |-> p]
      <4>3. x.key = k BY <3>1, <4>1, <4>2 DEF KVKey
      <4>4. x.call = "put" BY <1>1, <3>1, <4>2 DEF IsAfter
      <4>5. x.key \in DOMAIN u /\ u[x.key] = x.val BY <1>1, <4>4 DEF IsAfter
      <4>6. MetaIn(u, p) = IF k \in DOMAIN u THEN u[k] ELSE NoMeta BY DEF MetaIn
      <4> HIDE DEF k
      <4> QED BY <4>1, <4>3, <4>5, <4>6
    <3>2. CASE x.key.kind # "objmeta"
      <4>1. MetaIn(Cur, p).state = "Deleted" BY <1>3, <2>1, <2>9, <3>2
      <4> QED BY <1>1, <1>3, <3>2, <4>1, MetaAfter
    <3> QED BY <3>1, <3>2
  <2>10. ChangedOK(u, w) BY <2>1, <2>8, <2>9 DEF ChangedOK
  <2> QED BY <2>7, <2>10 DEF w, o, u
<1> QED BY <1>4, <1>5

\* Write.
LEMMA WriteList ==
    ASSUME TypeInv, AckInv, ListInv, NEW c \in Clients, Write(c) PROVE ListKept
<1> DEFINE o == op[c]
           x == Head(o.queue)
           w == Written(o)
           u == Cur'
           p == NameOf(o)
<1>1. /\ o.pc = "write" /\ x \in KVCall /\ Moves(c, w) /\ IsAfter(u, Cur, x)
      /\ MapsOf(timeline') = MapsOf(timeline) \cup {u}
  BY WriteMoves, Zenon
<1>2. o \in OpState /\ OpOK(Cur, o) /\ ShapeOK(o) /\ op' \in [Clients -> OpState]
  BY <1>1 DEF TypeInv, ListInv, ShapeInv, Moves
<1>3. /\ \/ o.name = "create" /\ x.key.kind = "bucket" /\ x.call = "put"
         \/ Changes(o) /\ CallOK(o, x)
      /\ o.name = "delete" /\ x.key.kind # "objmeta" => MetaIn(Cur, p).state = "Deleted"
  BY <1>1, NextCall
<1>4. ShapeOK(w) BY <1>1, <1>2, WrittenShape
<1>5. ChangeOK(w) /\ ChangedOK(Cur', w) BY WriteChanges
<1>6. /\ w.name \in {o.name, ""} /\ (w.name = o.name => NameOf(w) = p)
  <2>1. CASE o.name = "create"
    <3>1. w.name \in {"create", ""} /\ (w.name = o.name => w.bucket = o.bucket /\ w.key = o.key)
      BY <1>2, <2>1, IdleType DEF Written, OpState
    <3> HIDE DEF w, o
    <3> QED BY <2>1, <3>1 DEF NameOf, p
  <2>2. CASE o.name # "create" BY <1>2, <2>2, WrittenFields
  <2> QED BY <2>1, <2>2
<1>7. /\ recent \in [Names -> SUBSET Meta] /\ Cur \in MapsOf(timeline)
      /\ recent' = IF x.key.kind = "objmeta" THEN [recent EXCEPT ![x.key.path] = @ \cup {x.val}] ELSE recent
  BY CurIsOne DEF TypeInv, Cur, Write
<1>8. x.key.kind = "objmeta" => x.key.path \in Names /\ x.key.path = p /\ Own(p, x.val)
  BY <1>1, <1>3 DEF KVCall, CallOK
<1>9. o.name \in {"create", "put", "delete"} BY <1>3 DEF Changes
<1> HIDE DEF o, x, w, u
<1>10. \A r \in Names : recent[r] \subseteq recent'[r] /\ (r # p => recent'[r] = recent[r])
  BY <1>7, <1>8
<1>11. \A r \in Names : \A t \in recent'[r] : t \in recent[r] \/ Own(r, t)
  BY <1>7, <1>8
<1>12. NameInv'
  <2>1. ASSUME NEW k \in DOMAIN u, k.kind = "objmeta" PROVE k.path \in Names
    <3>1. CASE k = x.key BY <1>8, <2>1, <3>1
    <3>2. CASE k # x.key
      <4>1. k \in DOMAIN Cur BY <1>1, <3>2 DEF IsAfter
      <4> QED BY <1>7, <2>1, <4>1 DEF ListInv, NameInv
    <3> QED BY <3>1, <3>2
  <2> QED BY <1>1, <1>11, <2>1 DEF ListInv, NameInv
<1>13. EntryInv'
  <2> SUFFICES ASSUME NEW r \in Names, NEW t \in recent'[r], recent'[r] = {t}, t.state = "Committed"
               PROVE  \A m \in MapsOf(timeline)' : Entry(r) \in DOMAIN m
    BY DEF EntryInv
  <2>1. MetaIn(Cur, r) \in recent[r] BY <1>7 DEF AckInv
  <2>2. recent[r] = {t} /\ MetaIn(Cur, r) = t BY <1>10, <2>1
  <2>3. \A m \in MapsOf(timeline) : Entry(r) \in DOMAIN m BY <2>2 DEF ListInv, EntryInv
  <2>4. Entry(r) \in DOMAIN u
    <3>1. x.call \in {"put", "del"} BY <1>1 DEF KVCall
    <3>2. CASE x.key # Entry(r) \/ x.call = "put" BY <1>1, <1>7, <2>3, <3>2 DEF IsAfter
    <3>3. CASE x.key = Entry(r) /\ x.call = "del"
      <4>1. x.key.kind = "bucketidx" /\ x.key.path = r BY <3>3 DEF Entry
      <4>2. o.name = "delete" /\ x.key = Entry(p) BY <1>3, <3>3, <4>1 DEF CallOK, p
      <4>3. r = p BY <4>1, <4>2 DEF Entry
      <4> QED BY <1>3, <2>2, <4>1, <4>2, <4>3
    <3> QED BY <3>1, <3>2, <3>3
  <2> QED BY <1>1, <2>3, <2>4
<1>14. w.name # "list" /\ ListBack(o, w) BY <1>1, <1>6, <1>9 DEF ListBack
<1>15. ListOK(recent', w) /\ \A y : Undisturbed(w, y) BY <1>14, NoList
<1>16. ASSUME NEW d \in Clients \ {c}
       PROVE  /\ w.name = "put" => op[d].name # "delete"
              /\ w.name = "delete" => op[d].name # "put"
              /\ Undisturbed(op'[d], w)
              /\ op[d].name = "list" => \A t \in op'[d].settled : recent'[NameOf(t)] = recent[NameOf(t)]
  <2>1. (w.name = "put" => op[d].name # "delete") /\ (w.name = "delete" => op[d].name # "put")
    BY <1>6 DEF ListInv, ClashInv, o
  <2>2. Same(op[d], op'[d]) BY <1>1 DEF Moves
  <2>3. Undisturbed(op[d], o) BY DEF ListInv, ShowInv, o
  <2>4. Undisturbed(op[d], w) BY <1>6, <2>3 DEF Undisturbed, Changes, p
  <2>5. ASSUME op[d].name = "list", NEW t \in op'[d].settled PROVE recent'[NameOf(t)] = recent[NameOf(t)]
    <3>1. t \in op[d].settled BY <2>2 DEF Same
    <3>2. NameOf(t) \in Names BY <2>5, <3>1 DEF ListInv, ShowInv, ListOK, SettledOK
    <3>3. CASE Changes(o)
      <4>1. NameOf(t) # p BY <2>3, <2>5, <3>1, <3>3 DEF Undisturbed, p
      <4> QED BY <1>10, <3>2, <4>1
    <3>4. CASE ~Changes(o)
      <4>1. x.key.kind # "objmeta" BY <1>3, <3>4
      <4> QED BY <1>7, <4>1
    <3> QED BY <3>3, <3>4
  <2> QED BY <2>1, <2>2, <2>4, <2>5, SameList
<1>17. \A d \in Clients : ChangedOK(Cur', op[d]) BY WriteKeepsChanged
<1>18. ListStep(c, w)
  BY <1>1, <1>4, <1>5, <1>14, <1>15, <1>16, <1>17 DEF ListStep, o
<1> QED BY <1>12, <1>13, <1>18, ListStepKeeps

-----------------------------------------------------------------------------
(* Flushes, sweeps and crashes.                                             *)

\* Acknowledge: a put has its entry, and the metadata of a delete says so.
LEMMA AcknowledgeList ==
    ASSUME TypeInv, AckInv, ListInv, NEW c \in Clients, Acknowledge(c) PROVE ListKept
<1> DEFINE o == op[c]
           p == NameOf(o)
           s == StoredMeta(p)
<1>1. /\ o.pc = "flush" /\ Moves(c, Idle) /\ Cur' = Cur /\ MapsOf(timeline') = {Cur}
      /\ recent' = [recent EXCEPT ![p] = {s}]
  BY AcknowledgeMoves, Zenon DEF NameOf
<1>2. o \in OpState /\ ShapeOK(o) /\ ChangeOK(o) /\ ChangedOK(Cur, o)
  BY DEF TypeInv, ListInv, ShapeInv, ChangeInv
<1>3. recent \in [Names -> SUBSET Meta] /\ Cur \in MapsOf(timeline) BY CurIsOne DEF TypeInv, Cur
<1>4. s = MetaIn(Cur, p) BY StoredIsMetaIn
<1> HIDE DEF o, s
<1>5. Changes(o) /\ p \in Names BY <1>1, <1>2, NameOfObject DEF ChangeOK, NameOf
<1>6. s \in recent[p] BY <1>3, <1>4, <1>5 DEF AckInv
<1>7. o.queue = <<>> /\ Len(o.queue) < 2
  <2>1. o.queue = <<>> BY <1>1, <1>2 DEF ShapeOK, QueueOK
  <2> QED BY <2>1
<1>8. s.state = "Committed" => Entry(p) \in DOMAIN Cur
  BY <1>1, <1>2, <1>4, <1>5, <1>7 DEF ChangedOK, Changes
<1> HIDE DEF p
<1>9. \A r \in Names : (r # p => recent'[r] = recent[r]) /\ recent'[r] \subseteq recent[r]
  BY <1>1, <1>3, <1>5, <1>6
<1>10. recent'[p] = {s} BY <1>1, <1>3, <1>5
<1>11. NameInv' BY <1>1, <1>3, <1>9 DEF ListInv, NameInv
<1>12. EntryInv'
  <2> SUFFICES ASSUME NEW r \in Names, NEW t \in recent'[r], recent'[r] = {t}, t.state = "Committed"
               PROVE  Entry(r) \in DOMAIN Cur
    BY <1>1 DEF EntryInv
  <2>1. CASE r = p BY <1>8, <1>10, <2>1
  <2>2. CASE r # p BY <1>3, <1>9, <2>2 DEF ListInv, EntryInv
  <2> QED BY <2>1, <2>2
<1>13. ~Changes(Idle) /\ Idle.name # "list" /\ Idle.pc # "flush" BY IdleType DEF Changes
<1>14. /\ ChangeOK(Idle) /\ Idle.name \notin {"put", "delete"}
       /\ (\A m : ChangedOK(m, Idle)) /\ \A l : Undisturbed(l, Idle)
  BY <1>13, NoChange
<1>15. ListOK(recent', Idle) /\ \A x : Undisturbed(Idle, x) BY <1>13, NoList
<1>16. ListBack(o, Idle) BY <1>1 DEF ListBack
<1>17. ASSUME NEW d \in Clients \ {c}, op[d].name = "list", NEW t \in op'[d].settled
       PROVE  recent'[NameOf(t)] = recent[NameOf(t)]
  <2>1. t \in op[d].settled BY <1>1 DEF Moves, Same
  <2>2. NameOf(t) \in Names BY <1>17, <2>1 DEF ListInv, ShowInv, ListOK, SettledOK
  <2>3. Undisturbed(op[d], o) BY DEF ListInv, ShowInv, o
  <2>4. NameOf(t) # p BY <1>5, <1>17, <2>1, <2>3 DEF Undisturbed, p
  <2> QED BY <1>9, <2>2, <2>4
<1>18. \A d \in Clients : ChangedOK(Cur', op[d]) BY <1>1 DEF ListInv, ChangeInv
<1>19. ListStep(c, Idle) BY <1>1, <1>14, <1>15, <1>16, <1>17, <1>18, IdleShape DEF ListStep, o
<1> QED BY <1>11, <1>12, <1>19, ListStepKeeps

\* A step of a collection that may remove chunks and flush.
LEMMA SweepList ==
    ASSUME TypeInv, ListInv, NEW c \in Clients, NEW o, Moves(c, o), ShapeOK(o), o.name \in {"", "gc"},
           op[c].pc = "sweep", UNCHANGED recent,
           MapsOf(timeline') \subseteq MapsOf(timeline) \cup {Cur'},
           \A k \in DOMAIN Cur : k.kind # "objchunk" => k \in DOMAIN Cur' /\ Cur'[k] = Cur[k],
           \A k \in DOMAIN Cur' : k \in DOMAIN Cur
    PROVE  ListKept
<1>1. Cur \in MapsOf(timeline) BY CurIsOne DEF TypeInv, Cur
<1>2. \A p : Entry(p).kind = "bucketidx" BY DEF Entry
<1>3. \A p : Entry(p) \in DOMAIN Cur => Entry(p) \in DOMAIN Cur' BY <1>2
<1>4. ASSUME NEW p PROVE MetaIn(Cur', p) = MetaIn(Cur, p)
  <2> DEFINE k == [kind |-> "objmeta", path |-> p]
  <2>1. k.kind # "objchunk" OBVIOUS
  <2>2. /\ MetaIn(Cur', p) = (IF k \in DOMAIN Cur' THEN Cur'[k] ELSE NoMeta)
        /\ MetaIn(Cur, p) = IF k \in DOMAIN Cur THEN Cur[k] ELSE NoMeta
    BY DEF MetaIn
  <2>3. (k \in DOMAIN Cur' <=> k \in DOMAIN Cur) /\ (k \in DOMAIN Cur => Cur'[k] = Cur[k]) BY <2>1
  <2> HIDE DEF k
  <2>4. CASE k \in DOMAIN Cur BY <2>2, <2>3, <2>4, Zenon
  <2>5. CASE k \notin DOMAIN Cur BY <2>2, <2>3, <2>5, Zenon
  <2> QED BY <2>4, <2>5
<1>5. NameInv' BY <1>1 DEF ListInv, NameInv
<1>6. EntryInv' BY <1>1, <1>3 DEF ListInv, EntryInv
<1>7. \A d \in Clients : ChangedOK(Cur', op[d])
  BY <1>3, <1>4 DEF ListInv, ChangeInv, ChangedOK
<1>8. ~Changes(o) /\ o.name # "list" /\ o.pc # "flush" BY DEF Changes, ShapeOK, WhereOK
<1>9. /\ ChangeOK(o) /\ o.name \notin {"put", "delete"}
      /\ (\A m : ChangedOK(m, o)) /\ \A l : Undisturbed(l, o)
  BY <1>8, NoChange
<1>10. ListOK(recent', o) /\ \A x : Undisturbed(o, x) BY <1>8, NoList
<1>11. ListBack(op[c], o) BY DEF ListBack
<1>12. ListStep(c, o) BY <1>7, <1>9, <1>10, <1>11 DEF ListStep
<1> QED BY <1>5, <1>6, <1>12, ListStepKeeps

\* GcSweep and GcReturn.
LEMMA CollectingList ==
    ASSUME TypeInv, ListInv, NEW c \in Clients, GcReturn(c) \/ \E k \in op[c].todo : GcSweep(c, k)
    PROVE  ListKept
<1>1. CASE GcReturn(c)
  <2>1. /\ op[c].pc = "sweep" /\ UNCHANGED recent /\ Moves(c, Idle) /\ Cur' = Cur
        /\ MapsOf(timeline') \subseteq MapsOf(timeline)
    BY <1>1, GcReturnMoves
  <2> QED BY <2>1, IdleType, IdleShape, SweepList
<1>2. ASSUME NEW k \in op[c].todo, GcSweep(c, k) PROVE ListKept
  <2> DEFINE o == DoneWith(op[c], k)
  <2>1. op[c].pc = "sweep" /\ k.kind = "objchunk" /\ UNCHANGED recent /\ Moves(c, o)
    BY <1>2, GcSweepMoves
  <2>2. op[c] \in OpState /\ ShapeOK(op[c]) BY DEF TypeInv, ListInv, ShapeInv
  <2>3. o.pc = op[c].pc /\ o.name = op[c].name /\ o.queue = op[c].queue BY <2>2 DEF DoneWith, OpState
  <2> HIDE DEF o
  <2>4. op[c].name = "gc" /\ op[c].queue = <<>> BY <2>1, <2>2 DEF ShapeOK, WhereOK, QueueOK
  <2>5. ShapeOK(o) BY <2>1, <2>3, <2>4, NoQueue DEF ShapeOK, WhereOK
  <2>6. CASE UNCHANGED timeline /\ Cur' = Cur
    BY <2>1, <2>3, <2>4, <2>5, <2>6, SweepList
  <2>7. CASE IsErased(Cur', Cur, k) /\ MapsOf(timeline') = MapsOf(timeline) \cup {Cur'}
    <3>1. /\ \A y \in DOMAIN Cur : y.kind # "objchunk" => y \in DOMAIN Cur' /\ Cur'[y] = Cur[y]
          /\ \A y \in DOMAIN Cur' : y \in DOMAIN Cur
      BY <2>1, <2>7 DEF IsErased
    <3> QED BY <2>1, <2>3, <2>4, <2>5, <2>7, <3>1, SweepList
  <2> QED BY <1>2, <2>6, <2>7, GcSweepMoves
<1> QED BY <1>1, <1>2

\* When no operation runs, it is enough that the maps were there before.
LEMMA AllIdleList ==
    ASSUME TypeInv, ListInv, \A c \in Clients : op'[c] = Idle, UNCHANGED recent,
           MapsOf(timeline') \subseteq MapsOf(timeline)
    PROVE  ListInv'
<1>1. ~Changes(Idle) /\ Idle.name = "" /\ Idle.name # "list" /\ Idle.pc # "flush" BY IdleType DEF Changes
<1>2. ChangeOK(Idle) /\ (\A m : ChangedOK(m, Idle)) /\ \A l : Undisturbed(l, Idle) BY <1>1, NoChange
<1>3. \A r : ListOK(r, Idle) BY <1>1, NoList
<1>4. ShapeInv' /\ ClashInv' /\ ChangeInv' /\ ShowInv'
  BY <1>1, <1>2, <1>3, IdleShape DEF ShapeInv, ClashInv, ChangeInv, ShowInv
<1>5. NameInv' /\ EntryInv' BY DEF ListInv, NameInv, EntryInv
<1> QED BY <1>4, <1>5 DEF ListInv

\* Every step but a crash.
LEMMA ListInvNext ==
    ASSUME PutDeleteApart, BucketsDiffer, TypeInv, AckInv, ListInv, Next, ~Crash PROVE ListKept
<1>1. ASSUME NEW c \in Clients, NEW b \in Buckets, CreateBucket(c, b) PROVE ListKept
  BY <1>1, CreateList
<1>2. ASSUME NEW c \in Clients, NEW req \in Requests, PutObject(c, req) PROVE ListKept
  BY <1>2, PutList
<1>3. ASSUME NEW c \in Clients, NEW b \in Buckets, NEW k \in Keys, DeleteObject(c, b, k) PROVE ListKept
  BY <1>3, DeleteList
<1>4. ASSUME NEW c \in Clients, NEW b \in Buckets, NEW k \in Keys, GetObject(c, b, k) PROVE ListKept
  BY <1>4, GetList
<1>5. ASSUME NEW c \in Clients, NEW b \in Buckets, NEW pre \in ListPrefixes, ListObjects(c, b, pre)
      PROVE  ListKept
  BY <1>5, ListObjectsList
<1>6. ASSUME NEW c \in Clients, NEW k \in op[c].todo, ListEntry(c, k) PROVE ListKept
  BY <1>6, ListEntryList
<1>7. ASSUME NEW c \in Clients, ListReturn(c) PROVE ListKept BY <1>7, ListReturnList
<1>8. ASSUME NEW c \in Clients, FlushFails(c) \/ GetReturn(c) PROVE ListKept BY <1>8, ReturnList
<1>9. ASSUME NEW c \in Clients, GetChunk(c) PROVE ListKept BY <1>9, GetChunkList
<1>10. ASSUME NEW c \in Clients,
              GarbageCollectChunks(c) \/ GcScan(c) \/ \E k \in op[c].todo : GcMark(c, k)
       PROVE  ListKept
  BY <1>10, MarkList
<1>11. ASSUME NEW c \in Clients, Write(c) PROVE ListKept BY <1>11, WriteList
<1>12. ASSUME NEW c \in Clients, Acknowledge(c) PROVE ListKept BY <1>12, AcknowledgeList
<1>13. ASSUME NEW c \in Clients, GcReturn(c) \/ \E k \in op[c].todo : GcSweep(c, k) PROVE ListKept
  BY <1>13, CollectingList
<1>14. CASE Recover
  <2>1. /\ UNCHANGED <<op, recent>> /\ \A c \in Clients : op[c] = Idle
        /\ MapsOf(timeline') \subseteq MapsOf(timeline)
    BY <1>14, RecoverMoves
  <2>2. \A c \in Clients : op'[c] = Idle /\ op[c].pc # "list" BY <2>1, IdleType
  <2>3. ListInv' BY <2>1, <2>2, AllIdleList
  <2> QED BY <2>2, <2>3 DEF ListKept, ListBack
<1> QED BY <1>1, <1>2, <1>3, <1>4, <1>5, <1>6, <1>7, <1>8, <1>9, <1>10, <1>11, <1>12, <1>13, <1>14 DEF Next

\* ListObjects is exact, though it reads the index and then the metadata of
\* one entry per call: whatever puts, deletes, failed flushes, crashes and
\* collections happen meanwhile or happened before, of the objects that did not
\* change while it ran and whose last change was acknowledged it shows just the
\* committed ones that can be read, and it shows only objects of the bucket.
\* Puts and deletes must be kept apart, or a delete removes the entry of an
\* object just put; and no bucket's name may continue another's, or the
\* listing of one shows objects of the other.
THEOREM ListingsAreExact ==
    ASSUME PutDeleteApart, BucketsDiffer PROVE Spec => ListExact
<1>1. Init => TypeInv /\ AckInv /\ ListInv
  <2> SUFFICES ASSUME Init PROVE AckInv /\ ListInv
    BY TypeInvInit
  <2>1. \A p \in Names : recent[p] = {NoMeta} BY DEF Init, Names
  <2>2. \A m \in MapsOf(timeline) : DOMAIN m = {} BY DEF Init, MapsOf, KV!EmptyMap
  <2>3. \A m \in MapsOf(timeline), p \in Names : MetaIn(m, p) = NoMeta BY <2>2 DEF MetaIn
  <2>4. AckInv BY <2>1, <2>3 DEF AckInv
  <2>5. \A c \in Clients : op[c] = Idle BY DEF Init
  <2>6. ~Changes(Idle) /\ Idle.name = "" /\ Idle.name # "list" /\ Idle.pc # "flush" BY IdleType DEF Changes
  <2>7. ChangeOK(Idle) /\ (\A m : ChangedOK(m, Idle)) /\ \A l : Undisturbed(l, Idle) BY <2>6, NoChange
  <2>8. \A r : ListOK(r, Idle) BY <2>6, NoList
  <2>9. ShapeInv /\ ClashInv /\ ChangeInv /\ ShowInv
    BY <2>5, <2>6, <2>7, <2>8, IdleShape DEF ShapeInv, ClashInv, ChangeInv, ShowInv
  <2>10. NoMeta.state = "Pending" BY DEF NoMeta
  <2>11. NameInv /\ EntryInv BY <2>1, <2>2, <2>10 DEF NameInv, EntryInv
  <2> QED BY <2>4, <2>9, <2>11 DEF ListInv
<1>2. ASSUME TypeInv, AckInv, ListInv, Next
      PROVE  ListInv' /\ \A c \in Clients : up' => ListBack(op[c], op'[c])
  <2>1. CASE Crash
    <3>1. UNCHANGED <<timeline, recent>> /\ up' = FALSE /\ op' = [c \in Clients |-> Idle]
      BY <1>2, <2>1, CrashMoves, Zenon
    <3>2. ListInv' BY <1>2, <3>1, AllIdleList
    <3> QED BY <3>1, <3>2
  <2>2. CASE ~Crash BY <1>2, <2>2, ListInvNext DEF ListKept
  <2> QED BY <2>1, <2>2
<1>3. ASSUME ListInv, UNCHANGED vars PROVE ListInv'
  BY <1>3 DEF vars, ListInv, ShapeInv, ClashInv, ChangeInv, ShowInv, NameInv, EntryInv, Cur
<1>4. TypeInv /\ AckInv /\ ListInv /\ [Next]_vars => (TypeInv /\ AckInv /\ ListInv)'
  BY <1>2, <1>3, TypeInvNext, AckInvNext
<1>5. TypeInv /\ AckInv /\ ListInv /\ [Next]_vars =>
         [\A c \in Clients :
            op[c].pc = "list" /\ op'[c].pc = "idle" /\ up' =>
                /\ \A t \in op[c].listed : t.bucket = op[c].bucket
                /\ \A t \in op[c].settled :
                      t \in op[c].listed <=> Readable(t) /\ t.state = "Committed"]_vars
  <2> SUFFICES ASSUME TypeInv, AckInv, ListInv, Next, NEW c \in Clients, op[c].pc = "list", op'[c].pc = "idle", up'
               PROVE  /\ \A t \in op[c].listed : t.bucket = op[c].bucket
                      /\ \A t \in op[c].settled :
                            t \in op[c].listed <=> Readable(t) /\ t.state = "Committed"
    OBVIOUS
  <2>1. ListBack(op[c], op'[c]) BY <1>2
  <2> QED BY <2>1 DEF ListBack
<1> QED BY <1>1, <1>4, <1>5, PTL DEF Spec, ListExact
=============================================================================
