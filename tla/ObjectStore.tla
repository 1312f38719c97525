----------------------------- MODULE ObjectStore -----------------------------
(***************************************************************************)
(* The object store: kv::ObjectStore (object_store.cpp) and its key codec. *)
(*                                                                         *)
(* It has no state but the KV store's.  Each operation is a series of KV   *)
(* calls; KVStore::mu_ makes one call atomic and nothing holds two of them *)
(* together, so clients interleave between any two calls and a crash can   *)
(* fall there too.  The KV store is used through what it promises,         *)
(* CrashSafeMap: timeline[1] is the map at the last flush and the last     *)
(* element is the current map.                                             *)
(*                                                                         *)
(* A name is the sequence of its colon-free parts: "a" is <<1>>, "a:b" is  *)
(* <<1, 2>>.  That is the only structure of a name that matters, because   *)
(* the codec joins names with ':'.  An etag stands for the bytes hashed.   *)
(***************************************************************************)
EXTENDS Integers, Sequences, SequencesExt

CONSTANTS
    Clients,           \* the threads that call the object store
    Buckets, Keys,     \* the names they use
    ListPrefixes,          \* the prefixes they list
    Requests,          \* the PutObjectRequests they make
    ChunkSizeBytes,    \* the constructor's argument (0 means the default)
    Ticks,             \* milliseconds the clock may advance between two puts
    Serialized,        \* the pairs of operations that callers keep apart
    Mixes              \* bound: how often each event may happen, in each mix explored

OpNames == {"create", "put", "get", "delete", "list", "gc"}

\* What is counted: calls, crashes, and flush_wal returning false.
Events == OpNames \cup {"crash", "flush_error"}

\* Data is a sequence of bytes, a content type that of its tab-free parts, at
\* most two.
PutObjectRequest == [bucket : Buckets, key : Keys, data : Seq(Nat),
                     content_type : {t \in Seq(STRING) : Len(t) \in 1..2}]

ASSUME ObjectStoreAssumption ==
    /\ Buckets \subseteq Seq(Nat) /\ Keys \subseteq Seq(Nat) /\ ListPrefixes \subseteq Seq(Nat)
    /\ Requests \subseteq PutObjectRequest
    /\ ChunkSizeBytes \in Nat
    /\ Ticks \subseteq Int
    /\ Serialized \subseteq SUBSET OpNames
    /\ Mixes \subseteq [Events -> Nat]

VARIABLES
    timeline, up,      \* the KV store, see CrashSafeMap
    now,               \* now_epoch_ms()
    op,                \* each client's running operation and its locals
    \* bookkeeping
    recent,            \* per object, the metadata a reader may find: the newest
                       \* at the last acknowledged put or delete, and later ones
    count              \* how often each event happened

vars == <<timeline, up, now, op, recent, count>>

KV == INSTANCE CrashSafeMap WITH Word <- Nat, Key <- {}, Val <- {}

Get(k) == KV!Current[k]
Has(k) == k \in DOMAIN KV!Current

-----------------------------------------------------------------------------
(* The key codec.  A KV key is its prefix and the parts joined after it.    *)

BucketMetaKey(b) == [kind |-> "bucket", path |-> b]
ObjectMetaKey(b, k) == [kind |-> "objmeta", path |-> b \o k]
BucketIndexKey(b, k) == [kind |-> "bucketidx", path |-> b \o k]
ChunkKey(id, i) == [kind |-> "objchunk", path |-> Append(id, i)]

ListKeys(kind) == {k \in DOMAIN KV!Current : k.kind = kind}

\* Mutant: the id is made of the names alone.
MakeObjectId_NoTime(b, k, ms) == (b \o k) \o <<0>>

MakeObjectId(b, k, ms) == (b \o k) \o <<ms>>

-----------------------------------------------------------------------------
(* Metadata and its text: the fields joined with tabs, so that a content    *)
(* type with a tab in it takes up two of them.  The reader then takes a     *)
(* time for the state, which does not fit an int: the metadata is           *)
(* unreadable.  Chunk size and times, which nothing reads, are left out.    *)

NoMeta == [object_id |-> <<>>, bucket |-> <<>>, key |-> <<>>, size_bytes |-> 0,
           chunk_count |-> 0, content_type |-> <<>>, etag |-> <<>>, state |-> "Pending"]

Deserialize(text) == IF Len(text.content_type) = 1 THEN text ELSE NoMeta

Readable(text) == Deserialize(text) # NoMeta

-----------------------------------------------------------------------------
(* Chunks.                                                                  *)

DefaultChunkSize == 4096

chunk_size_bytes_ == IF ChunkSizeBytes = 0 THEN DefaultChunkSize ELSE ChunkSizeBytes

ChunkCount(size) == (size + chunk_size_bytes_ - 1) \div chunk_size_bytes_

\* Chunk i of data, from 0.
ChunkValue(data, i) ==
    LET start == i * chunk_size_bytes_
        end == IF start + chunk_size_bytes_ < Len(data) THEN start + chunk_size_bytes_
                                                        ELSE Len(data)
    IN  SubSeq(data, start + 1, end)

-----------------------------------------------------------------------------
(* Operations.  op[c].pc is "idle", or says what the client does next:      *)
(* "write": the KV calls in queue, "flush": flush_wal, "get": read a chunk, *)
(* "list" and "mark": read the metadata of a key in todo and then return,   *)
(* or list the chunks, "sweep": look at a chunk key in todo.  error: the    *)
(* last GetObject missed a chunk.  The fields settled and garbage are       *)
(* ghosts: what was settled, or unreachable, when the operation began.      *)

PcNames == {"idle", "write", "flush", "get", "list", "mark", "sweep"}

Idle == [pc |-> "idle", name |-> "", bucket |-> <<>>, key |-> <<>>, queue |-> <<>>,
         meta |-> NoMeta, i |-> 0, data |-> <<>>, error |-> FALSE, todo |-> {}, listed |-> {},
         reachable |-> {}, settled |-> {}, garbage |-> {}]

Init ==
    /\ timeline = <<KV!EmptyMap>> /\ up = TRUE
    /\ now = 0
    /\ op = [c \in Clients |-> Idle]
    /\ recent = [p \in {b \o k : b \in Buckets, k \in Keys} |-> {NoMeta}]
    /\ count = [e \in Events |-> 0]

\* One more event e, within the bounds of some mix.
Counted(e) ==
    /\ count' = [count EXCEPT ![e] = @ + 1]
    /\ \E mix \in Mixes : \A x \in Events : count'[x] <= mix[x]

\* Client c calls operation o: the KV store is up, and no operation runs that
\* callers keep apart from o.
Called(c, o) ==
    /\ up /\ op[c].pc = "idle"
    /\ \A d \in Clients : op[d].pc # "idle" => {o, op[d].name} \notin Serialized
    /\ Counted(o)

\* Client c goes on with locals st.
Goto(c, st) == op' = [op EXCEPT ![c] = st]

Return(c) == Goto(c, Idle)

BucketExists(b) == b # <<>> /\ Has(BucketMetaKey(b))

\* A put or delete of object p begins: listings under way may show it or not.
Unsettle(p) ==
    [d \in Clients |-> [op[d] EXCEPT !.settled = {t \in @ : t.bucket \o t.key # p}]]

\* One call of the KV store in a queue.
PutCall(k, v) == [call |-> "put", key |-> k, val |-> v]
DelCall(k) == [call |-> "del", key |-> k, val |-> NoMeta]

\* CreateBucket.  An empty name is refused and an existing bucket left alone.
CreateBucket(c, b) ==
    /\ Called(c, "create")
    /\ b # <<>> /\ ~Has(BucketMetaKey(b))
    /\ Goto(c, [Idle EXCEPT !.pc = "write", !.name = "create",
                            !.queue = <<PutCall(BucketMetaKey(b), b)>>])
    /\ UNCHANGED <<timeline, up, now, recent>>

\* Mutant: metadata first.
PutCalls_MetaFirst(id, meta) ==
    LET chunks == [n \in 1..meta.chunk_count |->
                      PutCall(ChunkKey(id, n - 1), ChunkValue(meta.etag, n - 1))]
    IN  <<PutCall(ObjectMetaKey(meta.bucket, meta.key), meta)>> \o chunks \o
        <<PutCall(BucketIndexKey(meta.bucket, meta.key), id)>>

\* Mutant: no index entry.
PutCalls_NoIndex(id, meta) ==
    [n \in 1..meta.chunk_count |-> PutCall(ChunkKey(id, n - 1), ChunkValue(meta.etag, n - 1))]
    \o <<PutCall(ObjectMetaKey(meta.bucket, meta.key), meta)>>

\* What PutObject writes, in order: the chunks, the metadata (the commit
\* point), the index entry.
PutCalls(id, meta) ==
    [n \in 1..meta.chunk_count |-> PutCall(ChunkKey(id, n - 1), ChunkValue(meta.etag, n - 1))]
    \o <<PutCall(ObjectMetaKey(meta.bucket, meta.key), meta),
         PutCall(BucketIndexKey(meta.bucket, meta.key), id)>>

\* PutObject up to its first write.  An empty name or an unknown bucket is an
\* error, and nothing is written.
PutObject(c, req) ==
    /\ Called(c, "put")
    /\ BucketExists(req.bucket) /\ req.key # <<>>
    /\ \E t \in Ticks : now' = now + t
    /\ LET id == MakeObjectId(req.bucket, req.key, now')
           meta == [object_id |-> id, bucket |-> req.bucket, key |-> req.key,
                    size_bytes |-> Len(req.data), chunk_count |-> ChunkCount(Len(req.data)),
                    content_type |-> req.content_type, etag |-> req.data,
                    state |-> "Committed"]
       IN  op' = [Unsettle(req.bucket \o req.key) EXCEPT ![c] =
                    [Idle EXCEPT !.pc = "write", !.name = "put", !.bucket = req.bucket,
                                 !.key = req.key, !.queue = PutCalls(id, meta)]]
    /\ UNCHANGED <<timeline, up, recent>>

\* Mutant: the metadata is removed.
DeleteCalls_Erase(b, k, meta) ==
    <<DelCall(ObjectMetaKey(b, k)), DelCall(BucketIndexKey(b, k))>>

\* DeleteObject rewrites the metadata as deleted and removes the index entry;
\* the chunks stay.
DeleteCalls(b, k, meta) ==
    <<PutCall(ObjectMetaKey(b, k), [meta EXCEPT !.state = "Deleted"]),
      DelCall(BucketIndexKey(b, k))>>

\* DeleteObject up to its first write.  Missing or unreadable metadata is an
\* error; metadata that is deleted already is not.
DeleteObject(c, b, k) ==
    /\ Called(c, "delete")
    /\ Has(ObjectMetaKey(b, k)) /\ Readable(Get(ObjectMetaKey(b, k)))
    /\ op' = [Unsettle(b \o k) EXCEPT ![c] =
                [Idle EXCEPT !.pc = "write", !.name = "delete", !.bucket = b, !.key = k,
                             !.queue = DeleteCalls(b, k, Deserialize(Get(ObjectMetaKey(b, k))))]]
    /\ UNCHANGED <<timeline, up, now, recent>>

\* The next queued call.  CreateBucket returns without a flush.
Write(c) ==
    LET call == Head(op[c].queue)
        rest == Tail(op[c].queue)
    IN  /\ up /\ op[c].pc = "write"
        /\ IF call.call = "put" THEN KV!Put(call.key, call.val) ELSE KV!Del(call.key)
        /\ recent' = IF call.key.kind = "objmeta"
                     THEN [recent EXCEPT ![call.key.path] = @ \cup {call.val}] ELSE recent
        /\ IF rest # <<>> THEN Goto(c, [op[c] EXCEPT !.queue = rest])
           ELSE IF op[c].name = "create" THEN Return(c)
           ELSE Goto(c, [op[c] EXCEPT !.pc = "flush", !.queue = <<>>])
        /\ UNCHANGED <<now, count>>

\* Mutant: no flush_wal.
FlushWal_Skipped == UNCHANGED <<timeline, up>>

FlushWal == KV!Boundary

\* What is stored as the metadata of the object p in the current map.
StoredMeta(p) ==
    LET k == [kind |-> "objmeta", path |-> p]
    IN  IF Has(k) THEN Get(k) ELSE NoMeta

\* flush_wal succeeds and a put or delete answers ok.
Acknowledge(c) ==
    /\ up /\ op[c].pc = "flush"
    /\ FlushWal
    /\ LET p == op[c].bucket \o op[c].key
       IN  recent' = [recent EXCEPT ![p] = {StoredMeta(p)}]
    /\ Return(c)
    /\ UNCHANGED <<now, count>>

\* flush_wal fails: an error is returned, and what was written stays.
FlushFails(c) ==
    /\ up /\ op[c].pc = "flush"
    /\ Counted("flush_error")
    /\ Return(c)
    /\ UNCHANGED <<timeline, up, now, recent>>

-----------------------------------------------------------------------------
(* Reading.                                                                 *)

\* GetObject reads the metadata; missing, unreadable or deleted is an error.
GetObject(c, b, k) ==
    /\ Called(c, "get")
    /\ Has(ObjectMetaKey(b, k))
    /\ LET meta == Deserialize(Get(ObjectMetaKey(b, k)))
       IN  /\ meta # NoMeta /\ meta.state # "Deleted"
           /\ Goto(c, [Idle EXCEPT !.pc = "get", !.name = "get", !.bucket = b, !.key = k,
                                   !.meta = meta])
    /\ UNCHANGED <<timeline, up, now, recent>>

MoreChunks(c) == op[c].i < op[c].meta.chunk_count

\* The next chunk, or, if it is missing, an error.
GetChunk(c) ==
    /\ up /\ op[c].pc = "get" /\ MoreChunks(c)
    /\ LET k == ChunkKey(op[c].meta.object_id, op[c].i)
       IN  IF Has(k) THEN Goto(c, [op[c] EXCEPT !.i = @ + 1, !.data = @ \o Get(k)])
                     ELSE Goto(c, [Idle EXCEPT !.error = TRUE])
    /\ UNCHANGED <<timeline, up, now, recent, count>>

GetReturn(c) ==
    /\ up /\ op[c].pc = "get" /\ ~MoreChunks(c)
    /\ Return(c)
    /\ UNCHANGED <<timeline, up, now, recent, count>>

\* The objects of bucket b whose metadata has not changed since the last
\* acknowledged put or delete, and whose name begins with pre.
Settled(b, pre) ==
    {t \in UNION {recent[p] : p \in DOMAIN recent} :
        /\ t.bucket = b /\ recent[t.bucket \o t.key] = {t}
        /\ IsPrefix(pre, t.key)
        /\ \A d \in Clients : ~(op[d].name \in {"put", "delete"} /\ op[d].bucket = b
                                /\ op[d].key = t.key)}

\* ListObjects scans the index; an unknown bucket is an error.
ListObjects(c, b, pre) ==
    /\ Called(c, "list")
    /\ BucketExists(b)
    /\ Goto(c, [Idle EXCEPT !.pc = "list", !.name = "list", !.bucket = b,
                            !.todo = {k \in ListKeys("bucketidx") :
                                         IsPrefix(b \o pre, k.path) /\ Len(k.path) > Len(b)},
                            !.settled = Settled(b, pre)])
    /\ UNCHANGED <<timeline, up, now, recent>>

\* The metadata ListObjects shows, if it shows any, for an index key.
Shown(k) ==
    LET meta == StoredMeta(k.path)
    IN  {m \in {Deserialize(meta)} : m # NoMeta /\ m.state # "Deleted"}

\* One index key, in the unspecified order of an unordered_map.
ListEntry(c, k) ==
    /\ up /\ op[c].pc = "list" /\ k \in op[c].todo
    /\ Goto(c, [op[c] EXCEPT !.todo = @ \ {k}, !.listed = @ \cup Shown(k)])
    /\ UNCHANGED <<timeline, up, now, recent, count>>

ListReturn(c) ==
    /\ up /\ op[c].pc = "list" /\ op[c].todo = {}
    /\ Return(c)
    /\ UNCHANGED <<timeline, up, now, recent, count>>

-----------------------------------------------------------------------------
(* GarbageCollectChunks: mark, then sweep.                                  *)

\* Mutant: any readable metadata keeps its chunks.
KeepsChunks_Deleted(meta) == meta # NoMeta

KeepsChunks(meta) == meta # NoMeta /\ meta.state = "Committed"

\* The object ids metadata in map m refers to.
ReachableIn(m) ==
    {Deserialize(m[k]).object_id : k \in {x \in DOMAIN m : x.kind = "objmeta" /\
        Readable(m[x]) /\ Deserialize(m[x]).state = "Committed"}}

\* The object id in a chunk key: all but the part after the last ':'.
IdOf(k) == Front(k.path)

GarbageCollectChunks(c) ==
    /\ Called(c, "gc")
    /\ Goto(c, [Idle EXCEPT !.pc = "mark", !.name = "gc", !.todo = ListKeys("objmeta"),
                            !.garbage = {k \in ListKeys("objchunk") :
                                            IdOf(k) \notin ReachableIn(KV!Current)}])
    /\ UNCHANGED <<timeline, up, now, recent>>

\* Metadata is never removed, so a listed key is still there.
GcMark(c, k) ==
    /\ up /\ op[c].pc = "mark" /\ k \in op[c].todo
    /\ LET meta == Deserialize(StoredMeta(k.path))
       IN  Goto(c, [op[c] EXCEPT !.todo = @ \ {k},
                      !.reachable = @ \cup {m.object_id : m \in {x \in {meta} : KeepsChunks(x)}}])
    /\ UNCHANGED <<timeline, up, now, recent, count>>

GcScan(c) ==
    /\ up /\ op[c].pc = "mark" /\ op[c].todo = {}
    /\ Goto(c, [op[c] EXCEPT !.pc = "sweep", !.todo = ListKeys("objchunk")])
    /\ UNCHANGED <<timeline, up, now, recent, count>>

GcSweep(c, k) ==
    /\ up /\ op[c].pc = "sweep" /\ k \in op[c].todo
    /\ IF IdOf(k) \in op[c].reachable THEN UNCHANGED <<timeline, up>> ELSE KV!Del(k)
    /\ Goto(c, [op[c] EXCEPT !.todo = @ \ {k}])
    /\ UNCHANGED <<now, recent, count>>

\* The sweep is over.  flush_wal's result is not looked at.
GcReturn(c) ==
    /\ up /\ op[c].pc = "sweep" /\ op[c].todo = {}
    /\ \/ FlushWal /\ UNCHANGED count
       \/ Counted("flush_error") /\ UNCHANGED <<timeline, up>>
    /\ Return(c)
    /\ UNCHANGED <<now, recent>>

-----------------------------------------------------------------------------
(* Crashes: the KV store loses part of what was not flushed, the clients    *)
(* everything.                                                              *)

Crash ==
    /\ KV!Crash
    /\ Counted("crash")
    /\ op' = [c \in Clients |-> Idle]
    /\ UNCHANGED <<now, recent>>

Recover ==
    /\ KV!Recover
    /\ UNCHANGED <<now, op, recent, count>>

Next ==
    \/ \E c \in Clients, b \in Buckets : CreateBucket(c, b)
    \/ \E c \in Clients, req \in Requests : PutObject(c, req)
    \/ \E c \in Clients, b \in Buckets, k \in Keys : DeleteObject(c, b, k)
    \/ \E c \in Clients, b \in Buckets, k \in Keys : GetObject(c, b, k)
    \/ \E c \in Clients, b \in Buckets, pre \in ListPrefixes : ListObjects(c, b, pre)
    \/ \E c \in Clients : GarbageCollectChunks(c)
    \/ \E c \in Clients : Write(c) \/ Acknowledge(c) \/ FlushFails(c)
    \/ \E c \in Clients : GetChunk(c) \/ GetReturn(c)
    \/ \E c \in Clients : \E k \in op[c].todo : ListEntry(c, k)
    \/ \E c \in Clients : ListReturn(c)
    \/ \E c \in Clients : \E k \in op[c].todo : GcMark(c, k) \/ GcSweep(c, k)
    \/ \E c \in Clients : GcScan(c) \/ GcReturn(c)
    \/ Crash
    \/ Recover

Spec == Init /\ [][Next]_vars

-----------------------------------------------------------------------------
(* Properties.                                                              *)

\* Type invariant: the locals of each operation and the bookkeeping.
TypeOK ==
    /\ up \in BOOLEAN /\ now \in Int /\ timeline # <<>>
    /\ \A c \in Clients :
          /\ op[c].pc \in PcNames /\ op[c].name \in OpNames \cup {""}
          /\ op[c].i \in 0..op[c].meta.chunk_count
          /\ op[c].pc = "mark" => op[c].todo \subseteq ListKeys("objmeta")
          /\ op[c].pc = "write" => op[c].queue # <<>>
    /\ count \in [Events -> Nat]

\* The chunks of meta are all in map m, and byte for byte the object.
Whole(m, meta) ==
    /\ meta.size_bytes = Len(meta.etag)
    /\ \A n \in 0..(meta.chunk_count - 1) : ChunkKey(meta.object_id, n) \in DOMAIN m
    /\ \A p \in 0..(meta.size_bytes - 1) :
          LET k == ChunkKey(meta.object_id, p \div chunk_size_bytes_)
          IN  /\ k \in DOMAIN m
              /\ (p % chunk_size_bytes_) + 1 \in DOMAIN m[k]
              /\ m[k][(p % chunk_size_bytes_) + 1] = meta.etag[p + 1]

\* The commit point (PutObject, GarbageCollectChunks): in the current map and
\* in every map a crash can leave, metadata that says committed has exactly
\* the bytes that were put, whatever puts, deletes and collections were under
\* way or cut short.
Intact ==
    \A i \in DOMAIN timeline : \A k \in DOMAIN timeline[i] :
        k.kind = "objmeta" =>
            LET meta == Deserialize(timeline[i][k])
            IN  meta.state = "Committed" => Whole(timeline[i], meta)

\* Acknowledged puts and deletes last (flush_wal in PutObject, DeleteObject):
\* once one is answered ok, every map a crash can leave shows the object as
\* the newest write before the answer, or a later one, left it.
AckedStays ==
    \A i \in DOMAIN timeline : \A p \in DOMAIN recent :
        LET k == [kind |-> "objmeta", path |-> p]
        IN  (IF k \in DOMAIN timeline[i] THEN timeline[i][k] ELSE NoMeta) \in recent[p]

\* GetObject reads metadata and chunks in separate calls, and yet returns the
\* bytes of the one version whose metadata it read: it never mixes two
\* versions nor misses a chunk, under overwrites and deletes on the way.
ReadsWhole ==
    [][\A c \in Clients :
         op[c].pc = "get" /\ op'[c].pc = "idle" /\ up' =>
             /\ ~op'[c].error
             /\ op[c].data = op[c].meta.etag
             /\ op[c].meta.bucket = op[c].bucket /\ op[c].meta.key = op[c].key]_vars

\* ListObjects against puts, deletes and crashes: of the objects that did not
\* change while it ran, and whose last change was acknowledged, it shows just
\* the committed ones that can be read; and only objects of the bucket.
ListExact ==
    [][\A c \in Clients :
         op[c].pc = "list" /\ op'[c].pc = "idle" /\ up' =>
             /\ \A t \in op[c].listed : t.bucket = op[c].bucket
             /\ \A t \in op[c].settled :
                   t \in op[c].listed <=> Readable(t) /\ t.state = "Committed"]_vars

\* GarbageCollectChunks reclaims: when it returns, every chunk that nothing
\* referred to when it began is gone, those of crashed puts included.
GcReclaims ==
    [][\A c \in Clients :
         op[c].name = "gc" /\ op'[c].pc = "idle" /\ up' =>
             op[c].garbage \cap DOMAIN KV!Current = {}]_vars
=============================================================================
