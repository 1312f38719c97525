------------------------------ MODULE StoreFiles ------------------------------
(***************************************************************************)
(* The two files the storage engine recovers from, and what reading them   *)
(* back does: the write-ahead log (wal.cpp) and the snapshot text file     *)
(* (kv_store.cpp).                                                         *)
(*                                                                         *)
(* A std::string is modelled by the sequence of its blank-separated words: *)
(* "" is <<>>, "abc" is <<abc>>, "a b" is <<a, b>>.  That is the only      *)
(* structure of a string any property here depends on, because the         *)
(* snapshot is written with blanks between strings and read back by word.  *)
(*                                                                         *)
(* Both readers are loops in the code.  The store uses them in closed form *)
(* (the last record of a key wins), which the prover can reason about; the *)
(* loops themselves, ReplayLoop and LoadLoop, compute the same             *)
(* (ReplayIsLoop and LoadIsLoop of StoreFilesProofs).                      *)
(***************************************************************************)
EXTENDS Integers, Sequences, FiniteSetsExt

CONSTANT Word        \* the blank-free words strings are made of

Str == Seq(Word)

-----------------------------------------------------------------------------
(* The in-memory map: a function whose domain is the set of present keys.   *)

EmptyMap == [k \in {} |-> <<>>]

MapPut(m, k, v) == [x \in DOMAIN m \cup {k} |-> IF x = k THEN v ELSE m[x]]

MapErase(m, k) == [x \in DOMAIN m \ {k} |-> m[x]]

\* The maps from strings to strings.
IsMap(m) == DOMAIN m \subseteq Str /\ m \in [DOMAIN m -> Str]

-----------------------------------------------------------------------------
(* WAL records.  A record whose header is cut short, or whose CRC does not  *)
(* match, is one that replay stops at: the single value TornRecord.         *)

WriteRecord(t, s, k, v) == [type |-> t, seq |-> s, key |-> k, val |-> v]

WalRecord == [type : {"Put", "Del"}, seq : Nat, key : Str, val : Str]

TornRecord == [type |-> "Torn", seq |-> 0, key |-> <<>>, val |-> <<>>]

\* How many leading records replay reads before it stops (last_good_offset_).
GoodLen(f) == Max({n \in 0..Len(f) : \A i \in 1..n : f[i].type # "Torn"})

\* The effect of one record on the map, when it is logged and when replayed.
ApplyRecord(m, r) ==
    IF r.type = "Put" THEN MapPut(m, r.key, r.val) ELSE MapErase(m, r.key)

\* The positions, among the first n records of f, of the records of key k.
RecordsOf(f, n, k) == {i \in 1..n : f[i].key = k}

\* Mutant: the CRC is not compared, and a torn record is replayed as a put of
\* what is left of it.
ReplayInto_NoCrc(m, f) ==
    LET logged == {f[i].key : i \in DOMAIN f}
        last(k) == f[Max(RecordsOf(f, Len(f), k))]
    IN  [k \in {x \in DOMAIN m \cup logged : x \in logged => last(x).type # "Del"}
           |-> IF k \in logged THEN last(k).val ELSE m[k]]

\* The map after replaying f over m: for each key the last good record wins.
ReplayInto(m, f) ==
    LET n == GoodLen(f)
        logged == {f[i].key : i \in 1..n}
        last(k) == f[Max(RecordsOf(f, n, k))]
    IN  [k \in {x \in DOMAIN m \cup logged : x \in logged => last(x).type = "Put"}
           |-> IF k \in logged THEN last(k).val ELSE m[k]]

\* Mutant: max_seq is not updated in the loop.
MaxSeq_Lost(f) == 0

\* max_seq, the highest sequence number replay saw.
MaxSeq(f) == Max({0} \cup {f[i].seq : i \in 1..GoodLen(f)})

\* One turn of replay_into's loop, on what it has read so far.
ReplayStep(st, r) ==
    IF st.stopped \/ r.type = "Torn"
    THEN [stopped |-> TRUE, map |-> st.map, max_seq |-> st.max_seq]
    ELSE [stopped |-> FALSE, map |-> ApplyRecord(st.map, r),
          max_seq |-> IF r.seq > st.max_seq THEN r.seq ELSE st.max_seq]

\* replay_into's loop over the records of f, from the map m.
ReplayLoop(m, f) ==
    LET run[n \in 0..Len(f)] ==
          IF n = 0 THEN [stopped |-> FALSE, map |-> m, max_seq |-> 0]
          ELSE ReplayStep(run[n - 1], f[n])
    IN  run[Len(f)]

-----------------------------------------------------------------------------
(* The snapshot file is the sequence of words a reader sees.                *)

\* One line "key TAB value" of the snapshot.
SnapshotLine(k, v) == k \o v

\* The pairs a reader extracts whose first word is w.
PairsOf(f, w) == {i \in 1..(Len(f) \div 2) : f[2*i - 1] = w}

\* Mutant: a key without a value is taken, with the value "".
LoadFromFile_KeyOnly(f) ==
    [k \in {<<f[2*i - 1]>> : i \in 1..((Len(f) + 1) \div 2)}
       |-> IF PairsOf(f, k[1]) = {} THEN <<>> ELSE <<f[2 * Max(PairsOf(f, k[1]))]>>]

\* Reading the file two words at a time into an empty map, later pairs
\* overwriting earlier ones; a last word without a partner is dropped.
LoadFromFile(f) ==
    [k \in {<<f[2*i - 1]>> : i \in 1..(Len(f) \div 2)}
       |-> <<f[2 * Max(PairsOf(f, k[1]))]>>]

\* The same as the loop it is: while (in >> k >> v) map_[k] = v;
LoadLoop(f) ==
    LET run[n \in 0..(Len(f) \div 2)] ==
          IF n = 0 THEN EmptyMap ELSE MapPut(run[n - 1], <<f[2*n - 1]>>, <<f[2*n]>>)
    IN  run[Len(f) \div 2]
=============================================================================
