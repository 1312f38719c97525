---------------------------- MODULE MCObjectStore ----------------------------
(***************************************************************************)
(* The instances of ObjectStore that TLC checks.                           *)
(***************************************************************************)
EXTENDS ObjectStore

\* "a", and keys "c" and "d"
OneBucket == {<<1>>}
MCKeys == {<<3>>, <<4>>}
OneKey == {<<3>>}
\* bucket "a" with key "b:c" and bucket "a:b" with key "c"
ColonBuckets == {<<1>>, <<1, 2>>}
ColonKeys == {<<3>>, <<2, 3>>}
NoPrefix == {<<>>}
MCPrefixes == {<<>>, <<3>>}

Req(b, k, data, ctype) == [bucket |-> b, key |-> k, data |-> data, content_type |-> ctype]

\* With chunks of two bytes: a full chunk and a short last one, a full chunk,
\* another object with no chunk at all, and a content type with a tab.
MCRequests == {Req(<<1>>, <<3>>, <<7, 8, 9>>, <<"plain">>),
               Req(<<1>>, <<3>>, <<5, 6>>, <<"plain">>),
               Req(<<1>>, <<4>>, <<>>, <<"plain">>),
               Req(<<1>>, <<3>>, <<5>>, <<"pl", "ain">>)}
TwoRequests == {Req(<<1>>, <<3>>, <<7, 8, 9>>, <<"plain">>),
                Req(<<1>>, <<3>>, <<5, 6>>, <<"plain">>)}
ColonRequests == {Req(<<1>>, <<2, 3>>, <<5>>, <<"plain">>),
                  Req(<<1, 2>>, <<3>>, <<7>>, <<"plain">>)}

\* What callers must keep apart for the properties to hold.
KeptApart == {{"put", "delete"}, {"put", "gc"}, {"get", "gc"}}

\* So many of each event.
Mix(create, put, get, delete, list, gc, crash, flush_error) ==
    [e \in Events |-> CASE e = "create" -> create [] e = "put" -> put [] e = "get" -> get
                        [] e = "delete" -> delete [] e = "list" -> list [] e = "gc" -> gc
                        [] e = "crash" -> crash [] e = "flush_error" -> flush_error]

MCMixes == {Mix(1, 2, 1, 1, 0, 0, 1, 0), Mix(1, 2, 0, 1, 1, 0, 1, 0),
            Mix(1, 2, 0, 0, 0, 1, 1, 1), Mix(1, 2, 0, 1, 0, 1, 1, 0)}
\* Two puts and a crash.
OverwriteMix == {Mix(1, 2, 0, 0, 0, 0, 1, 0)}

ClientSymmetry == Permutations(Clients)
=============================================================================
