------------------------------ MODULE MCKVStore ------------------------------
(***************************************************************************)
(* The instances of KVStore that TLC checks: keys and values of one word,  *)
(* and, to look at the snapshot's text format, values of none and of two   *)
(* (OddVals; see the README).                                              *)
(***************************************************************************)
EXTENDS KVStore

MCWord == {"a", "b", "x", "y", "stub"}
MCKeys == {<<"a">>, <<"b">>}
OneKey == {<<"a">>}
MCVals == {<<"x">>, <<"y">>}
OneVal == {<<"x">>}
\* PUT key with no value, and a value with a blank in it
OddVals == {<<>>, <<"x">>, <<"x", "y">>}

=============================================================================
