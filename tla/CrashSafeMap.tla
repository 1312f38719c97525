----------------------------- MODULE CrashSafeMap -----------------------------
(***************************************************************************)
(* What the storage engine promises (README, "Guarantees"): writes reach a *)
(* map in order; a durability boundary (a flush that succeeded) makes      *)
(* every earlier write permanent; a crash loses at most a suffix of the    *)
(* writes made since the last boundary.                                    *)
(*                                                                         *)
(* timeline[1] is the map at the last durability boundary and timeline     *)
(* goes on with the map after each later write, so its last element is the *)
(* current map.  Recovery returns to one of them.                          *)
(***************************************************************************)
EXTENDS StoreFiles

CONSTANTS Key, Val

VARIABLES timeline, up

Current == timeline[Len(timeline)]

Init ==
    /\ timeline = <<EmptyMap>>
    /\ up = FALSE

Put(k, v) ==
    /\ up
    /\ timeline' = Append(timeline, MapPut(Current, k, v))
    /\ UNCHANGED up

Del(k) ==
    /\ up
    /\ timeline' = Append(timeline, MapErase(Current, k))
    /\ UNCHANGED up

\* Everything written so far becomes permanent.
Boundary ==
    /\ up
    /\ timeline' = <<Current>>
    /\ UNCHANGED up

Crash ==
    /\ up
    /\ up' = FALSE
    /\ UNCHANGED timeline

Recover ==
    /\ ~up
    /\ \E i \in 1..Len(timeline) : timeline' = SubSeq(timeline, 1, i)
    /\ up' = TRUE

Next ==
    \/ \E k \in Key : Del(k) \/ \E v \in Val : Put(k, v)
    \/ Boundary \/ Crash \/ Recover

Spec == Init /\ [][Next]_<<timeline, up>>
=============================================================================
