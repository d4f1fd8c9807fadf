---------------------------- MODULE MCTimeLocks ----------------------------
(* A small instance of TimeLocks for TLC. *)
EXTENDS TimeLocks

CONSTANTS u1, a1, a2, p1, p2

(* Three at a time, a pass among them: what happens between two unlocks, an *)
(* unlock and two passes, an unlock and a sync.                             *)
ThreeAtATime == {{u1, p1, p2}, {u1, a1, p1}, {a1, a2, p1}, {u1, "syncs", p1}}
=============================================================================
