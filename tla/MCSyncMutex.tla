---------------------------- MODULE MCSyncMutex ----------------------------
(* Instances of SyncMutex for TLC. *)
EXTENDS SyncMutex

CONSTANTS a1, a2, o1, o2, o3

Accounts2 == {a1, a2}
Ops3 == {o1, o2, o3}
=============================================================================
