-------------------------- MODULE SnapshotRegister --------------------------
(***************************************************************************)
(* What the quota stream promises to one data plane replica, without       *)
(* channels, streams and locks: a register that the control plane writes   *)
(* and may forget, and a reader that attaches to it and then only sees     *)
(* snapshots at least as new as the register was when it attached.         *)
(* QuotaStream is shown to implement it.  That the reader sees the last    *)
(* snapshot in the end is no part of this: it is QuotaStream's Converges.  *)
(***************************************************************************)
EXTENDS Naturals

VARIABLES
    saves,      \* the number of snapshots written so far
    current,    \* the newest snapshot, 0 when there is none
    floor,      \* what was newest when the reader attached; 0: not attached
    seen        \* the reader's copy

vars == <<saves, current, floor, seen>>

Init == saves = 0 /\ current = 0 /\ floor = 0 /\ seen = 0

Write ==
    /\ saves' = saves + 1 /\ current' = saves'
    /\ UNCHANGED <<floor, seen>>

Forget == current' = 0 /\ UNCHANGED <<saves, floor, seen>>

Attach == floor' = saves /\ UNCHANGED <<saves, current, seen>>

Detach == floor' = 0 /\ UNCHANGED <<saves, current, seen>>

\* Never a snapshot older than the reader's session, never an invented one.
Read ==
    /\ seen' \in Nat /\ seen' > 0 /\ seen' >= floor /\ seen' <= saves
    /\ UNCHANGED <<saves, current, floor>>

Next == Write \/ Forget \/ Attach \/ Detach \/ Read

Spec == Init /\ [][Next]_vars
=============================================================================
