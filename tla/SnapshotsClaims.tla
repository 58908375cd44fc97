--------------------------- MODULE SnapshotsClaims ---------------------------
(***************************************************************************)
(* What the comments say of reverts to a message, and the program does not *)
(* do.                                                                     *)
(***************************************************************************)
EXTENDS MCSnapshots

\* commands.rs:3840 "the code is physically restored to what it was before the
\* message was sent", store.rs:5535 "in reverse order, last in first out": the
\* list comes with the newest row first, and revert_snapshots works on it from
\* its end.
RevertToRestores == \A t \in Threads : Restores(t, {"to"})
=============================================================================
