----------------------------- MODULE LocksClaims -----------------------------
(* What the lock-order document and comments say, as properties of Locks.    *)
EXTENDS MCLocks

\* The data directory's lock appears in no section already under a lock.
DataDirNotNested ==
  \A t \in Workers : Wants(t) /\ Wanted(t) = "dataDir" => Holds(t) = {}

\* Questions such as is_run_active are asked before db is taken.
ActiveAskedBeforeDb ==
  \A t \in Workers : Wants(t) /\ Wanted(t) = "activeRun" => "db" \notin Holds(t)

\* The search for the session of a message comes to an answer.
FindReturns == \A t \in Workers : Wants(t) => Wanted(t) \notin Holds(t)
=============================================================================
