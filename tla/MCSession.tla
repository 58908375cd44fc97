----------------------------- MODULE MCSession -----------------------------
(* Three components of one session for TLC, side by side: its temporary       *)
(* space, the context of its runs, and what a window shows of a run. They     *)
(* share no state; the first state says which of them a behaviour is about,   *)
(* and the variables of the others are None in it. (The module of the largest *)
(* is extended and not instantiated: TLC evaluates it faster.)                *)
EXTENDS TempSpace

\* The bounds of Ctx, and those of View.
CONSTANTS MaxLog, MaxCalls, MaxProposals,
          MaxMsgs, MaxChunks, MaxTries, MaxCards, MaxBeside, MaxPipe

VARIABLES part,
  log, upTo, old, oldUpTo, proposal, asked, proposals, sums, rejected, raced, refused,
  tail, halting, db, pipe, page, resp, view, buf, shown, loose, counts

ofSpace == <<src, root, copy, sha, pending, at, mem, merge, clears, edits, builds,
             faults, yours, risked, halfway, crossed>>
ofContext == <<log, upTo, old, oldUpTo, proposal, asked, proposals, sums, rejected,
               raced, refused>>
ofView == <<tail, halting, db, pipe, page, resp, view, buf, shown, loose, counts>>

\* A session begins empty or as the migration left it.
Log == INSTANCE Context WITH MaxLog <- 0, MaxBeside <- 0, MaxCalls <- 0, Horizon <- 1,
         Limits <- {}, Histories <- {}, OldRoles <- {}, MaxProposals <- 0
Migrated == <<Log!User(FALSE), Log!Assistant(1), Log!Tool(2, 1, "other"), Log!Assistant(0)>>
StartLogs == {[log |-> << >>, upTo |-> 0], [log |-> Migrated, upTo |-> 0],
              [log |-> Migrated, upTo |-> 2], [log |-> Migrated, upTo |-> 4]}
Ctx == INSTANCE Context WITH MaxBeside <- 2, Horizon <- 1,
         Limits <- {3, 8}, Histories <- StartLogs,
         OldRoles <- {<< >>, <<"user", "assistant">>}

View == INSTANCE RunView

ASSUME PartsAssumption ==
  SpaceAssumption /\ Ctx!ContextAssumption /\ View!RunViewAssumption

NoSpace ==
  /\ src = None /\ root = None /\ copy = None /\ sha = None /\ pending = None
  /\ at = None /\ mem = None /\ merge = None /\ clears = None /\ edits = None
  /\ builds = None /\ faults = None /\ yours = None /\ risked = None
  /\ halfway = None /\ crossed = None
NoContext ==
  /\ log = None /\ upTo = None /\ old = None /\ oldUpTo = None
  /\ proposal = None /\ asked = None /\ proposals = None /\ sums = None
  /\ rejected = None /\ raced = None /\ refused = None
NoView ==
  /\ tail = None /\ halting = None /\ db = None /\ pipe = None /\ page = None
  /\ resp = None /\ view = None /\ buf = None /\ shown = None
  /\ loose = None /\ counts = None
PartsInit ==
  \/ /\ part = "space" /\ Init /\ NoContext /\ NoView
  \/ /\ part = "context" /\ Ctx!Init /\ here = None /\ snap = None
     /\ NoSpace /\ NoView
  \/ /\ part = "view" /\ View!Init /\ NoSpace /\ NoContext

PartsNext ==
  \/ part = "space" /\ Next /\ UNCHANGED <<part, ofContext, ofView>>
  \/ part = "context" /\ Ctx!Next /\ UNCHANGED <<part, ofSpace, ofView, here, snap>>
  \/ part = "view" /\ View!Next /\ UNCHANGED <<part, ofSpace, ofContext>>

PartsSpec ==
  PartsInit /\ [][PartsNext]_<<part, here, run, snap, ofSpace, ofContext, ofView>>

(* For the run alone: PartsSpec where a behaviour does not use up all bounds  *)
(* of its component together. A space has MaxTogether edits, builds and faults *)
(* in all; a compaction is refused on a log of MaxRefused messages at most,   *)
(* and ends the behaviour (it changes only refused, which no step reads); the *)
(* last message is not streamed to its end when every event beside is used.   *)
MaxTogether == MaxEdits + MaxBuilds
MaxRefused == 2
OfSpaceBounded == edits' + builds' + faults' <= MaxTogether
OfContextBounded == ~refused /\ (refused' => Ctx!Len(log) <= MaxRefused)
OfViewBounded ==
  View!Len(db') = MaxMsgs /\ counts'.beside = MaxBeside =>
    run'.n < MaxChunks /\ (tail' # None => tail'.n < MaxChunks)
BoundedNext ==
  \/ part = "space" /\ PartsNext /\ OfSpaceBounded
  \/ part = "context" /\ PartsNext /\ OfContextBounded
  \/ part = "view" /\ PartsNext /\ OfViewBounded

BoundedSpec ==
  PartsInit /\ [][BoundedNext]_<<part, here, run, snap, ofSpace, ofContext, ofView>>

-----------------------------------------------------------------------------
(* The variables of each component keep their types.                         *)
PartsTypeOK ==
  /\ part = "space" => TypeOK
  /\ part = "context" => Ctx!TypeOK
  /\ part = "view" => View!TypeOK

(* What the user has in the projects a merge overwrites only with an answer   *)
(* of the model, or unread; every copy that may be merged has the baseline    *)
(* that conflicts are told by, and a session said to be merged has its space. *)
UsersWorkIsKept ==
  part = "space" =>
    UserEditsSurvive /\ CopiesHaveBaselines /\ MergedHasSpace

(* Whatever is folded, pruned and compacted, the context sent to the model    *)
(* has each result behind its call and the latest turn whole, and a           *)
(* compaction the user rejected is not in it.                                 *)
ContextIsSound ==
  part = "context" =>
    Ctx!ContextsSound /\ Ctx!RejectedIsNotApplied

(* The snapshot holds one step's text, a window that left and came back       *)
(* reads finished messages right, but for those FinishedReadsRight excepts,   *)
(* and shows the request the run waits for.                                   *)
RunIsShown ==
  part = "view" =>
    View!SnapshotIsOneStep /\ View!FinishedReadsRight /\ View!AskedIsShown
=============================================================================
