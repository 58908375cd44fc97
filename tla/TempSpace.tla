----------------------------- MODULE TempSpace -----------------------------
(***************************************************************************)
(* The temporary space of one session (temp.rs): every project of the      *)
(* session is copied into a directory of its own, a commit there is the    *)
(* baseline, the agent works on the copies and a merge carries what        *)
(* changed against the baseline back to the project.  A merge that meets   *)
(* an edit of the user asks the model, and awaits it; the rest of a merge  *)
(* of one project is taken in one step.                                    *)
(*                                                                         *)
(* A project has one file, either Absent or the set of the edits it holds. *)
(* A repository is told by the number of its build; 0 is "no baseline".    *)
(***************************************************************************)
EXTENDS Naturals

CONSTANTS N,          \* projects, taken in this order
          Binary,     \* those whose file no merge touches
          Touched,    \* those the user and the agent work on
          Threads,    \* of the user's merges
          Clearers,   \* of the user's clears
          Agent,      \* the run's own call of temp_merge
          Absent, None,
          MaxEdits, MaxBuilds, MaxFaults

Projects == 1 .. N
Mergers == Threads \cup {Agent}
File == {Absent} \cup SUBSET (1 .. MaxEdits)
Copy == [file : File, base : File, build : 0 .. MaxBuilds]

SpaceAssumption ==
  /\ {N, MaxEdits, MaxBuilds, MaxFaults} \subseteq Nat
  /\ Binary \cup Touched \subseteq 1 .. N
  /\ Agent \notin Threads
  /\ \A f \in SUBSET (1 .. MaxEdits) : f # Absent
  /\ \A c \in Copy : c # None

VARIABLES src,      \* the file in the user's project
          here,     \* the project's directory exists
          root,     \* the directory of the space exists
          copy,     \* the copies, None where there is none
          sha,      \* the baselines of the manifest
          snap,     \* the newest snapshot of the copies, or None
          pending,  \* sessions.merged_pending
          run,      \* "off", "ensure" or "on"
          at, mem,  \* ensure_space: the next project, the manifest in memory
          merge,    \* the merges under way
          clears,   \* threads in clear_space past its guards
          edits, builds, faults,  \* counters
          yours,    \* edits the user made since the copy was built
          risked,   \* those made while a merge awaited the model for the file, not read
            \* by a merge, or left out of the model's answer
          halfway,  \* projects built by an ensure_space that did not end
          crossed   \* a clear met a merge, or a run that began after its guard

vars == <<src, here, root, copy, sha, snap, pending, run, at, mem, merge, clears,
          edits, builds, faults, yours, risked, halfway, crossed>>

space == <<root, copy, sha, snap>>
ensuring == <<run, at, mem>>
counters == <<edits, builds, faults>>
history == <<yours, risked, halfway, crossed>>

Idle == [pc |-> "idle", at |-> 0, sha |-> [p \in Projects |-> 0],
         orig |-> Absent, temp |-> Absent]

TypeOK ==
  /\ src \in [Projects -> File] /\ here \in [Projects -> BOOLEAN]
  /\ root \in BOOLEAN
  /\ copy \in [Projects -> Copy \cup {None}]
  /\ sha \in [Projects -> 0 .. MaxBuilds]
  /\ snap \in [Projects -> File \cup {None}] \cup {None}
  /\ pending \in BOOLEAN
  /\ run \in {"off", "ensure", "on"} /\ at \in 0 .. N + 1
  /\ mem \in [Projects -> 0 .. MaxBuilds]
  /\ \A m \in Mergers : /\ merge[m].pc \in {"idle", "on", "ask"}
                        /\ merge[m].at \in 0 .. N + 1
                        /\ {merge[m].orig, merge[m].temp} \subseteq File
  /\ clears \subseteq Clearers
  /\ edits \in 0 .. MaxEdits /\ builds \in 0 .. MaxBuilds /\ faults \in 0 .. MaxFaults
  /\ \A p \in Projects : yours[p] \cup risked[p] \subseteq 1 .. MaxEdits
  /\ halfway \subseteq Projects /\ crossed \in BOOLEAN

\* alloc and create_session: the manifest names the copies, none exists yet
Init ==
  /\ src = [p \in Projects |-> {}] /\ here = [p \in Projects |-> TRUE]
  /\ root = FALSE /\ copy = [p \in Projects |-> None]
  /\ sha = [p \in Projects |-> 0] /\ snap = None /\ pending = FALSE
  /\ run = "off" /\ at = 0 /\ mem = [p \in Projects |-> 0]
  /\ merge = [m \in Mergers |-> Idle] /\ clears = {}
  /\ edits = 0 /\ builds = 0 /\ faults = 0
  /\ yours = [p \in Projects |-> {}] /\ risked = [p \in Projects |-> {}]
  /\ halfway = {} /\ crossed = FALSE

Asking(p) == \E m \in Mergers : merge[m].pc = "ask" /\ merge[m].at = p

----------------------------------------------------------------------------
\* The user's projects

Lines(file) == IF file = Absent THEN {} ELSE file
Edited(file, e) == Lines(file) \cup {e}

UserEdit(p) ==
  /\ here[p] /\ edits < MaxEdits
  /\ edits' = edits + 1
  /\ src' = [src EXCEPT ![p] = Edited(@, edits')]
  /\ yours' = [yours EXCEPT ![p] = @ \cup {edits'}]
  /\ risked' = IF Asking(p) THEN [risked EXCEPT ![p] = @ \cup {edits'}] ELSE risked
  /\ UNCHANGED <<here, pending, merge, clears, builds, faults, halfway, crossed>>
  /\ UNCHANGED <<space, ensuring>>

UserDelete(p) ==
  /\ here[p] /\ src[p] # Absent
  /\ src' = [src EXCEPT ![p] = Absent] /\ yours' = [yours EXCEPT ![p] = {}]
  /\ UNCHANGED <<here, pending, merge, clears, counters, risked, halfway, crossed>>
  /\ UNCHANGED <<space, ensuring>>

\* the directory of a project is moved away, or back
UserMoves(p) ==
  /\ here[p] => faults < MaxFaults
  /\ faults' = IF here[p] THEN faults + 1 ELSE faults
  /\ here' = [here EXCEPT ![p] = ~@]
  /\ UNCHANGED <<src, pending, merge, clears, edits, builds, history>>
  /\ UNCHANGED <<space, ensuring>>

----------------------------------------------------------------------------
\* ensure_space, at the start of every run of the session

StartRun ==
  /\ run = "off"
  /\ run' = "ensure" /\ at' = 1 /\ mem' = sha /\ root' = TRUE
  /\ UNCHANGED <<src, here, copy, sha, snap, pending, merge, clears, counters, history>>

\* an error ends the run; what was built stays, its baseline was only in memory
EnsureFails(built) ==
  /\ run' = "off" /\ at' = 0 /\ mem' = [p \in Projects |-> 0]
  /\ halfway' = halfway \cup built \cup {p \in Projects : run = "ensure" /\ mem[p] # sha[p]}

EnsureSkips ==
  /\ run = "ensure" /\ at \in Projects /\ copy[at] # None
  /\ at' = at + 1
  /\ UNCHANGED <<src, here, pending, run, mem, merge, clears, counters, history, space>>

EnsureMisses ==
  /\ run = "ensure" /\ at \in Projects /\ copy[at] = None /\ ~here[at]
  /\ EnsureFails({})
  /\ UNCHANGED <<src, here, pending, merge, clears, counters, yours, risked, crossed, space>>

\* copy_project and git_baseline; an error leaves a copy without a repository
EnsureBuilds ==
  /\ run = "ensure" /\ at \in Projects /\ copy[at] = None /\ here[at]
  /\ builds < MaxBuilds
  /\ builds' = builds + 1 /\ root' = TRUE
  /\ copy' = [copy EXCEPT ![at] = [file |-> src[at], base |-> src[at], build |-> builds']]
  /\ mem' = [mem EXCEPT ![at] = builds'] /\ at' = at + 1
  /\ yours' = [yours EXCEPT ![at] = {}] /\ risked' = [risked EXCEPT ![at] = {}]
  /\ UNCHANGED <<src, here, sha, snap, pending, run, merge, clears, edits, faults,
                 halfway, crossed>>

EnsureBreaks ==
  /\ run = "ensure" /\ at \in Projects /\ copy[at] = None /\ here[at]
  /\ faults < MaxFaults
  /\ faults' = faults + 1 /\ root' = TRUE
  /\ \E part \in {Absent, src[at]} :
       copy' = [copy EXCEPT ![at] = [file |-> part, base |-> Absent, build |-> 0]]
  /\ yours' = [yours EXCEPT ![at] = {}] /\ risked' = [risked EXCEPT ![at] = {}]
  /\ EnsureFails({at})
  /\ UNCHANGED <<src, here, sha, snap, pending, merge, clears, edits, builds, crossed>>

\* only when something was built
SaveManifest == sha' = mem

EnsureEnds ==
  /\ run = "ensure" /\ at = N + 1
  /\ run' = "on" /\ at' = 0 /\ SaveManifest /\ mem' = [p \in Projects |-> 0]
  /\ UNCHANGED <<src, here, root, copy, snap, pending, merge, clears, counters, history>>

----------------------------------------------------------------------------
\* The agent, while its run goes on

AgentEdit(p) ==
  /\ run = "on" /\ copy[p] # None /\ edits < MaxEdits
  /\ edits' = edits + 1
  /\ copy' = [copy EXCEPT ![p].file = Edited(@, edits')]
  /\ UNCHANGED <<src, here, root, sha, snap, pending, merge, clears, builds, faults, history>>
  /\ UNCHANGED ensuring

AgentDelete(p) ==
  /\ run = "on" /\ copy[p] # None /\ copy[p].file # Absent
  /\ copy' = [copy EXCEPT ![p].file = Absent]
  /\ UNCHANGED <<src, here, root, sha, snap, pending, merge, clears, counters, history>>
  /\ UNCHANGED ensuring

\* snapshot_workspace: a project that cannot be copied is left out
Snapshot ==
  /\ run = "on" /\ root
  /\ snap' = [p \in Projects |-> IF copy[p] = None THEN None ELSE copy[p].file]
  /\ UNCHANGED <<src, here, root, copy, sha, pending, merge, clears, counters, history>>
  /\ UNCHANGED ensuring

\* restore_workspace goes on with the other projects when one fails
RestoreBaseline ==
  /\ run = "on"
  /\ copy' = [p \in Projects |->
       IF copy[p] # None /\ copy[p].build # 0 /\ sha[p] \in {0, copy[p].build}
         THEN [copy[p] EXCEPT !.file = copy[p].base] ELSE copy[p]]
  /\ UNCHANGED <<src, here, root, sha, snap, pending, merge, clears, counters, history>>
  /\ UNCHANGED ensuring

RestoreSnapshot ==
  /\ run = "on" /\ snap # None
  /\ copy' = [p \in Projects |->
       IF copy[p] # None /\ copy[p].build # 0 /\ snap[p] # None
         THEN [copy[p] EXCEPT !.file = snap[p]] ELSE copy[p]]
  /\ UNCHANGED <<src, here, root, sha, snap, pending, merge, clears, counters, history>>
  /\ UNCHANGED ensuring

\* the run ends, or is stopped with the merge it waits for
RunEnds ==
  /\ run = "on"
  /\ run' = "off" /\ merge' = [merge EXCEPT ![Agent] = Idle]
  /\ UNCHANGED <<src, here, pending, at, mem, clears, counters, history, space>>

----------------------------------------------------------------------------
\* merge_space and merge_from_agent

MergeStart(m) ==
  /\ merge[m].pc = "idle"
  /\ IF m = Agent THEN run = "on" ELSE run = "off"
  /\ ~pending /\ root
  /\ merge' = [merge EXCEPT ![m] = [Idle EXCEPT !.pc = "on", !.at = 1, !.sha = sha]]
  /\ UNCHANGED <<src, here, pending, clears, counters, history, space, ensuring>>

\* list_changes: nothing without a copy or a baseline, an error for a baseline
\* the repository does not know
Changed(m, p) ==
  /\ copy[p] # None /\ copy[p].build # 0 /\ merge[m].sha[p] = copy[p].build
  /\ copy[p].file # copy[p].base

\* What the merge takes the original to be. One that is there and cannot be
\* read counts as absent, and where the copy was deleted as empty.
Original(p, unread) ==
  IF ~unread THEN src[p] ELSE IF copy[p].file = Absent THEN {} ELSE Absent
Reads(p, unread) ==
  /\ unread => src[p] # Absent /\ faults < MaxFaults
  /\ faults' = IF unread THEN faults + 1 ELSE faults
  /\ risked' = IF unread THEN [risked EXCEPT ![p] = @ \cup src[p]] ELSE risked

\* The original is not what the baseline holds. For a deletion that finds no
\* original there is nothing to do.
ConflictOnDelete(p, unread) == Original(p, unread) = Absent /\ copy[p].base # Absent
Conflict(p, unread) == Original(p, unread) # copy[p].base

Merges(m, p) == Changed(m, p) /\ here[p]

Proceed(m) == merge' = [merge EXCEPT ![m].at = @ + 1]
besideMerge == <<here, pending, clears, edits, builds, yours, halfway, crossed>>

MergeApplies(m, unread) ==
  LET p == merge[m].at IN
  /\ merge[m].pc = "on" /\ p \in Projects
  /\ Merges(m, p) /\ Reads(p, unread) /\ ~Conflict(p, unread)
  /\ p \in Binary => copy[p].file = Absent
  /\ src' = [src EXCEPT ![p] = copy[p].file]
  /\ Proceed(m)
  /\ UNCHANGED besideMerge /\ UNCHANGED <<space, ensuring>>

\* no change, or one that is counted as skipped
MergeSkips(m, unread) ==
  LET p == merge[m].at IN
  /\ merge[m].pc = "on" /\ p \in Projects
  /\ Merges(m, p) => \/ copy[p].file = Absent /\ Conflict(p, unread)
                     \/ copy[p].file # Absent /\ p \in Binary
  /\ unread => Merges(m, p) /\ copy[p].file = Absent
  /\ Reads(p, unread) /\ Proceed(m)
  /\ UNCHANGED src /\ UNCHANGED besideMerge /\ UNCHANGED <<space, ensuring>>

MergeAsks(m, unread) ==
  LET p == merge[m].at IN
  /\ merge[m].pc = "on" /\ p \in Projects
  /\ Merges(m, p) /\ Reads(p, unread) /\ Conflict(p, unread)
  /\ copy[p].file # Absent /\ p \notin Binary
  /\ merge' = [merge EXCEPT ![m].pc = "ask", ![m].orig = Original(p, unread),
                            ![m].temp = copy[p].file]
  /\ UNCHANGED src /\ UNCHANGED besideMerge /\ UNCHANGED <<space, ensuring>>

\* The model makes what it likes of the two sides it is shown, or refuses. The
\* prompt asks for the edits of both, and nothing looks for them in the answer,
\* which is written over what the original is now.
Answers(orig, temp) == SUBSET (Lines(orig) \cup Lines(temp))

AiMerge(m) ==
  LET p == merge[m].at IN
  /\ merge[m].pc = "ask"
  /\ merge' = [merge EXCEPT ![m].pc = "on", ![m].at = @ + 1,
                            ![m].orig = Absent, ![m].temp = Absent]
  /\ \/ /\ here[p]
        /\ \E a \in Answers(merge[m].orig, merge[m].temp) :
             /\ src' = [src EXCEPT ![p] = a]
             /\ risked' = [risked EXCEPT ![p] = @ \cup (Lines(merge[m].orig) \ a)]
     \/ UNCHANGED <<src, risked>>
  /\ UNCHANGED faults /\ UNCHANGED besideMerge /\ UNCHANGED <<space, ensuring>>

\* set_session_merge_state, whatever became of the space during the merge
MergeEnds(m) ==
  /\ merge[m].pc = "on" /\ merge[m].at = N + 1
  /\ merge' = [merge EXCEPT ![m] = Idle] /\ pending' = TRUE
  /\ UNCHANGED <<src, here, clears, counters, history, space, ensuring>>

----------------------------------------------------------------------------
\* clear_space

ClearStart(t) ==
  /\ t \notin clears /\ run = "off"
  /\ clears' = clears \cup {t}
  /\ UNCHANGED <<src, here, pending, merge, counters, history, space, ensuring>>

Unpend == pending' = FALSE

Clear(t) ==
  /\ t \in clears /\ clears' = clears \ {t}
  /\ root' = FALSE /\ copy' = [p \in Projects |-> None] /\ snap' = None
  /\ Unpend
  /\ halfway' = {}
  /\ crossed' = (run # "off" \/ \E m \in Mergers : merge[m].pc # "idle")
  /\ UNCHANGED <<src, here, sha, merge, counters, yours, risked, ensuring>>

\* The program ends at any point and is started again.
Crash ==
  /\ faults < MaxFaults /\ faults' = faults + 1
  /\ EnsureFails({}) /\ clears' = {} /\ merge' = [m \in Mergers |-> Idle]
  /\ UNCHANGED <<src, here, pending, edits, builds, yours, risked, crossed, space>>

----------------------------------------------------------------------------

Next ==
  \/ \E p \in Touched : UserEdit(p) \/ UserDelete(p)
  \/ \E p \in Projects : UserMoves(p)
  \/ StartRun \/ EnsureSkips \/ EnsureMisses \/ EnsureBuilds \/ EnsureBreaks \/ EnsureEnds
  \/ \E p \in Touched : AgentEdit(p) \/ AgentDelete(p)
  \/ Snapshot \/ RestoreBaseline \/ RestoreSnapshot \/ RunEnds
  \/ \E m \in Mergers :
       \/ MergeStart(m) \/ AiMerge(m) \/ MergeEnds(m)
       \/ \E unread \in BOOLEAN :
            MergeApplies(m, unread) \/ MergeSkips(m, unread) \/ MergeAsks(m, unread)
  \/ \E t \in Clearers : ClearStart(t) \/ Clear(t)
  \/ Crash

Spec == Init /\ [][Next]_vars

----------------------------------------------------------------------------

\* No merge overwrites or deletes an edit the user made to a project since it
\* was copied, unless it was shown to the model and left out of the answer, was
\* made while that answer was awaited, or could not be read (temp.rs takes the
\* error for an absent file). These are the three ways of losing one.
UserEditsSurvive ==
  \A p \in Projects : yours[p] \ risked[p] \subseteq Lines(src[p])

\* A session that waits for its space to be cleared has a space to clear, unless
\* a clear met a merge that was still to set the mark: then the mark stays until
\* the space, which is not there, is cleared once more.
MergedHasSpace == pending => root \/ crossed

\* While a run works in the space every copy can be compared with its baseline,
\* so that a merge sees its changes; the copies of an earlier ensure_space that
\* failed or was cut short stay without one until the space is cleared.
CopiesHaveBaselines ==
  run = "on" /\ ~crossed =>
    \A p \in Projects \ halfway :
      copy[p] # None /\ copy[p].build # 0 /\ sha[p] = copy[p].build
=============================================================================
