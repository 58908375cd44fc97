------------------------------ MODULE Snapshots ------------------------------
(***************************************************************************)
(* The shadow snapshots of a session: the rows of tool_file_snapshots,     *)
(* the contents in the blob store (snapshot_fs.rs), the commands that take *)
(* changes of the agent back or apply them again (snapshot_revert.rs,      *)
(* commands.rs), the deletion of withdrawn messages, and the collection of *)
(* unused blobs (snapshot_gc.rs).                                          *)
(*                                                                         *)
(* The rows are the ones a migrated session comes with. A write of today   *)
(* stores two blobs, but its row goes to the catalog, where the foreign    *)
(* key to the session's messages refuses it. A content is a value; a file  *)
(* that is not there has content Absent.                                   *)
(*                                                                         *)
(* A command is a sequence of steps, one file access each; between two of  *)
(* them anybody may write the files.                                       *)
(***************************************************************************)
EXTENDS Integers, Sequences, FiniteSets

CONSTANTS
  Files,
  Contents,   \* of files, and of blobs
  Empty,      \* the content of no bytes
  Absent,     \* a file that is not there
  Histories,  \* what the migrated rows may be, oldest first
  Threads,    \* threads executing a command of the user
  Foreign,    \* contents that rows of other sessions may refer to
  Unreadable, \* bound: files that may be there and not be read
  Ops,        \* bound: the commands given
  MaxCmds,    \* bound: commands
  MaxBeside,  \* bound: of the commands the first ones that may overlap
  Written,    \* bound: what the agent or the user writes
  MaxWrites,  \* bound: how often
  MaxOld      \* bound: blobs the sweep after one start finds old enough

Reverts == {"to", "edit", "revertTurn", "revertEvent", "revertFile"}
Reapplies == {"from", "reapplyTurn", "reapplyEvent", "reapplyFile"}
AllOps == Reverts \cup Reapplies \cup {"purge"}

RowOf(h) == 1..Len(h)
ASSUME SnapshotsAssumption ==
  /\ Empty \in Contents /\ Absent \notin Contents /\ Foreign \subseteq Contents
  /\ Unreadable \subseteq Files
  /\ Ops \subseteq AllOps
  /\ MaxCmds \in Nat /\ MaxBeside \in 0..MaxCmds /\ MaxWrites \in Nat
  /\ Written \subseteq Contents \cup {Absent}
  /\ \A h \in Histories :
       /\ h \in Seq([turn : Nat, file : Files, before : Contents \cup {Absent},
                     after : Contents])
       /\ \A q, r \in RowOf(h) : q <= r => h[q].turn <= h[r].turn

VARIABLES
  hist,      \* the rows that were ever there, oldest first: they do not change
  here,      \* the ones still in the table
  reverted,  \* the ones whose reverted_at is set
  off,       \* the turns whose messages have reverted_at set
  turns,     \* the turns still there
  file,      \* the workspace
  blobs,     \* the blob store
  running,   \* is_run_active of the session
  archived,  \* the bundle is under archives/
  thread,
  clean,     \* history: nobody wrote, forced, overlapped, archived; none failed
  swept,     \* history: what has taken blobs away
  cmds, writes

vars == <<hist, here, reverted, off, turns, file, blobs, running, archived,
          thread, clean, swept, cmds, writes>>
table == <<here, reverted, off, turns>>
bounds == <<cmds, writes>>

Rows == RowOf(hist)
IsNew(r) == hist[r].before = Absent
TurnsOf(h) == {h[r].turn : r \in RowOf(h)}
Pcs == {"idle", "check", "apply", "mark", "sweep"}
Sweeps == {"purge", "elsewhere", "startup", "deletion"}

Least(S) == CHOOSE r \in S : \A q \in S : r <= q
Most(S) == CHOOSE r \in S : \A q \in S : q <= r

Idle == [pc |-> "idle", op |-> "purge", turn |-> 0, force |-> FALSE,
         list |-> {}, todo |-> {}, drop |-> {}, touched |-> {}, unread |-> {}]

TypeOK ==
  /\ hist \in Histories
  /\ here \subseteq Rows /\ reverted \subseteq Rows
  /\ turns \subseteq TurnsOf(hist) /\ off \subseteq turns
  /\ file \in [Files -> Contents \cup {Absent}]
  /\ blobs \subseteq Contents
  /\ running \in BOOLEAN /\ archived \in BOOLEAN
  /\ thread \in [Threads -> [pc : Pcs, op : AllOps, turn : Nat, force : BOOLEAN,
                             list : SUBSET Rows, todo : SUBSET Rows,
                             drop : SUBSET Contents, touched : SUBSET Files,
                             unread : SUBSET Files]]
  /\ \A t \in Threads :
       /\ thread[t].todo \subseteq thread[t].list
       /\ thread[t].pc \in {"check", "apply", "mark"} => thread[t].op # "purge"
       /\ thread[t].pc \in {"check", "apply"} => thread[t].todo # {}
  /\ clean \in BOOLEAN /\ swept \subseteq Sweeps
  /\ cmds \in 0..MaxCmds /\ writes \in 0..MaxWrites

OfFile(f) == {r \in Rows : hist[r].file = f}
Named(R) == ({hist[r].before : r \in R} \cup {hist[r].after : r \in R}) \ {Absent}

\* What the rows say is in a file: what the newest row in force has written,
\* or what was there before the oldest.
Recorded(f) ==
  LET inForce == OfFile(f) \ reverted
  IN IF inForce # {} THEN hist[Most(inForce)].after ELSE hist[Least(OfFile(f))].before

Init ==
  /\ hist \in Histories
  /\ here = Rows /\ reverted = {} /\ off = {} /\ turns = TurnsOf(hist)
  /\ file = [f \in Files |-> IF OfFile(f) = {} THEN Absent ELSE Recorded(f)]
  /\ blobs = Named(Rows)
  /\ running = FALSE /\ archived = FALSE
  /\ thread = [t \in Threads |-> Idle]
  /\ clean = TRUE /\ swept = {}
  /\ cmds = 0 /\ writes = 0

-----------------------------------------------------------------------------
(* The list of rows a command works on.                                    *)

\* list_snapshots_after_seq and list_reverted_snapshots_after_seq: live rows,
\* or reverted ones. The others do not look at the mark.
Listed(op, r) ==
  LET turn == hist[r].turn IN
  CASE op \in {"to", "edit"} -> {q \in here \ reverted : hist[q].turn >= turn}
    [] op = "from" -> {q \in here \cap reverted : hist[q].turn >= turn}
    [] op \in {"revertTurn", "reapplyTurn"} -> {q \in here : hist[q].turn = turn}
    [] op \in {"revertEvent", "reapplyEvent"} -> {r} \cap here
    [] op \in {"revertFile", "reapplyFile"} ->
         {q \in here : hist[q].turn = turn /\ hist[q].file = hist[r].file}

\* wrong: the list of a revert is worked on from its front
FromOldestFlat(op) == op \notin {"to", "edit"}

\* The lists are in the order of the rows, only list_snapshots_after_seq has
\* the newest row first. A revert works from the end of the list, and for the
\* latter thus from the oldest row. A reapply works from the front.
FromOldest(op) == op \in Reapplies \cup {"to", "edit"}

Next1(op, S) == IF FromOldest(op) THEN Least(S) ELSE Most(S)

\* Only the first row of each file is compared with the disk.
FirstOfFile(op, S) ==
  {r \in S : r = Next1(op, {q \in S : hist[q].file = hist[r].file})}

\* wrong: a file that is there is no obstacle to a new file
ConflictKnown(op, r) ==
  LET now == file[hist[r].file]
  IN CASE now = Absent -> ~IsNew(r)
       [] now # Absent /\ op \in Reverts -> now # hist[r].after
       [] now # Absent /\ op \in Reapplies -> ~IsNew(r) /\ now # hist[r].before

\* check_revert_conflict, check_reapply_conflict
Conflict(op, r) ==
  LET now == file[hist[r].file]
  IN CASE now = Absent -> ~IsNew(r)
       [] now # Absent /\ op \in Reverts -> now # hist[r].after
       [] now # Absent /\ op \in Reapplies /\ ~IsNew(r) -> now # hist[r].before
       [] now # Absent /\ op \in Reapplies /\ IsNew(r) -> now # Empty

\* What apply_single_revert, apply_single_reapply leave in the file.
Result(op, r) == IF op \in Reverts THEN hist[r].before ELSE hist[r].after

-----------------------------------------------------------------------------
(* Steps of the commands.                                                  *)

Set(t, rec) == thread' = [thread EXCEPT ![t] = rec]
Stop(t) == Set(t, Idle)
Alone(t) == \A u \in Threads \ {t} : thread[u].pc = "idle"
MayBegin(t) == thread[t].pc = "idle" /\ cmds < IF Alone(t) THEN MaxCmds ELSE MaxBeside
SameWorld == UNCHANGED <<hist, file, blobs, running, archived, swept, writes>>

\* Where a command goes that has something on its list, and with nothing: to
\* the marks, or back if it names one event or one file.
AfterList(op, force, S) ==
  CASE S # {} -> IF force THEN "apply" ELSE "check"
    [] S = {} /\ op \in {"revertEvent", "reapplyEvent", "revertFile", "reapplyFile"} -> "idle"
    [] OTHER -> "mark"

\* The session is tested for a run once, here, and only by commands on whole
\* ends of the conversation.
\* Of the target r is a row: itself, its file or its turn is meant.
Begin(t, op, r, force) ==
  /\ MayBegin(t) /\ op \in Ops \ {"purge"}
  /\ r \in Rows /\ hist[r].turn \in turns
  /\ op \in {"to", "from", "edit"} => ~running
  /\ op = "edit" => force
  /\ LET S == Listed(op, r)
         pc == AfterList(op, force, S)
         rec == [Idle EXCEPT !.pc = pc, !.op = op, !.turn = hist[r].turn, !.force = force,
                             !.list = S, !.todo = IF force THEN S ELSE FirstOfFile(op, S)]
     IN Set(t, IF pc = "idle" THEN Idle ELSE rec)
  /\ cmds' = cmds + 1
  /\ clean' = (clean /\ ~force /\ Alone(t))
  /\ UNCHANGED table /\ SameWorld

\* A conflict ends the command. With none the whole list is applied.
Pass(t, seen) ==
  Set(t, IF seen.todo = {} THEN [seen EXCEPT !.pc = "apply", !.todo = seen.list] ELSE seen)
Check(t) ==
  /\ thread[t].pc = "check"
  /\ LET me == thread[t]
         r == Next1(me.op, me.todo)
     IN IF Conflict(me.op, r) THEN Stop(t)
        ELSE Pass(t, [me EXCEPT !.todo = @ \ {r}, !.touched = @ \ {hist[r].file}])
  /\ UNCHANGED <<clean, cmds>> /\ UNCHANGED table /\ SameWorld

\* An error of the comparison is taken for no conflict: a file that is there
\* and cannot be read is passed over, and written later if it can be then.
CheckUnread(t) ==
  /\ thread[t].pc = "check"
  /\ LET me == thread[t]
         r == Next1(me.op, me.todo)
         f == hist[r].file
     IN /\ f \in Unreadable /\ file[f] # Absent /\ Conflict(me.op, r)
        /\ Pass(t, [me EXCEPT !.todo = @ \ {r}, !.unread = @ \cup {f}])
  /\ clean' = FALSE
  /\ UNCHANGED cmds /\ UNCHANGED table /\ SameWorld

\* The other threads learn, for the properties, that somebody wrote f.
Touch(t, f, rec) ==
  thread' = [u \in Threads |->
               IF u = t THEN rec ELSE [thread[u] EXCEPT !.touched = @ \cup {f}]]

\* One row. A content whose blob is gone ends the command half way, except
\* that edit_and_resend does not look at the result.
Apply(t) ==
  /\ thread[t].pc = "apply"
  /\ LET me == thread[t]
         r == Next1(me.op, me.todo)
         f == hist[r].file
         new == Result(me.op, r)
     IN \/ /\ new \in blobs \cup {Absent}
           /\ file' = [file EXCEPT ![f] = new]
           /\ Touch(t, f, [me EXCEPT !.todo = @ \ {r},
                                     !.pc = IF me.todo = {r} THEN "mark" ELSE "apply"])
           /\ clean' = clean
        \/ /\ new \notin blobs \cup {Absent}
           /\ IF me.op = "edit" THEN Set(t, [me EXCEPT !.pc = "mark"]) ELSE Stop(t)
           /\ clean' = FALSE
           /\ UNCHANGED file
  /\ UNCHANGED <<hist, blobs, running, archived, swept, cmds, writes>> /\ UNCHANGED table

\* wrong: the marks of the messages outlive them
CutRows(turn) ==
  /\ here' = {r \in here : hist[r].turn < turn}
  /\ turns' = {u \in turns : u < turn}
  /\ UNCHANGED off

\* delete_messages_after, with everything from turn on
CutFrom(turn) ==
  /\ here' = {r \in here : hist[r].turn < turn}
  /\ turns' = {u \in turns : u < turn}
  /\ off' = {u \in off : u < turn}

\* wrong: a command on one event or file marks the whole turn
MarkTurns(op, R) ==
  LET T == {r \in here : \E q \in R : hist[r].turn = hist[q].turn}
  IN reverted' = IF op \in Reverts THEN reverted \cup T ELSE reverted \ T
\* The marks of the rows the command is about, and of their messages.
MarkRows(op, R) ==
  reverted' = IF op \in Reverts THEN reverted \cup (R \cap here) ELSE reverted \ (R \cap here)
MarkMessages(op, T) ==
  off' = IF op \in Reverts THEN off \cup (T \cap turns) ELSE off \ T

\* With the session archived meanwhile its database cannot be written: the
\* files stay as they were made, without a mark. edit_and_resend deletes the
\* turn (its question stays, with the new text) and starts a run.
Mark(t) ==
  /\ thread[t].pc = "mark" /\ Stop(t)
  /\ LET me == thread[t]
         from == {r \in here : hist[r].turn >= me.turn}
     IN \/ archived /\ clean' = FALSE /\ UNCHANGED <<table, running>>
        \/ ~archived /\ me.op = "edit" /\ CutFrom(me.turn) /\ running' = TRUE
           /\ clean' = clean /\ UNCHANGED reverted
        \/ ~archived /\ me.op \in {"to", "from"} /\ MarkRows(me.op, from)
           /\ MarkMessages(me.op, {u \in turns : u >= me.turn})
           /\ clean' = clean /\ UNCHANGED <<here, turns, running>>
        \/ ~archived /\ me.op \in {"revertTurn", "reapplyTurn"}
           /\ MarkRows(me.op, {r \in here : hist[r].turn = me.turn})
           /\ MarkMessages(me.op, {me.turn})
           /\ clean' = clean /\ UNCHANGED <<here, turns, running>>
        \/ ~archived /\ me.op \in {"revertEvent", "reapplyEvent", "revertFile", "reapplyFile"}
           /\ MarkRows(me.op, me.list)
           /\ clean' = clean /\ UNCHANGED <<here, off, turns, running>>
  /\ UNCHANGED <<hist, file, blobs, archived, swept, cmds, writes>>

-----------------------------------------------------------------------------
(* Deletion of what was withdrawn.                                         *)

\* The boundary is the first turn with a mark, even if later turns have none.
CutWithdrawn ==
  IF off = {} THEN UNCHANGED <<here, turns, off>> ELSE CutFrom(Least(off))

\* purge_withdrawn_messages, in the database...
BeginPurge(t) ==
  /\ MayBegin(t) /\ "purge" \in Ops /\ ~running
  /\ ~archived /\ CutWithdrawn
  /\ LET cut == here \ here'
     IN Set(t, [Idle EXCEPT !.pc = "sweep", !.op = "purge", !.drop = Named(cut)])
  /\ cmds' = cmds + 1
  /\ clean' = (clean /\ Alone(t))
  /\ UNCHANGED reverted /\ SameWorld

\* ... and in the blob store. The rows of this session are not consulted, and
\* those of another, whose contents are then kept, only if it is in the pool.
SweepPurged(t, kept) ==
  /\ thread[t].pc = "sweep" /\ Stop(t)
  /\ blobs' = blobs \ (thread[t].drop \ kept)
  /\ swept' = IF (blobs \ blobs') \cap Named(here) = {} THEN swept ELSE swept \cup {"purge"}
  /\ UNCHANGED <<hist, file, running, archived, clean, cmds, writes>> /\ UNCHANGED table

\* send_message, which may come during a run: delete_reverted_tail_messages.
Send ==
  /\ cmds < MaxCmds /\ ~archived /\ off # {}
  /\ CutWithdrawn
  /\ running' = TRUE
  /\ cmds' = cmds + 1
  /\ clean' = (clean /\ \A t \in Threads : thread[t].pc = "idle")
  /\ UNCHANGED <<hist, reverted, file, blobs, archived, thread, swept, writes>>

-----------------------------------------------------------------------------
(* What happens beside the commands.                                       *)

StartRun ==
  /\ ~running /\ ~archived /\ running' = TRUE
  /\ UNCHANGED <<hist, file, blobs, archived, thread, clean, swept>>
  /\ UNCHANGED table /\ UNCHANGED bounds
EndRun ==
  /\ running /\ running' = FALSE
  /\ UNCHANGED <<hist, file, blobs, archived, thread, clean, swept>>
  /\ UNCHANGED table /\ UNCHANGED bounds

Write(f, c) ==
  /\ writes < MaxWrites /\ writes' = writes + 1
  /\ file' = [file EXCEPT ![f] = c] /\ c # file[f]
  /\ thread' = [t \in Threads |-> [thread[t] EXCEPT !.touched = @ \cup {f}]]
  /\ clean' = FALSE
  /\ UNCHANGED <<hist, running, archived, swept, cmds>> /\ UNCHANGED table

\* The user, outside the program; or a command the agent runs.
UserWrite(f, c) == Write(f, c) /\ UNCHANGED blobs

\* write_file, edit_file: two blobs, and a row that is refused.
AgentWrite(f, c) ==
  /\ running /\ c # Absent /\ Write(f, c)
  /\ blobs' = (blobs \cup {c, file[f]}) \ {Absent}

Archive ==
  /\ ~archived /\ archived' = TRUE /\ running' = FALSE /\ cmds < MaxCmds
  /\ cmds' = cmds + 1
  /\ UNCHANGED <<hist, file, blobs, thread, clean, swept, writes>> /\ UNCHANGED table
Unarchive ==
  /\ archived /\ archived' = FALSE
  /\ UNCHANGED <<hist, file, blobs, running, thread, clean, swept>>
  /\ UNCHANGED table /\ UNCHANGED bounds

\* The same in another session, which asks this one if it is in the pool: it
\* is from its first use after a start, an unarchiving or a change of the data
\* directory. Whether it has been used is left open.
PurgeElsewhere(drop, pooled) ==
  /\ cmds < MaxCmds /\ cmds' = cmds + 1
  /\ pooled => ~archived
  /\ blobs' = blobs \ (drop \ IF pooled THEN Named(here) ELSE {})
  /\ swept' = IF pooled \/ drop \cap Named(here) = {} THEN swept
              ELSE swept \cup {"elsewhere"}
  /\ UNCHANGED <<hist, file, running, archived, thread, clean, writes>>
  /\ UNCHANGED table

\* wrong: only the catalog is asked
SweepDeletionCatalog(kept) ==
  /\ cmds < MaxCmds /\ cmds' = cmds + 1
  /\ blobs' = {}
  /\ UNCHANGED <<hist, file, running, archived, thread, clean, swept, writes>>
  /\ UNCHANGED table

\* Another session is deleted: the blobs that no row in the catalog and under
\* sessions/ refers to go, whatever their age.
SweepDeletion(kept) ==
  LET used == kept \cup (IF archived THEN {} ELSE Named(here))
  IN /\ cmds < MaxCmds /\ cmds' = cmds + 1
     /\ blobs' = blobs \cap used
     /\ swept' = IF archived /\ ~ (Named(here) \subseteq kept)
                 THEN swept \cup {"deletion"} ELSE swept
     /\ UNCHANGED <<hist, file, running, archived, thread, clean, writes>>
     /\ UNCHANGED table
\* The program ends and starts again. Of the blobs any set may be older than a
\* day, and the catalog, whose rows went to the sessions, protects none.
Restart(old) ==
  /\ cmds < MaxCmds /\ cmds' = cmds + 1
  /\ Cardinality(old) <= MaxOld /\ blobs' = blobs \ old
  /\ swept' = IF old \cap Named(here) = {} THEN swept ELSE swept \cup {"startup"}
  /\ thread' = [t \in Threads |-> Idle]
  /\ clean' = (clean /\ \A t \in Threads : thread[t].pc = "idle")
  /\ running' = FALSE
  /\ UNCHANGED <<hist, file, archived, writes>> /\ UNCHANGED table

-----------------------------------------------------------------------------
Step(t) ==
  \/ \E op \in Ops \ {"purge"}, r \in Rows, force \in BOOLEAN : Begin(t, op, r, force)
  \/ Check(t) \/ CheckUnread(t) \/ Apply(t) \/ Mark(t) \/ BeginPurge(t)
  \/ \E kept \in SUBSET Foreign : SweepPurged(t, kept)

Next ==
  \/ \E t \in Threads : Step(t)
  \/ Send \/ StartRun \/ EndRun
  \/ \E f \in Files, c \in Written : UserWrite(f, c) \/ AgentWrite(f, c)
  \/ Archive \/ Unarchive
  \/ \E kept \in SUBSET Foreign : SweepDeletion(kept)
  \/ \E drop \in SUBSET Foreign, pooled \in BOOLEAN : PurgeElsewhere(drop, pooled)
  \/ \E old \in SUBSET blobs : Restart(old)

Spec == Init /\ [][Next]_vars

-----------------------------------------------------------------------------
(* Properties.                                                             *)

\* A history in which each row of a file starts from where the one before it
\* ended, and no content comes twice: only then can contents tell which row
\* was the last to be in force. A new file is emptied by nothing later, since
\* an empty file is taken for one that may be made anew.
Chained ==
  \A q, r \in Rows : hist[q].file = hist[r].file =>
    /\ q <= r => hist[q].before # hist[r].after
    /\ q < r => /\ hist[q].after # hist[r].after
                /\ IsNew(q) => hist[r].after # Empty
                /\ (\A p \in OfFile(hist[r].file) : ~(q < p /\ p < r))
                     => hist[r].before = hist[q].after

\* However turns, events, files and ends of the conversation are taken back
\* and applied again, one command at a time and none of them forced, the marks
\* of the rows say what is on the disk (snapshot_revert.rs with the marks of
\* store.rs). Reverts to a message keep it while they list one row of a file.
MarksAgree ==
  clean /\ Chained /\ (\A t \in Threads : thread[t].pc = "idle")
    => \A f \in Files : OfFile(f) # {} => file[f] = Recorded(f)

\* A command that is not forced overwrites no content that only the user has:
\* what is lost is in a row, or empty, unless the file was written after it was
\* compared, or could not be read when it was to be (check_revert_conflict,
\* check_reapply_conflict). These are the two ways of losing an edit.
UnforcedKeepsEdits ==
  [][\A t \in Threads : \A f \in Files :
       /\ thread[t].pc = "apply" /\ thread'[t].todo # thread[t].todo
       /\ file'[f] # file[f] /\ ~thread[t].force
       /\ f \notin thread[t].touched \cup thread[t].unread
       => file[f] \in Named(OfFile(f)) \cup {Empty, Absent}]_vars

\* get_turn_diff: what the rows of one file did together.
Diff(L) == [before |-> hist[Least(L)].before, after |-> hist[Most(L)].after]

\* A revert or reapply that has gone through its list leaves each file, unless
\* somebody else wrote it, as it is on one side of the difference that the
\* window shows (apply_single_revert, apply_single_reapply, get_turn_diff).
Restores(t, ops) ==
  thread[t].pc = "mark" /\ thread[t].op \in ops /\ thread[t].todo = {}
    => \A f \in Files \ thread[t].touched :
         LET L == thread[t].list \cap OfFile(f)
         IN L # {} => file[f] = IF thread[t].op \in Reverts
                                THEN Diff(L).before ELSE Diff(L).after
ListRestored ==
  \A t \in Threads : Restores(t, Reapplies \cup {"revertTurn", "revertEvent", "revertFile"})

\* Blobs that rows of the table need disappear in four ways only: a purge of
\* contents an earlier turn shares, a purge in another session while this one
\* is archived or not in the pool, the sweep after a start, and the sweep of a
\* deletion while the session is archived.
BlobsKept == swept = {} => Named(here) \subseteq blobs
=============================================================================
