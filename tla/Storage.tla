------------------------------- MODULE Storage -------------------------------
(***************************************************************************)
(* Where the rows of a session are: in the catalog of a data directory     *)
(* (sessions of older versions), in the session's own database under       *)
(* sessions/ or under archives/ (session_bundle), and through which        *)
(* connection they are reached (lib.rs with_session_db, the SessionPool).  *)
(* With the migration at the start (migrate.rs), the removal of orphans,   *)
(* create, fork, archive, unarchive and delete, the switch to another data *)
(* directory (commands.rs), and crashes in between.                        *)
(*                                                                         *)
(* A database file has an identity that survives the move of its directory *)
(* and that an open connection holds on to. A file no directory has is     *)
(* lost when its connections are closed.                                   *)
(***************************************************************************)
EXTENDS Integers, FiniteSets

CONSTANTS
  Sessions, Items,  \* sessions, and rows of a session
  Legacy,           \* sessions an older version has left in the catalog
  Parent,           \* the session a child belongs to, else None
  Dirs, First,      \* data directories, and the one in use at first
  Procs,            \* threads: runs and commands
  MaxFiles,         \* database files, numbered as they are made
  MaxOps,           \* bound: operations begun, restarts and switches
  None

Files == 1 .. MaxFiles

StorageAssumption ==
  /\ Legacy \subseteq Sessions /\ First \in Dirs
  /\ None \notin Sessions \cup Dirs /\ None \notin Files
  /\ Parent \in [Sessions -> Sessions \cup {None}]
  /\ MaxOps \in Nat /\ MaxFiles \in Nat

VARIABLES
  cat,      \* the catalogs: status and old rows of each session
  hot,      \* the file under sessions/ of each directory and session
  cold,     \* the file under archives/
  rows,     \* what is in each file
  known,    \* the files that were ever made
  pool,     \* the pooled connection of a session
  base,     \* the directory of the catalog in use
  dir,      \* data_dir
  turning,  \* directories whose switch has replaced the catalog and not data_dir
  boot,     \* where the start of the program is
  proc,
  written,  \* history: the rows committed for a session and not deleted
  broken,   \* history: sessions whose migration failed or was cut short
  split,    \* history: sessions with a file in both places at once, or in a
            \* directory whose catalog does not list them
  removed,  \* history: sessions that were deleted from a catalog
  switched, \* history: the data directory was switched
  ops

vars == <<cat, hot, cold, rows, known, pool, base, dir, turning, boot, proc, written,
          broken, split, removed, switched, ops>>
files == <<hot, cold, rows, known>>
where == <<base, dir, turning>>
history == <<broken, split, removed, switched>>

Status == {"none", "active", "archived"}
Catalog == [there : BOOLEAN, st : [Sessions -> Status], old : [Sessions -> SUBSET Items]]
BootPcs == {"off", "reconcile", "next", "commit", "purge", "up"}
Off == [pc |-> "off", todo |-> {}, cur |-> None, moved |-> FALSE]
Pcs == {"idle", "route", "open", "insert", "delRow", "clean", "move", "back", "copy"}
Idle == [pc |-> "idle", s |-> None, d |-> None, file |-> None, items |-> {}]

TypeOK ==
  /\ cat \in [Dirs -> Catalog]
  /\ hot \in [Dirs -> [Sessions -> Files \cup {None}]]
  /\ cold \in [Dirs -> [Sessions -> Files \cup {None}]]
  /\ known \subseteq Files
  /\ rows \in [Files -> SUBSET Items]
  /\ pool \in [Sessions -> Files \cup {None}]
  /\ base \in Dirs /\ dir \in Dirs /\ turning \subseteq Dirs
  /\ boot \in [pc : BootPcs, todo : SUBSET Sessions, cur : Sessions \cup {None},
               moved : BOOLEAN]
  /\ boot.pc \in {"commit", "purge"} => boot.cur # None
  /\ proc \in [Procs -> [pc : Pcs, s : Sessions \cup {None}, d : Dirs \cup {None},
                         file : Files \cup {None}, items : SUBSET Items]]
  /\ \A p \in Procs :
       /\ proc[p].pc # "idle" => proc[p].s # None /\ proc[p].d # None
       /\ proc[p].pc \in {"insert", "copy"} => proc[p].file # None
  /\ written \in [Sessions -> SUBSET Items]
  /\ broken \subseteq Sessions /\ split \subseteq Sessions /\ removed \subseteq Sessions
  /\ switched \in BOOLEAN
  /\ ops \in 0..MaxOps

\* In the beginning one directory, as an older version has left it.
NoFile == [d \in Dirs |-> [s \in Sessions |-> None]]
Init ==
  /\ cat = [d \in Dirs |->
       [there |-> d = First,
        st |-> [s \in Sessions |-> IF d = First /\ s \in Legacy THEN "active" ELSE "none"],
        old |-> [s \in Sessions |-> IF d = First /\ s \in Legacy THEN Items ELSE {}]]]
  /\ hot = NoFile /\ cold = NoFile
  /\ rows = [f \in Files |-> {}] /\ known = {}
  /\ pool = [s \in Sessions |-> None]
  /\ base = First /\ dir = First /\ turning = {} /\ boot = Off
  /\ proc = [p \in Procs |-> Idle]
  /\ written = [s \in Sessions |-> IF s \in Legacy THEN Items ELSE {}]
  /\ broken = {} /\ split = {} /\ removed = {} /\ switched = FALSE
  /\ ops = 0

-----------------------------------------------------------------------------
Listed(s) == cat[base].st[s] # "none"
Put(place, d, s, f) == [place EXCEPT ![d][s] = f]

\* SessionBundle::open_db makes the directory and the file where they are not.
NewFile(d, s, f) ==
  /\ f \notin known /\ 1 .. f - 1 \subseteq known /\ known' = known \cup {f}
  /\ hot' = Put(hot, d, s, f)

-----------------------------------------------------------------------------
(* The start of the program.                                               *)

\* init_real_db and resolve_and_open: the connections are new.
Start ==
  /\ boot.pc = "off"
  /\ boot' = [Off EXCEPT !.pc = "reconcile"]
  /\ UNCHANGED <<cat, files, pool, where, proc, written, history, ops>>

\* reconcile_orphan_bundles looks under sessions/ only. The migration follows
\* if the catalog has rows.
Reconcile ==
  /\ boot.pc = "reconcile"
  /\ hot' = [hot EXCEPT ![dir] =
       [s \in Sessions |-> IF Listed(s) THEN hot[dir][s] ELSE None]]
  /\ boot' = IF \E s \in Sessions : cat[dir].old[s] # {}
             THEN [boot EXCEPT !.pc = "next", !.todo = {s \in Sessions : Listed(s)}]
             ELSE [boot EXCEPT !.pc = "up"]
  /\ UNCHANGED <<cat, cold, rows, known, pool, where, proc, written, history, ops>>

\* migrate_all_sessions: the next session. One with a file under sessions/
\* counts as migrated; an archived one does not, and gets a second file.
NextSession(s) ==
  /\ boot.pc = "next" /\ s \in boot.todo
  /\ LET rest == [boot EXCEPT !.todo = @ \ {s}]
     IN \/ /\ hot[dir][s] # None /\ boot' = rest
           /\ UNCHANGED <<hot, known, split>>
        \/ /\ hot[dir][s] = None
           /\ \E f \in Files : NewFile(dir, s, f)
           /\ boot' = [rest EXCEPT !.pc = "commit", !.cur = s]
           /\ split' = IF cold[dir][s] = None THEN split ELSE split \cup {s}
  /\ UNCHANGED <<cat, cold, rows, pool, where, proc, written, broken, removed, switched, ops>>

\* The transaction of migrate_single_session with its count of the rows, or an
\* error, which is noted and leaves the empty file.
Commit ==
  /\ boot.pc = "commit"
  /\ \/ /\ rows' = [rows EXCEPT ![hot[dir][boot.cur]] = cat[dir].old[boot.cur]]
        /\ boot' = [boot EXCEPT !.pc = "purge"]
        /\ UNCHANGED broken
     \/ /\ boot' = [boot EXCEPT !.pc = "next", !.cur = None]
        /\ broken' = broken \cup {boot.cur}
        /\ UNCHANGED rows
  /\ UNCHANGED <<cat, hot, cold, known, pool, where, proc, written, split, removed>>
  /\ UNCHANGED <<switched, ops>>

Purge ==
  /\ boot.pc = "purge"
  /\ cat' = [cat EXCEPT ![dir].old[boot.cur] = {}]
  /\ boot' = [boot EXCEPT !.pc = "next", !.cur = None, !.moved = TRUE]
  /\ UNCHANGED <<files, pool, where, proc, written, history, ops>>

\* With one session moved the catalog is emptied, of the others' rows as well.
FinishMigration ==
  /\ boot.pc = "next" /\ boot.todo = {}
  /\ cat' = IF boot.moved THEN [cat EXCEPT ![dir].old = [s \in Sessions |-> {}]] ELSE cat
  /\ boot' = [Off EXCEPT !.pc = "up"]
  /\ UNCHANGED <<files, pool, where, proc, written, history, ops>>

\* The program ends, wherever it is. It starts in the directory it was in, or
\* in that of a switch which was on its way (the pointer is written after a
\* switch, and cleared before the one to the default).
Crash ==
  /\ boot.pc # "off" /\ ops < MaxOps /\ ops' = ops + 1
  /\ boot' = Off
  /\ pool' = [s \in Sessions |-> None]
  /\ proc' = [p \in Procs |-> Idle]
  /\ \E d \in {dir, base} \cup turning : base' = d /\ dir' = d
  /\ turning' = {}
  /\ broken' = IF boot.pc = "commit" THEN broken \cup {boot.cur} ELSE broken
  /\ UNCHANGED <<cat, files, written, split, removed, switched>>

-----------------------------------------------------------------------------
(* Reading and writing the rows of a session.                              *)

Begin(p, pc, s) ==
  /\ boot.pc = "up" /\ proc[p].pc = "idle" /\ ops < MaxOps
  /\ Listed(s)
  /\ ops' = ops + 1
Goto(p, pc) == proc' = [proc EXCEPT ![p].pc = pc]
Done(p) == proc' = [proc EXCEPT ![p] = Idle]
At(pc, s) == [Idle EXCEPT !.pc = pc, !.s = s, !.d = dir]

BeginWrite(p, s, i) ==
  /\ Begin(p, "route", s)
  /\ proc' = [proc EXCEPT ![p] = [At("route", s) EXCEPT !.items = {i}]]
  /\ UNCHANGED <<cat, files, pool, where, boot, written, history>>

\* wrong: the connection is taken from the pool unopened
RouteStraight(p) ==
  /\ proc[p].pc = "route"
  /\ IF cold[proc[p].d][proc[p].s] # None THEN Done(p) ELSE Goto(p, "insert")
  /\ UNCHANGED <<cat, files, pool, where, boot, written, history, ops>>

\* with_session_db looks into archives/ first: a database there is read only,
\* and the write fails...
Route(p) ==
  /\ proc[p].pc = "route"
  /\ IF cold[proc[p].d][proc[p].s] # None THEN Done(p) ELSE Goto(p, "open")
  /\ UNCHANGED <<cat, files, pool, where, boot, written, history, ops>>

Using(p, f) == [proc[p] EXCEPT !.pc = "insert", !.file = f]

\* ... else takes the pooled connection, or opens the file under sessions/,
\* which may have gone to archives/ meanwhile: then there are two.
Open(p) ==
  LET s == proc[p].s
      d == proc[p].d
      Use(f) == /\ pool' = [pool EXCEPT ![s] = f]
                /\ proc' = [proc EXCEPT ![p] = Using(p, f)]
  IN /\ proc[p].pc = "open"
     /\ \/ pool[s] # None /\ Use(pool[s]) /\ UNCHANGED <<hot, known, split>>
        \/ pool[s] = None /\ hot[d][s] # None /\ Use(hot[d][s]) /\ UNCHANGED <<hot, known, split>>
        \/ /\ pool[s] = None /\ hot[d][s] = None
           /\ \E f \in Files : NewFile(d, s, f) /\ Use(f)
           /\ split' = IF cold[d][s] = None /\ cat[d].st[s] # "none" THEN split
                       ELSE split \cup {s}
     /\ UNCHANGED <<cat, cold, rows, where, boot, written, broken, removed, switched, ops>>

Insert(p) ==
  /\ proc[p].pc = "insert" /\ Done(p)
  /\ rows' = [rows EXCEPT ![proc[p].file] = @ \cup proc[p].items]
  /\ written' = [written EXCEPT ![proc[p].s] = @ \cup proc[p].items]
  /\ UNCHANGED <<cat, hot, cold, known, pool, where, boot, history, ops>>

-----------------------------------------------------------------------------
(* Commands on sessions.                                                   *)

\* Identities of sessions are not used again.
Fresh(s) ==
  \A d \in Dirs : cat[d].st[s] = "none" /\ hot[d][s] = None /\ cold[d][s] = None
Unused(s) == Fresh(s) /\ s \notin Legacy \cup removed /\ pool[s] = None /\ written[s] = {}
             /\ \A p \in Procs : proc[p].s # s

CreateSession(s) ==
  /\ boot.pc = "up" /\ ops < MaxOps /\ ops' = ops + 1
  /\ Unused(s)
  /\ cat' = [cat EXCEPT ![base].st[s] = "active"]
  /\ UNCHANGED <<files, pool, where, boot, proc, written, history>>

\* What is read of a session, with the connection to it.
Visible(s) ==
  IF cold[dir][s] # None THEN rows[cold[dir][s]]
  ELSE IF pool[s] # None THEN rows[pool[s]]
  ELSE IF hot[dir][s] # None THEN rows[hot[dir][s]] ELSE {}

\* fork_session_at_message opens the new database, writes the new session to
\* the catalog...
Copying(new, f, R) == [At("copy", new) EXCEPT !.file = f, !.items = R]

ForkSession(p, s, new, R) ==
  /\ Begin(p, "copy", s) /\ Unused(new) /\ Parent[new] = None
  /\ R \subseteq Visible(s)
  /\ \E f \in Files :
       /\ NewFile(dir, new, f) /\ pool' = [pool EXCEPT ![new] = f]
       /\ proc' = [proc EXCEPT ![p] = Copying(new, f, R)]
  /\ cat' = [cat EXCEPT ![base].st[new] = "active"]
  /\ split' = IF base = dir THEN split ELSE split \cup {new}
  /\ UNCHANGED <<cold, rows, where, boot, written, broken, removed, switched>>

\* ... and copies the rows up to the message, one by one.
ForkCopy(p) ==
  /\ proc[p].pc = "copy" /\ Done(p)
  /\ rows' = [rows EXCEPT ![proc[p].file] = @ \cup proc[p].items]
  /\ written' = [written EXCEPT ![proc[p].s] = @ \cup proc[p].items]
  /\ UNCHANGED <<cat, hot, cold, known, pool, where, boot, history, ops>>

\* delete_session closes the pooled connection...
DeleteSession(p, s) ==
  /\ Begin(p, "delRow", s)
  /\ pool' = [pool EXCEPT ![s] = None]
  /\ proc' = [proc EXCEPT ![p] = At("delRow", s)]
  /\ UNCHANGED <<cat, files, where, boot, written, history>>

\* ... removes the session and its children from the catalog...
DeleteRow(p) ==
  LET gone == {s \in Sessions : s = proc[p].s \/ (Parent[s] = proc[p].s /\ Listed(s))}
  IN /\ proc[p].pc = "delRow"
     /\ cat' = [cat EXCEPT
          ![base].st = [s \in Sessions |-> IF s \in gone THEN "none" ELSE cat[base].st[s]],
          ![base].old = [s \in Sessions |-> IF s \in gone THEN {} ELSE cat[base].old[s]]]
     /\ proc' = [proc EXCEPT ![p].pc = "clean", ![p].d = dir]
     /\ written' = [s \in Sessions |-> IF s \in gone THEN {} ELSE written[s]]
     /\ removed' = removed \cup gone
     /\ UNCHANGED <<files, pool, where, boot, broken, split, switched, ops>>

\* ... and, in the background, its own directories.
Clean(p) ==
  /\ proc[p].pc = "clean" /\ Done(p)
  /\ hot' = Put(hot, proc[p].d, proc[p].s, None)
  /\ cold' = Put(cold, proc[p].d, proc[p].s, None)
  /\ UNCHANGED <<cat, rows, known, pool, where, boot, written, history, ops>>

SetStatus(p, s, st, pc) ==
  /\ Begin(p, pc, s)
  /\ cat' = [cat EXCEPT ![base].st[s] = st]
  /\ proc' = [proc EXCEPT ![p] = At(pc, s)]
  /\ UNCHANGED <<files, pool, where, boot, written, history>>
ArchiveSession(p, s) == SetStatus(p, s, "archived", "move")
UnarchiveSession(p, s) == SetStatus(p, s, "active", "back")

\* archive_session_bundle: what is there is moved over what was there.
Move(p) ==
  LET s == proc[p].s d == proc[p].d
  IN /\ proc[p].pc = "move" /\ Done(p)
     /\ IF hot[d][s] = None THEN UNCHANGED <<hot, cold>>
        ELSE cold' = Put(cold, d, s, hot[d][s]) /\ hot' = Put(hot, d, s, None)
     /\ UNCHANGED <<cat, rows, known, pool, where, boot, written, history, ops>>

\* wrong: the file is looked for where the session is listed as active
BackBlind(p) ==
  LET s == proc[p].s d == proc[p].d
  IN /\ proc[p].pc = "back" /\ Done(p)
     /\ hot' = Put(hot, d, s, cold[d][s]) /\ cold' = Put(cold, d, s, None)
     /\ UNCHANGED <<cat, rows, known, pool, where, boot, written, history, ops>>

\* unarchive_session_bundle
Back(p) ==
  LET s == proc[p].s d == proc[p].d
  IN /\ proc[p].pc = "back" /\ Done(p)
     /\ IF cold[d][s] = None THEN UNCHANGED <<hot, cold>>
        ELSE hot' = Put(hot, d, s, cold[d][s]) /\ cold' = Put(cold, d, s, None)
     /\ UNCHANGED <<cat, rows, known, pool, where, boot, written, history, ops>>

\* switch_data_dir: a catalog that is there is used, else this one is copied.
\* The sessions' files are not, and the pooled connections stay. It is refused
\* during a run; that is asked before, without a lock, and not of commands, so
\* threads are anywhere (commands.rs:2491, 2506).
SwitchCatalog(d) ==
  /\ boot.pc = "up" /\ ops < MaxOps /\ ops' = ops + 1
  /\ d # dir
  /\ cat' = IF cat[d].there THEN cat ELSE [cat EXCEPT ![d] = cat[base]]
  /\ base' = d /\ turning' = turning \cup {d} /\ switched' = TRUE
  /\ UNCHANGED <<files, pool, dir, boot, proc, written, broken, split, removed>>

\* data_dir follows when the locks of the catalog and the key are released.
SwitchDir(d) ==
  /\ d \in turning /\ dir' = d /\ turning' = turning \ {d}
  /\ UNCHANGED <<cat, files, pool, base, boot, proc, written, history, ops>>

-----------------------------------------------------------------------------
Step(p) ==
  \/ \E s \in Sessions, i \in Items : BeginWrite(p, s, i)
  \/ Route(p) \/ Open(p) \/ Insert(p)
  \/ \E s, new \in Sessions : \E R \in SUBSET Items : ForkSession(p, s, new, R)
  \/ ForkCopy(p)
  \/ \E s \in Sessions : DeleteSession(p, s) \/ ArchiveSession(p, s) \/ UnarchiveSession(p, s)
  \/ DeleteRow(p) \/ Clean(p) \/ Move(p) \/ Back(p)

Boot == Start \/ Reconcile \/ (\E s \in Sessions : NextSession(s)) \/ Commit \/ Purge
        \/ FinishMigration

Next ==
  \/ \E p \in Procs : Step(p)
  \/ Boot \/ Crash
  \/ \E s \in Sessions : CreateSession(s)
  \/ \E d \in Dirs : SwitchCatalog(d) \/ SwitchDir(d)

Spec == Init /\ [][Next]_vars

-----------------------------------------------------------------------------
(* Properties.                                                             *)

Sound(s) == Listed(s) /\ s \notin broken \cup split \cup removed

\* Through migration, archive and back, crashes at any step and writes racing
\* all of them, a listed session shows every row that was committed for it, as
\* long as the data directory is not switched (lib.rs with_session_db with
\* migrate.rs, archiver.rs). A migration that fails, and a second file beside an
\* archived one, are the two ways to lose rows.
RowsReadable ==
  boot.pc = "up" /\ ~switched => \A s \in Sessions : Sound(s) => written[s] \subseteq Visible(s)

\* Rows stay on some disk even if the directory is switched and the pool goes
\* on to write to the one that was left, unless one of the catalogs has lost
\* the session, or its file was made in a directory whose catalog does not list
\* it: what is written to its file then is lost with the file.
Held(s) ==
  UNION ({cat[d].old[s] : d \in Dirs}
         \cup {rows[hot[d][s]] : d \in {e \in Dirs : hot[e][s] # None}}
         \cup {rows[cold[d][s]] : d \in {e \in Dirs : cold[e][s] # None}})
RowsHeld == \A s \in Sessions : Sound(s) => written[s] \subseteq Held(s)
=============================================================================
