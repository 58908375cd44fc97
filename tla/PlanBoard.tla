----------------------------- MODULE PlanBoard -----------------------------
(***************************************************************************)
(* Plans and todos: plan.rs, its tools (tools/skills_memory_plan.rs) and   *)
(* commands, and the ends of turns in agent.rs.                            *)
(*                                                                         *)
(* A plan is a file of the workspace that several sessions share. Which    *)
(* plan is active, and the todos, are rows of session_kv, and there are    *)
(* two such tables: the tools and the prompts hold state.db and use the    *)
(* "catalog", everything that goes through with_session_db uses the        *)
(* session's "own" file. A revert marks messages and works the own rows    *)
(* out again. The files stay as they are: a row for a snapshot of a plan   *)
(* goes to the catalog, whose foreign keys refuse it.                      *)
(*                                                                         *)
(* An id stands for the date and the slug of a title: a second plan with   *)
(* the title of the day overwrites the first. A list of steps, and of      *)
(* todos, is "open" or all "done". Ids of events and messages are clock    *)
(* values, which also order the files by updated_at. The event and the     *)
(* message a plan comes from are one pair, source.                         *)
(***************************************************************************)
EXTENDS Integers, Sequences, FiniteSets, SequencesExt

CONSTANTS Sessions, Plans, Parent, None,
  MaxLog,    \* bound on what is written by each session alone,
  MaxBeside, \* and on what is written when two take part
  MaxClock   \* the largest of these

VARIABLES
  disk,     \* the files of .harness/plans
  active,   \* active_plan_id of each session in each table
  todos,    \* todos of each session in each table
  log,      \* the messages and the successful plan and todo events
  running,  \* sessions in a turn
  clock,
  crossed,  \* a session named, or overwrote, another one's plan
  aside,    \* a plan was changed beside the agent's create, switch and completion
  shown,    \* history: what the board showed as a message was sent, until the
            \* user switches to a plan
  back      \* history: the session that the last step has reverted

vars == <<disk, active, todos, log, running, clock, crossed, aside, shown, back>>

Dbs == {"catalog", "own"}
Lists == {"none", "open", "done"}
Statuses == {"in_progress", "suspended", "completed"}
NoSource == [msg |-> 0, event |-> 0]
Sources == [msg : 0..MaxClock, event : 0..MaxClock]
Files == [owner : Sessions, status : Statuses, steps : {"open", "done"},
          source : Sources, stamp : 0..MaxClock]
Entries == [tool : {"user", "create", "update", "switch", "todo"}, plan : Plans \cup {None},
            items : Lists, id : 0..MaxClock, msg : 0..MaxClock, reverted : BOOLEAN]

\* a board with a plan, or with the todos of an event, as a message was sent
Boards == [msg : 0..MaxClock, board : Plans \cup 0..MaxClock]

PlanAssumption ==
  /\ None \notin Sessions \cup Plans \cup Files \cup Statuses
  /\ Parent \in [Sessions -> Sessions \cup {None}]
  /\ MaxClock \in Nat \ {0, 1} /\ MaxBeside \in 0..MaxClock
  /\ MaxLog \in [Sessions -> 0..MaxClock]

Entry(tool, p, items, id, msg) ==
  [tool |-> tool, plan |-> p, items |-> items, id |-> id, msg |-> msg, reverted |-> FALSE]

TypeOK ==
  /\ disk \in [Plans -> Files \cup {None}]
  /\ active \in [Dbs -> [Sessions -> Plans \cup {None}]]
  /\ todos \in [Dbs -> [Sessions -> Lists]]
  /\ log \in [Sessions -> Seq(Entries)]
  /\ running \subseteq Sessions
  /\ clock \in 0..MaxClock
  /\ crossed \in BOOLEAN /\ aside \in BOOLEAN
  /\ shown \in [Sessions -> SUBSET Boards \cup {None}] /\ back \in Sessions \cup {None}
  /\ \A s \in running : log[s] # <<>>
  /\ \A s \in Sessions : \A i, j \in DOMAIN log[s] :
       i < j => log[s][i].id < log[s][j].id /\ log[s][i].msg <= log[s][j].msg

\* A file of an older version has no source. The create it comes from may be
\* among the messages.
Init ==
  /\ \E p \in Plans, s \in Sessions, legacy, known \in BOOLEAN :
       /\ known => legacy
       /\ disk = [q \in Plans |-> IF q = p /\ legacy
            THEN [owner |-> s, status |-> "suspended", steps |-> "open", source |-> NoSource,
                  stamp |-> 0]
            ELSE None]
       /\ log = [t \in Sessions |-> IF t = s /\ known
            THEN <<Entry("user", None, "none", 1, 1), Entry("create", p, "none", 2, 2)>> ELSE <<>>]
       /\ clock = IF known THEN 2 ELSE 0
  /\ active = [d \in Dbs |-> [s \in Sessions |-> None]]
  /\ todos = [d \in Dbs |-> [s \in Sessions |-> "none"]]
  /\ running = {}
  /\ crossed = FALSE /\ aside = FALSE
  /\ shown = [s \in Sessions |-> {}] /\ back = None

-----------------------------------------------------------------------------
(* Which plan is meant.                                                    *)

There == {p \in Plans : disk[p] # None}
OfSession(s) == {p \in There : disk[p].owner = s}
InProgress(s) == {p \in OfSession(s) : disk[p].status = "in_progress"}
Newest(S) == CHOOSE p \in S : \A q \in S : disk[q].stamp <= disk[p].stamp
IdOrNewest(id, s) ==
  IF id \in There THEN id ELSE IF InProgress(s) # {} THEN Newest(InProgress(s)) ELSE None

\* wrong: without a plan of its own a session takes the latest of the workspace
FindAny(s, named, db) ==
  LET all == UNION {InProgress(t) : t \in Sessions}
      mine == IdOrNewest(active[db][s], s)
  IN CASE named # None -> IF named \in There THEN named ELSE None
       [] named = None /\ mine # None -> mine
       [] OTHER -> IF all = {} THEN None ELSE Newest(all)

\* find_plan_file. A named plan is found whose ever it is. The parent is only
\* known to the catalog: a session's own file has no table of sessions.
Find(s, named, db) ==
  LET mine == IdOrNewest(active[db][s], s)
  IN CASE named # None -> IF named \in There THEN named ELSE None
       [] named = None /\ mine # None -> mine
       [] named = None /\ mine = None /\ db = "catalog" /\ Parent[s] # None ->
            IdOrNewest(active[db][Parent[s]], Parent[s])
       [] OTHER -> None

-----------------------------------------------------------------------------
(* The tools. They run inside a turn and leave an event.                   *)

TakesPart(s) == log[s] # <<>> \/ active["own"][s] # None
Tick(s) ==
  /\ clock < IF \E t \in Sessions \ {s} : TakesPart(t) THEN MaxBeside ELSE MaxLog[s]
  /\ clock' = clock + 1
Now == clock + 1

\* The message of an event: the last one, or a new one.
MayUse(s, msg) ==
  /\ s \in running /\ Tick(s)
  /\ msg \in {Now} \cup (IF Last(log[s]).tool = "user" THEN {} ELSE {Last(log[s]).msg})

Record(s, tool, p, items, msg) ==
  log' = [log EXCEPT ![s] = Append(@, Entry(tool, p, items, Now, msg))]

FirstSource(source, msg) == IF source = NoSource THEN [msg |-> msg, event |-> Now] ELSE source
Written(p, status, steps, source) ==
  [disk[p] EXCEPT !.status = status, !.steps = steps, !.source = source, !.stamp = Now]

\* A plan in progress makes way.
SuspendOld(f) ==
  IF f # None /\ disk[f].status = "in_progress"
  THEN [disk EXCEPT ![f] = [@ EXCEPT !.status = "suspended", !.stamp = Now]] ELSE disk

Alien(s, p) == p \in There /\ disk[p].owner # s

\* create_plan_with_effect
Create(s, p, msg) ==
  /\ MayUse(s, msg)
  /\ disk' = [SuspendOld(Find(s, None, "catalog")) EXCEPT
       ![p] = [owner |-> s, status |-> "in_progress", steps |-> "open",
               source |-> [msg |-> msg, event |-> Now], stamp |-> Now]]
  /\ active' = [active EXCEPT !["catalog"][s] = p]
  /\ todos' = [todos EXCEPT !["catalog"][s] = "open"]
  /\ Record(s, "create", p, "none", msg)
  /\ crossed' = (crossed \/ Alien(s, p))
  /\ shown' = [t \in Sessions |-> IF shown[t] = None THEN None
                                  ELSE {b \in shown[t] : b.board # p}]
  /\ UNCHANGED <<running, aside>>

\* update_plan_with_effect: to a status, or with none, when all steps are done.
Update(s, named, status, msg) ==
  LET p == Find(s, named, "catalog")
      steps == IF status \in {"completed", None} THEN "done" ELSE disk[p].steps
  IN /\ MayUse(s, msg)
     /\ p # None
     /\ disk' = [disk EXCEPT ![p] = Written(p,
          IF status = None THEN disk[p].status ELSE status, steps,
          FirstSource(disk[p].source, msg))]
     /\ active' = IF status = "completed" THEN [active EXCEPT !["catalog"][s] = None] ELSE active
     /\ todos' = [todos EXCEPT !["catalog"][s] = steps]
     /\ Record(s, "update", named, "none", msg)
     /\ crossed' = (crossed \/ Alien(s, p))
     /\ aside' = (aside \/ status \notin {None, "completed"} \/ named # None)
     /\ UNCHANGED <<running, shown>>

SwitchTo(s, p, db) ==
  LET old == Find(s, None, db)
      source == IF db = "catalog" THEN FirstSource(disk[p].source, Now) ELSE disk[p].source
  IN /\ p \in There
     /\ disk' = [SuspendOld(IF old = p THEN None ELSE old) EXCEPT
          ![p] = Written(p, "in_progress", disk[p].steps, source)]
     /\ active' = [active EXCEPT ![db][s] = p]
     /\ todos' = [todos EXCEPT ![db][s] = disk[p].steps]
     /\ crossed' = (crossed \/ Alien(s, p))

\* switch_plan, called by the agent and by the user
Switch(s, p) ==
  /\ MayUse(s, Now) /\ SwitchTo(s, p, "catalog")
  /\ Record(s, "switch", p, "none", Now)
  /\ UNCHANGED <<running, aside, shown>>

SwitchByUser(s, p) ==
  /\ Tick(s) /\ SwitchTo(s, p, "own")
  /\ aside' = TRUE /\ shown' = [shown EXCEPT ![s] = None]
  /\ UNCHANGED <<log, running>>

\* update_plan_step_status. The todos of the plan's owner are written to the
\* file of the session that asked.
StepByUser(s, named, steps) ==
  LET p == Find(s, named, "own")
  IN /\ Tick(s) /\ p # None
     /\ disk' = [disk EXCEPT ![p] = Written(p, disk[p].status, steps, disk[p].source)]
     /\ todos' = IF disk[p].owner = s THEN [todos EXCEPT !["own"][s] = steps] ELSE todos
     /\ UNCHANGED <<active, log, running, crossed, aside, shown>>

Todo(s, items, msg) ==
  /\ MayUse(s, msg)
  /\ todos' = [todos EXCEPT !["own"][s] = items]
  /\ Record(s, "todo", None, items, msg)
  /\ UNCHANGED <<disk, active, running, crossed, aside, shown>>

-----------------------------------------------------------------------------
(* Turns.                                                                  *)

LastIn(e, tools) == {i \in DOMAIN e : e[i].tool \in tools}
MostRecent(e, tools) ==
  CHOOSE i \in LastIn(e, tools) : \A j \in LastIn(e, tools) : j <= i

\* What is withdrawn goes, with all that comes after it.
Kept(s) ==
  LET stays == {i \in DOMAIN log[s] :
                  \A j \in DOMAIN log[s] : log[s][j].reverted => log[s][i].id < log[s][j].id}
  IN [i \in stays |-> log[s][i]]

\* auto_finish_session_todos: open todos become done, in the row and in the
\* last todo event, reverted or not. A plan that is done to the last step is
\* completed. It stays the active one.
FinishTurn(s) ==
  LET last == MostRecent(log[s], {"todo"})
      some == LastIn(log[s], {"todo"}) # {}
      list == IF todos["own"][s] = "none" /\ some THEN log[s][last].items ELSE todos["own"][s]
      p == Find(s, None, "own")
  IN /\ s \in running /\ running' = running \ {s}
     /\ todos' = IF list = "open" THEN [todos EXCEPT !["own"][s] = "done"] ELSE todos
     /\ log' = IF list = "open" /\ some THEN [log EXCEPT ![s][last].items = "done"] ELSE log
     /\ disk' = IF p # None /\ disk[p].status = "in_progress" /\ disk[p].steps = "done"
                THEN [disk EXCEPT ![p].status = "completed"] ELSE disk
     /\ UNCHANGED <<active, clock, crossed, aside, shown>>

\* stop_session_todos puts what was in progress back to pending: still open.
StopTurn(s) ==
  /\ s \in running /\ running' = running \ {s}
  /\ UNCHANGED <<disk, active, todos, log, clock, crossed, aside, shown>>

\* get_session_todos. The runs of a session are not in the catalog, which
\* counts as a run that went well.
ReadTodos(s) ==
  LET p == Find(s, None, "catalog")
      healed == IF todos["catalog"][s] = "open" /\ s \notin running
                THEN "done" ELSE todos["catalog"][s]
      list == IF p # None /\ disk[p].status = "in_progress" THEN disk[p].steps ELSE healed
  IN /\ list # todos["catalog"][s] /\ Tick(s)
     /\ todos' = [todos EXCEPT !["catalog"][s] = list]
     /\ UNCHANGED <<disk, active, log, running, crossed, aside, shown>>

-----------------------------------------------------------------------------
(* Revert, reapply and purge, and what is worked out after them.           *)

PlanTools == {"create", "update", "switch"}
Only(S) == CHOOSE p \in S : TRUE
One(S) == \E p \in S : S = {p}

\* A create has a title, and names no plan.
Named(e) == IF e.tool = "create" THEN None ELSE e.plan

\* The plan an event stands for: the one it, or else its message, is the
\* source of, or the one it names.
Fact(s, e) ==
  LET byEvent == {p \in OfSession(s) : disk[p].source.event = e.id}
      byMsg == {p \in OfSession(s) : disk[p].source.msg = e.msg}
  IN CASE One(byEvent) -> Only(byEvent)
       [] byEvent = {} /\ One(byMsg) -> Only(byMsg)
       [] OTHER -> IF Named(e) \in OfSession(s) THEN Named(e) ELSE None


\* sync_session_plans_after_revert: the latest event that stands for a plan
\* decides. That plan is in progress again, and no other makes way.
Resolved(s, entries) ==
  LET facts == {i \in DOMAIN entries :
                  /\ ~entries[i].reverted /\ entries[i].tool \in PlanTools
                  /\ Fact(s, entries[i]) # None}
  IN IF facts = {} THEN None
     ELSE Fact(s, entries[CHOOSE i \in facts : \A j \in facts : j <= i])

SyncPlans(s, entries) ==
  LET p == Resolved(s, entries)
  IN /\ disk' = IF p # None /\ disk[p].status # "in_progress"
                THEN [disk EXCEPT ![p] = Written(p, "in_progress", disk[p].steps, disk[p].source)]
                ELSE disk
     /\ active' = [active EXCEPT !["own"][s] = p]

SyncTodos(s, entries) ==
  LET live == {i \in LastIn(entries, {"todo"}) : ~entries[i].reverted}
  IN todos' = [todos EXCEPT !["own"][s] =
       IF live = {} THEN "none" ELSE entries[CHOOSE i \in live : \A j \in live : j <= i].items]

Sync(s, entries) ==
  /\ SyncTodos(s, entries) /\ SyncPlans(s, entries)
  /\ log' = [log EXCEPT ![s] = entries]

\* revert_to_message and reapply_from_message, of a message of the user.
Mark(s, i, reverted) ==
  /\ Tick(s) /\ s \notin running /\ back' = IF reverted THEN s ELSE None
  /\ i \in DOMAIN log[s] /\ log[s][i].tool = "user" /\ log[s][i].reverted # reverted
  /\ Sync(s, [j \in DOMAIN log[s] |-> IF j >= i THEN [log[s][j] EXCEPT !.reverted = reverted]
                                      ELSE log[s][j]])
  /\ aside' = TRUE
  /\ UNCHANGED <<running, crossed, shown>>

Purge(s) ==
  /\ Tick(s) /\ s \notin running /\ Kept(s) # log[s]
  /\ Sync(s, Kept(s))
  /\ aside' = TRUE
  /\ UNCHANGED <<running, crossed, shown>>

\* backfill_plan_sources: a file without a source gets it from the create with
\* its title, if there is just one.
Backfill(s) ==
  LET creates(p) == {i \in DOMAIN log[s] : /\ log[s][i].tool = "create" /\ log[s][i].plan = p
                                           /\ ~log[s][i].reverted}
      found == {p \in OfSession(s) : disk[p].source = NoSource /\ One(creates(p))}
      origin(p) == log[s][Only(creates(p))]
  IN /\ found # {}
     /\ disk' = [p \in Plans |-> IF p \in found
          THEN [disk[p] EXCEPT !.source = [msg |-> origin(p).msg, event |-> origin(p).id]]
          ELSE disk[p]]
     /\ UNCHANGED <<active, todos, log, running, clock, crossed, aside, shown>>

-----------------------------------------------------------------------------
(* The board.                                                              *)

LastUser(s) ==
  LET users == {i \in DOMAIN log[s] : log[s][i].tool = "user" /\ ~log[s][i].reverted}
  IN IF users = {} THEN 0 ELSE log[s][CHOOSE i \in users : \A j \in users : j <= i].msg

InTurn(s, tools) ==
  {i \in DOMAIN log[s] : /\ log[s][i].tool \in tools /\ ~log[s][i].reverted
                         /\ log[s][i].msg >= LastUser(s)}
LatestInTurn(s, tools) == log[s][CHOOSE i \in InTurn(s, tools) : \A j \in InTurn(s, tools) : j <= i]

\* get_plan_source_seq: a message that is withdrawn counts, one that is gone
\* or of another session does not.
SourceSeq(s, p) ==
  IF \E i \in DOMAIN log[s] : log[s][i].msg = disk[p].source.msg THEN disk[p].source.msg ELSE 0

\* query_turn_active_plan: the plan, and the number it competes with.
TurnPlan(s) ==
  LET tools == InTurn(s, PlanTools)
      e == LatestInTurn(s, PlanTools)
      byEvent == IF tools = {} THEN None ELSE Find(s, Named(e), "own")
      p == Find(s, None, "own")
  IN CASE byEvent # None -> [plan |-> byEvent, seq |-> e.msg]
       [] byEvent = None /\ p # None /\ SourceSeq(s, p) >= LastUser(s) ->
            [plan |-> p, seq |-> SourceSeq(s, p)]
       [] OTHER -> [plan |-> None, seq |-> 0]

\* derive_current_board: the plan, or the event of the todos, or nothing.
Board(s) ==
  LET plan == TurnPlan(s)
      todo == InTurn(s, {"todo"}) # {}
  IN IF todo /\ (plan.plan = None \/ LatestInTurn(s, {"todo"}).msg > plan.seq)
     THEN LatestInTurn(s, {"todo"}).id ELSE plan.plan

\* the turn had todos alone, or plans alone and no update by name
Simple(s) ==
  \/ InTurn(s, PlanTools) = {}
  \/ /\ InTurn(s, {"todo"}) = {}
     /\ \A i \in InTurn(s, {"update"}) : log[s][i].plan = None

UserMessage(s) ==
  /\ Tick(s)
  /\ log' = [log EXCEPT ![s] = Append(Kept(s), Entry("user", None, "none", Now, Now))]
  /\ running' = running \cup {s}
  /\ shown' = IF shown[s] = None \/ Board(s) = None \/ ~Simple(s) \/ Kept(s) # log[s] THEN shown
              ELSE [shown EXCEPT ![s] = @ \cup {[msg |-> Now, board |-> Board(s)]}]
  /\ UNCHANGED <<disk, active, todos, crossed, aside>>

\* evaluate_intent_gate, which looks at the own rows.
Gate(s) == active["own"][s] # None \/ todos["own"][s] = "open"

-----------------------------------------------------------------------------
(* Properties.                                                             *)

\* The plan that the prompts of a session carry, or that its calls without a
\* name work on, is its own or its parent's, as long as no session named a
\* plan of another and none created one with the title of another's.
Isolated ==
  ~crossed => \A s \in Sessions, db \in Dbs :
    Find(s, None, db)
      \in OfSession(s) \cup (IF Parent[s] = None THEN {} ELSE OfSession(Parent[s])) \cup {None}

\* As long as plans are only created, switched to, stepped and completed by
\* agents, a session has no plan in progress beside the one that its prompts
\* carry.
OneInProgress ==
  ~aside /\ ~crossed => \A s \in Sessions : InProgress(s) \subseteq {active["catalog"][s]}

\* A new message of the user clears the board: no plan or list of an earlier
\* turn is shown, when none of the messages is withdrawn.
BoardIsOfTurn ==
  \A s \in Sessions :
    (log[s] # <<>> /\ Last(log[s]).tool = "user" /\ ~\E i \in DOMAIN log[s] : log[s][i].reverted)
      => Board(s) = None

\* After a revert the board shows the plan or the todos again that it showed
\* as the first message withdrawn was sent (plan.rs, revert_to_message),
\* whatever plans and todos the turns from there on made. It is said of boards
\* that showed something, of a turn that had only todos, or only calls for
\* plans of which no update named one (Simple), with nothing withdrawn then, no
\* plan of the board overwritten since, and until the user switches plans.
\* Excepted is the revert after which no event stands for a plan any more: the
\* files of the plans withdrawn stay in progress, and a search finds the latest.
BoardGoesBack ==
  back # None /\ ~crossed =>
    LET gone == {i \in DOMAIN log[back] : log[back][i].reverted}
        first == CHOOSE i \in gone : \A j \in gone : i <= j
    IN shown[back] # None =>
         \A b \in shown[back] : b.msg = log[back][first].msg =>
           \/ Board(back) = b.board
           \/ active["own"][back] = None /\ \E i \in gone : log[back][i].tool \in PlanTools

-----------------------------------------------------------------------------
\* the message of what a running turn leaves
Uses(s) == IF s \in running THEN {Now, Last(log[s]).msg} ELSE {}
Next ==
  \E s \in Sessions :
    \/ /\ \/ \E m \in Uses(s) :
               \/ \E p \in Plans : Create(s, p, m)
               \/ \E p \in Plans \cup {None}, st \in Statuses \cup {None} : Update(s, p, st, m)
               \/ \E l \in {"open", "done"} : Todo(s, l, m)
          \/ \E p \in Plans : Switch(s, p) \/ SwitchByUser(s, p)
          \/ \E p \in Plans \cup {None}, st \in {"open", "done"} : StepByUser(s, p, st)
          \/ UserMessage(s) \/ FinishTurn(s) \/ StopTurn(s) \/ ReadTodos(s) \/ Purge(s)
          \/ Backfill(s)
       /\ back' = None
    \/ \E i \in DOMAIN log[s], b \in BOOLEAN : Mark(s, i, b)

Spec == Init /\ [][Next]_vars
=============================================================================
