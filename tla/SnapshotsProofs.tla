--------------------------- MODULE SnapshotsProofs ---------------------------
(* Theorems about Snapshots, for any histories, files, contents and users. *)
EXTENDS Snapshots, WellFoundedInduction, FiniteSetTheorems, TLAPS

(***************************************************************************)
(* First and last rows.                                                    *)
(***************************************************************************)
\* Of the sets in T none is inside U but U.
MinimalIn(U, T) == \A V \in T : V \subseteq U => V = U

LEMMA Minimal ==
  ASSUME NEW S, IsFiniteSet(S), NEW T, T \subseteq SUBSET S, T # {}
  PROVE  \E U \in T : MinimalIn(U, T)
<1> DEFINE R == StrictSubsetOrdering(S)
<1>1. T \subseteq FiniteSubsetsOf(S)
  BY FS_Subset DEF FiniteSubsetsOf
<1>2. IsWellFoundedOn(R, FiniteSubsetsOf(S))
  BY FS_StrictSubsetOrderingWellFounded
<1>3. \E U \in T : \A V \in T : ~(<<V, U>> \in R)
  <2> HIDE DEF R
  <2> QED
    BY <1>1, <1>2, WFMin
<1> QED
  BY <1>3 DEF StrictSubsetOrdering, MinimalIn

\* A set of rows has a first and a last one.
LEMMA LeastIs ==
  ASSUME NEW n \in Nat, NEW S \in SUBSET (0 .. n), S # {}
  PROVE  Least(S) \in S /\ \A q \in S : Least(S) <= q
<1>1. IsFiniteSet(S)
  <2>1. IsFiniteSet(0 .. n)
    BY FS_Interval
  <2> QED
    BY <2>1, FS_Subset
<1>2. PICK b \in [S -> SUBSET S] : \A r, q \in S : q \in b[r] <=> q <= r
  <2> WITNESS [r \in S |-> {q \in S : q <= r}] \in [S -> SUBSET S]
  <2> QED
    OBVIOUS
<1>3. PICK T \in SUBSET (SUBSET S) : (\A r \in S : b[r] \in T) /\ \A U \in T : \E r \in S : U = b[r]
  <2> WITNESS {b[r] : r \in S} \in SUBSET (SUBSET S)
  <2> QED
    OBVIOUS
<1>4. PICK U \in T : MinimalIn(U, T)
  <2>1. T # {} /\ T \subseteq SUBSET S
    BY <1>3
  <2> QED
    BY <1>1, <2>1, Minimal
<1>5. PICK r \in S : U = b[r]
  BY <1>3, <1>4
<1>6. ASSUME NEW q \in S PROVE r <= q
  <2>1. r \in Nat /\ q \in Nat /\ r \in b[r]
    BY <1>2
  <2>2. CASE b[q] \subseteq b[r]
    BY <1>2, <1>3, <1>4, <1>5, <2>1, <2>2 DEF MinimalIn
  <2>3. CASE ~(b[q] \subseteq b[r])
    <3>1. PICK p \in S : p <= q /\ ~(p <= r)
      BY <1>2, <2>3
    <3> QED
      BY <2>1, <3>1
  <2> QED
    BY <2>2, <2>3
<1> QED
  BY <1>6 DEF Least

LEMMA MostIs ==
  ASSUME NEW n \in Nat, NEW S \in SUBSET (0 .. n), S # {}
  PROVE  Most(S) \in S /\ \A q \in S : q <= Most(S)
<1>1. IsFiniteSet(S)
  <2>1. IsFiniteSet(0 .. n)
    BY FS_Interval
  <2> QED
    BY <2>1, FS_Subset
<1>2. PICK b \in [S -> SUBSET S] : \A r, q \in S : q \in b[r] <=> r <= q
  <2> WITNESS [r \in S |-> {q \in S : r <= q}] \in [S -> SUBSET S]
  <2> QED
    OBVIOUS
<1>3. PICK T \in SUBSET (SUBSET S) : (\A r \in S : b[r] \in T) /\ \A U \in T : \E r \in S : U = b[r]
  <2> WITNESS {b[r] : r \in S} \in SUBSET (SUBSET S)
  <2> QED
    OBVIOUS
<1>4. PICK U \in T : MinimalIn(U, T)
  <2>1. T # {} /\ T \subseteq SUBSET S
    BY <1>3
  <2> QED
    BY <1>1, <2>1, Minimal
<1>5. PICK r \in S : U = b[r]
  BY <1>3, <1>4
<1>6. ASSUME NEW q \in S PROVE q <= r
  <2>1. r \in Nat /\ q \in Nat /\ r \in b[r]
    BY <1>2
  <2>2. CASE b[q] \subseteq b[r]
    BY <1>2, <1>3, <1>4, <1>5, <2>1, <2>2 DEF MinimalIn
  <2>3. CASE ~(b[q] \subseteq b[r])
    <3>1. PICK p \in S : q <= p /\ ~(r <= p)
      BY <1>2, <2>3
    <3> QED
      BY <2>1, <3>1
  <2> QED
    BY <2>2, <2>3
<1> QED
  BY <1>6 DEF Most

(***************************************************************************)
(* The invariant.                                                          *)
(***************************************************************************)
InForce(f) == OfFile(f) \ reverted
Done(t, f) == (thread[t].list \ thread[t].todo) \cap OfFile(f)
ListOf(t, f) == thread[t].list \cap OfFile(f)
LastOf(op, D) == IF FromOldest(op) THEN Most(D) ELSE Least(D)
Working(t) == thread[t].pc \in {"apply", "mark"}
Resting(t) == thread[t].pc \in {"idle", "sweep"}

\* The rows are written in the order of the command, and each file is as the
\* last of its rows has left it.
OrderOK(t) ==
  Working(t) => \A d \in thread[t].list \ thread[t].todo : \A q \in thread[t].todo :
                  IF FromOldest(thread[t].op) THEN d < q ELSE q < d
WrittenOK(t) ==
  Working(t) => \A f \in Files \ thread[t].touched :
    Done(t, f) # {} =>
      file[f] = Result(thread[t].op, LastOf(thread[t].op, Done(t, f)))

\* A file that was read to be compared, and not written since, is as a row
\* knows it.
Known(f) == file[f] \in Named(OfFile(f)) \cup {Empty, Absent}
ComparedOK(t) ==
  ~thread[t].force =>
    \A f \in Files \ (thread[t].touched \cup thread[t].unread) : ListOf(t, f) # {} =>
      /\ thread[t].pc = "check" =>
           Known(f) \/ \E r \in thread[t].todo : hist[r].file = f
      /\ thread[t].pc = "apply" => Known(f)

\* The table is cut by turns.
TurnsCut ==
  /\ here = {r \in Rows : hist[r].turn \in turns}
  /\ \A u \in TurnsOf(hist), v \in turns : u <= v => u \in turns

\* While nothing disturbs the commands the rows of a file in force are its
\* first ones, and the command at work has rows to go on with.
FirstInForce(f) ==
  InForce(f) = {} \/ \E m \in OfFile(f) : InForce(f) = {q \in OfFile(f) : q <= m}
Fits(me, f) ==
  LET L == me.list \cap OfFile(f)
  IN L # {} => IF me.op \in Reverts
                 THEN /\ InForce(f) \ L = {q \in OfFile(f) : q < Least(L)}
                      /\ me.op = "to" => L = {Least(L)}
                 ELSE InForce(f) \cup L = {q \in OfFile(f) : q <= Most(L)}
IsNext(me, f, r) == hist[r].file = f /\ r = Next1(me.op, me.list \cap OfFile(f))
Agrees(f) == OfFile(f) # {} => file[f] = Recorded(f)
AloneOK(me) ==
  me.pc \in {"check", "apply", "mark"} =>
    /\ ~me.force /\ me.op # "edit" /\ me.touched = {}
    /\ me.pc = "mark" => me.todo = {}
    /\ \E r \in Rows : me.turn = hist[r].turn /\ me.list = Listed(me.op, r)
    /\ \A f \in Files :
         /\ me.pc = "check" \/ me.list \cap OfFile(f) = {} => Agrees(f)
         /\ Fits(me, f) \/ (me.pc = "check" /\ \E r \in me.todo : IsNext(me, f, r))
CleanOK ==
  clean /\ Chained =>
    /\ \A f \in Files : FirstInForce(f)
    /\ \A t, u \in Threads : t # u => thread[t].pc = "idle" \/ thread[u].pc = "idle"
    /\ \A t \in Threads : AloneOK(thread[t])
    /\ (\A t \in Threads : Resting(t)) => \A f \in Files : Agrees(f)

Inv ==
  /\ TypeOK /\ BlobsKept /\ TurnsCut /\ CleanOK
  /\ \A t \in Threads : OrderOK(t) /\ WrittenOK(t) /\ ComparedOK(t)

(***************************************************************************)
(* Rows, threads and their types.                                          *)
(***************************************************************************)
ThreadSet == [pc : Pcs, op : AllOps, turn : Nat, force : BOOLEAN,
              list : SUBSET Rows, todo : SUBSET Rows,
              drop : SUBSET Contents, touched : SUBSET Files,
              unread : SUBSET Files]
Sane(rec) ==
  /\ rec.todo \subseteq rec.list
  /\ rec.pc \in {"check", "apply", "mark"} => rec.op # "purge"
  /\ rec.pc \in {"check", "apply"} => rec.todo # {}

LEMMA Elements == ASSUME NEW X, NEW s \in Seq(X), NEW i \in 1 .. Len(s) PROVE s[i] \in X
OBVIOUS

LEMMA HistTyped ==
  ASSUME SnapshotsAssumption, hist \in Histories
  PROVE  /\ Len(hist) \in Nat /\ Rows = 1 .. Len(hist) /\ Rows \subseteq Nat
         /\ \A r \in Rows : /\ r \in Nat /\ hist[r].turn \in Nat /\ hist[r].file \in Files
                            /\ hist[r].before \in Contents \cup {Absent}
                            /\ hist[r].after \in Contents /\ hist[r].after # Absent
         /\ \A q, r \in Rows : q <= r => hist[q].turn <= hist[r].turn
         /\ TurnsOf(hist) \subseteq Nat
<1>1. hist \in Seq([turn : Nat, file : Files, before : Contents \cup {Absent},
                    after : Contents])
  BY DEF SnapshotsAssumption
<1>2. Len(hist) \in Nat /\ Rows = 1 .. Len(hist)
  BY <1>1 DEF Rows, RowOf
<1>3. \A r \in Rows : hist[r] \in [turn : Nat, file : Files, before : Contents \cup {Absent},
                                   after : Contents]
  <2>1. PICK X : X = [turn : Nat, file : Files, before : Contents \cup {Absent},
                      after : Contents]
    OBVIOUS
  <2>2. \A r \in Rows : hist[r] \in X
    BY <1>1, <1>2, <2>1, Elements
  <2> QED
    BY <2>1, <2>2
<1>4. \A q, r \in Rows : q <= r => hist[q].turn <= hist[r].turn
  BY DEF SnapshotsAssumption, Rows
<1> QED
  BY <1>2, <1>3, <1>4 DEF SnapshotsAssumption, TurnsOf, Rows

LEMMA FirstRow ==
  ASSUME SnapshotsAssumption, hist \in Histories, NEW S \in SUBSET Rows, S # {}
  PROVE  /\ Least(S) \in S /\ \A q \in S : Least(S) <= q
         /\ Most(S) \in S /\ \A q \in S : q <= Most(S)
         /\ \A op : Next1(op, S) \in S /\ LastOf(op, S) \in S
<1>1. PICK n \in Nat : n = Len(hist) /\ Rows = 1 .. n
  BY HistTyped
<1>2. S \in SUBSET (0 .. n)
  BY <1>1
<1> QED
  BY <1>2, LeastIs, MostIs DEF Next1, LastOf

LEMMA ThreadTyped ==
  TypeOK <=> /\ hist \in Histories
             /\ here \subseteq Rows /\ reverted \subseteq Rows
             /\ turns \subseteq TurnsOf(hist) /\ off \subseteq turns
             /\ file \in [Files -> Contents \cup {Absent}]
             /\ blobs \subseteq Contents
             /\ running \in BOOLEAN /\ archived \in BOOLEAN
             /\ thread \in [Threads -> ThreadSet]
             /\ \A t \in Threads : Sane(thread[t])
             /\ clean \in BOOLEAN /\ swept \subseteq Sweeps
             /\ cmds \in 0 .. MaxCmds /\ writes \in 0 .. MaxWrites
BY DEF TypeOK, ThreadSet, Sane

LEMMA TypedAfter ==
  ASSUME TypeOK, hist' = hist, here' \subseteq Rows, reverted' \subseteq Rows,
         turns' \subseteq TurnsOf(hist), off' \subseteq turns',
         file' \in [Files -> Contents \cup {Absent}], blobs' \subseteq Contents,
         running' \in BOOLEAN, archived' \in BOOLEAN,
         thread' \in [Threads -> ThreadSet], \A t \in Threads : Sane(thread'[t]),
         clean' \in BOOLEAN, swept' \subseteq Sweeps,
         cmds' \in 0 .. MaxCmds, writes' \in 0 .. MaxWrites
  PROVE  TypeOK'
<1>1. Rows' = Rows /\ TurnsOf(hist)' = TurnsOf(hist)
  BY DEF Rows, RowOf, TurnsOf
<1> QED
  BY <1>1 DEF TypeOK, ThreadSet, Sane

LEMMA IdleTyped == Idle \in ThreadSet /\ Sane(Idle)
BY DEF Idle, ThreadSet, Sane, Pcs, AllOps, Reverts, Reapplies

LEMMA SameRows ==
  ASSUME hist' = hist
  PROVE  /\ Rows' = Rows /\ ThreadSet' = ThreadSet /\ (Chained <=> Chained')
         /\ \A f : OfFile(f)' = OfFile(f)
         /\ \A R : Named(R)' = Named(R)
         /\ \A r : IsNew(r)' = IsNew(r)
         /\ \A op, r : Result(op, r)' = Result(op, r)
         /\ \A op, S : FirstOfFile(op, S)' = FirstOfFile(op, S)
BY DEF Rows, RowOf, ThreadSet, Chained, OfFile, Named, IsNew, Result, FirstOfFile

\* A step that puts a record of its own in the place of one thread.
LEMMA ThreadMoves ==
  ASSUME TypeOK, hist' = hist, NEW t \in Threads, NEW rec \in ThreadSet, Sane(rec), Set(t, rec)
  PROVE  /\ thread' \in [Threads -> ThreadSet] /\ \A u \in Threads : Sane(thread'[u])
         /\ thread'[t] = rec /\ \A u \in Threads \ {t} : thread'[u] = thread[u]
BY ThreadTyped, SameRows DEF Set

LEMMA ThreadStops ==
  ASSUME TypeOK, hist' = hist, NEW t \in Threads, Stop(t)
  PROVE  /\ thread' \in [Threads -> ThreadSet] /\ \A u \in Threads : Sane(thread'[u])
         /\ thread'[t] = Idle /\ \A u \in Threads \ {t} : thread'[u] = thread[u]
BY IdleTyped, ThreadMoves DEF Stop

(***************************************************************************)
(* What a step may do to a thread beside it.                               *)
(***************************************************************************)
Fine(t) == OrderOK(t) /\ WrittenOK(t) /\ ComparedOK(t)

\* Somebody else wrote the files that are touched from now on.
Beside(u) ==
  /\ thread'[u].pc = thread[u].pc /\ thread'[u].op = thread[u].op
  /\ thread'[u].force = thread[u].force
  /\ thread'[u].list = thread[u].list /\ thread'[u].todo = thread[u].todo
  /\ thread[u].touched \subseteq thread'[u].touched /\ thread'[u].unread = thread[u].unread
  /\ \A f \in Files \ thread'[u].touched : file'[f] = file[f]

LEMMA BesideFine ==
  ASSUME hist' = hist, NEW u \in Threads, Fine(u), Beside(u)
  PROVE  Fine(u)'
<1>1. \A f : /\ Done(u, f)' = Done(u, f) /\ ListOf(u, f)' = ListOf(u, f)
             /\ OfFile(f)' = OfFile(f) /\ Named(OfFile(f))' = Named(OfFile(f))
      /\ Working(u)' = Working(u)
  BY SameRows DEF Done, ListOf, Working, Beside, Named
<1>2. OrderOK(u)'
  BY <1>1 DEF Fine, OrderOK, Beside
<1>3. WrittenOK(u)'
  <2>1. thread'[u].op = thread[u].op
    BY DEF Beside
  <2>2. \A op, D : LastOf(op, D)' = LastOf(op, D)
    BY DEF LastOf
  <2>3. \A r : Result(thread[u].op, r)' = Result(thread[u].op, r)
    BY <2>1 DEF Result
  <2> SUFFICES ASSUME Working(u), NEW f \in Files \ thread'[u].touched, Done(u, f) # {}
               PROVE  file'[f] = Result(thread[u].op, LastOf(thread[u].op, Done(u, f)))'
    BY <1>1 DEF WrittenOK
  <2>4. file[f] = Result(thread[u].op, LastOf(thread[u].op, Done(u, f)))
    BY DEF Fine, WrittenOK, Beside
  <2>5. LastOf(thread[u].op, Done(u, f))' = LastOf(thread[u].op, Done(u, f))
    BY <1>1, <2>1 DEF LastOf
  <2> QED
    BY <2>1, <2>4, <2>5 DEF Beside, Result
<1>4. ComparedOK(u)'
  BY <1>1 DEF Fine, ComparedOK, Beside, Known
<1> QED
  BY <1>2, <1>3, <1>4 DEF Fine

LEMMA StillFine ==
  ASSUME hist' = hist, file' = file, NEW u \in Threads, Fine(u), thread'[u] = thread[u]
  PROVE  Fine(u)'
BY BesideFine DEF Beside

\* A thread that is not at work has nothing to keep.
LEMMA RestFine ==
  ASSUME NEW t \in Threads, thread'[t].pc \in {"idle", "sweep"}
  PROVE  Fine(t)'
BY DEF Fine, OrderOK, WrittenOK, ComparedOK, Working

LEMMA IdleFine ==
  ASSUME NEW t \in Threads, thread'[t] = Idle
  PROVE  Fine(t)'
BY RestFine DEF Idle

LEMMA StopFine ==
  ASSUME TypeOK, hist' = hist, file' = file, NEW t \in Threads, Stop(t),
         \A u \in Threads : Fine(u)
  PROVE  \A u \in Threads : Fine(u)'
BY ThreadStops, IdleFine, StillFine

(***************************************************************************)
(* What a step does to the table: nothing, but for marks and cuts.         *)
(***************************************************************************)
LEMMA TableKept ==
  ASSUME TurnsCut, hist' = hist, here' = here, turns' = turns
  PROVE  TurnsCut'
BY SameRows DEF TurnsCut, TurnsOf, RowOf

LEMMA CutKeeps ==
  ASSUME SnapshotsAssumption, TypeOK, TurnsCut, BlobsKept, hist' = hist, NEW k \in Nat, CutFrom(k)
  PROVE  /\ TurnsCut' /\ here' \subseteq here
         /\ turns' \subseteq turns /\ off' \subseteq turns'
<1>1. TurnsOf(hist) \subseteq Nat /\ turns \subseteq TurnsOf(hist) /\ Rows' = Rows
      /\ \A r \in Rows : hist[r].turn \in Nat
  BY HistTyped, SameRows DEF TypeOK
<1>2. here' = {r \in Rows : hist[r].turn \in turns'}
  BY <1>1 DEF CutFrom, TurnsCut
<1>3. \A u \in TurnsOf(hist), v \in turns' : u <= v => u \in turns'
  BY <1>1 DEF CutFrom, TurnsCut
<1> QED
  BY <1>1, <1>2, <1>3 DEF TurnsCut, CutFrom, TypeOK, TurnsOf, RowOf

LEMMA NamedGrows ==
  \A Q, R : Q \subseteq R => Named(Q) \subseteq Named(R)
BY DEF Named

(***************************************************************************)
(* While nobody disturbs the commands.                                     *)
(***************************************************************************)

LEMMA SameFiles ==
  ASSUME UNCHANGED <<hist, reverted, file>>
  PROVE  \A f : /\ OfFile(f)' = OfFile(f) /\ InForce(f)' = InForce(f)
                /\ Recorded(f)' = Recorded(f)
                /\ (FirstInForce(f)' <=> FirstInForce(f)) /\ (Agrees(f)' <=> Agrees(f))
BY DEF Rows, RowOf, OfFile, InForce, Recorded, FirstInForce, Agrees

LEMMA AloneStays ==
  ASSUME UNCHANGED <<hist, here, reverted, file>>, NEW me
  PROVE  AloneOK(me)' <=> AloneOK(me)
<1>1. \A f : /\ OfFile(f)' = OfFile(f) /\ InForce(f)' = InForce(f) /\ (Agrees(f)' <=> Agrees(f))
  BY SameFiles
<1>2. Rows' = Rows /\ \A op, r : Listed(op, r)' = Listed(op, r)
  BY DEF Rows, RowOf, Listed
<1>3. \A f : Fits(me, f)' <=> Fits(me, f)
  BY <1>1 DEF Fits
<1>4. \A f, r : IsNext(me, f, r)' <=> IsNext(me, f, r)
  BY <1>1 DEF IsNext, Next1
<1> QED
  BY <1>1, <1>2, <1>3, <1>4 DEF AloneOK

LEMMA NothingFits ==
  ASSUME NEW me, NEW f, me.list \cap OfFile(f) = {} PROVE Fits(me, f)
BY DEF Fits

LEMMA AloneNow ==
  ASSUME NEW t, NEW me, thread'[t] = me
  PROVE  AloneOK(thread[t])' <=> AloneOK(me)'
BY DEF AloneOK, Fits, IsNext

LEMMA CleanStays ==
  ASSUME CleanOK, UNCHANGED <<hist, here, reverted, turns, file, thread, clean>>
  PROVE  CleanOK'
<1>1. \A t : AloneOK(thread[t])' <=> AloneOK(thread[t])
  <2> TAKE t
  <2>1. PICK me : me = thread[t] /\ me = thread'[t]
    OBVIOUS
  <2>2. AloneOK(me)' <=> AloneOK(me)
    BY AloneStays
  <2>3. AloneOK(thread[t])' <=> AloneOK(me)'
    BY <2>1, AloneNow
  <2> QED
    BY <2>1, <2>2, <2>3
<1>2. (\A t \in Threads : Resting(t))' <=> \A t \in Threads : Resting(t)
  BY DEF Resting
<1>3. \A f : (FirstInForce(f)' <=> FirstInForce(f)) /\ (Agrees(f)' <=> Agrees(f))
  BY SameFiles
<1> QED
  BY <1>1, <1>2, <1>3, SameRows DEF CleanOK

LEMMA CleanRests ==
  ASSUME hist' = hist, \A t \in Threads : Resting(t)',
         clean' /\ Chained =>
           /\ \A f \in Files : FirstInForce(f)' /\ Agrees(f)'
           /\ \A t, u \in Threads : t # u => thread'[t].pc = "idle" \/ thread'[u].pc = "idle"
  PROVE  CleanOK'
<1>1. \A t \in Threads : AloneOK(thread[t])'
  BY DEF AloneOK, Resting
<1> QED
  BY <1>1, SameRows DEF CleanOK

\* A rest before and after, and the marks and the files as they were.
LEMMA CleanCut ==
  ASSUME CleanOK, UNCHANGED <<hist, reverted, file>>, clean' => clean,
         \A t \in Threads : Resting(t)',
         clean' => \A t \in Threads : Resting(t),
         clean' => \A t, u \in Threads : t # u => thread'[t].pc = "idle" \/ thread'[u].pc = "idle"
  PROVE  CleanOK'
<1>1. \A f : (FirstInForce(f)' <=> FirstInForce(f)) /\ (Agrees(f)' <=> Agrees(f))
  BY SameFiles
<1>2. clean' /\ Chained => \A f \in Files : FirstInForce(f)' /\ Agrees(f)'
  BY <1>1 DEF CleanOK
<1> QED
  BY <1>2, CleanRests

LEMMA Disturbed == ASSUME ~clean' PROVE CleanOK'
BY DEF CleanOK

(***************************************************************************)
(* What happens beside the commands.                                       *)
(***************************************************************************)
LEMMA BesideInv ==
  ASSUME SnapshotsAssumption, Inv,
         \/ StartRun \/ EndRun \/ Archive \/ Unarchive
         \/ \E kept \in SUBSET Foreign : SweepDeletion(kept)
         \/ \E drop \in SUBSET Foreign, pooled \in BOOLEAN : PurgeElsewhere(drop, pooled)
  PROVE  Inv'
<1> USE DEF StartRun, EndRun, Archive, Unarchive, SweepDeletion, PurgeElsewhere, table, bounds
<1>1. TypeOK'
  <2>1. cmds' \in 0 .. MaxCmds
    BY DEF Inv, TypeOK, SnapshotsAssumption
  <2>2. blobs' \subseteq Contents /\ swept' \subseteq Sweeps
    BY DEF Inv, TypeOK, Sweeps
  <2>3. running' \in BOOLEAN /\ archived' \in BOOLEAN
    BY DEF Inv, TypeOK
  <2> QED
    BY <2>1, <2>2, <2>3, ThreadTyped, TypedAfter DEF Inv
<1>2. BlobsKept'
  BY SameRows DEF Inv, BlobsKept, TypeOK, Named
<1>3. TurnsCut' /\ CleanOK'
  BY TableKept, CleanStays DEF Inv
<1>4. \A t \in Threads : Fine(t)'
  BY StillFine DEF Inv, Fine
<1> QED
  BY <1>1, <1>2, <1>3, <1>4 DEF Inv, Fine

LEMMA WriteInv ==
  ASSUME SnapshotsAssumption, Inv, NEW f \in Files, NEW c \in Written,
         UserWrite(f, c) \/ AgentWrite(f, c)
  PROVE  Inv'
<1> USE DEF UserWrite, AgentWrite, Write, table
<1>1. /\ thread' \in [Threads -> ThreadSet] /\ \A t \in Threads : Sane(thread'[t])
      /\ \A t \in Threads : Beside(t)
  <2>1. thread \in [Threads -> ThreadSet] /\ \A t \in Threads : Sane(thread[t])
        /\ file \in [Files -> Contents \cup {Absent}]
    BY ThreadTyped DEF Inv
  <2>2. ASSUME NEW t \in Threads
        PROVE  /\ thread'[t] = [thread[t] EXCEPT !.touched = @ \cup {f}]
               /\ thread'[t] \in ThreadSet /\ Sane(thread'[t]) /\ Beside(t)
    <3>1. thread'[t] = [thread[t] EXCEPT !.touched = thread[t].touched \cup {f}]
      OBVIOUS
    <3>2. thread'[t] \in ThreadSet
      <4>1. thread[t] \in ThreadSet /\ thread[t].touched \cup {f} \subseteq Files
        BY <2>1 DEF ThreadSet
      <4> HIDE DEF UserWrite, AgentWrite, Write
      <4> QED
        BY <3>1, <4>1 DEF ThreadSet
    <3>3. /\ thread'[t].pc = thread[t].pc /\ thread'[t].op = thread[t].op
          /\ thread'[t].force = thread[t].force
          /\ thread'[t].list = thread[t].list /\ thread'[t].todo = thread[t].todo
          /\ thread'[t].touched = thread[t].touched \cup {f}
          /\ thread'[t].unread = thread[t].unread
      BY <2>1, <3>1 DEF ThreadSet
    <3> QED
      BY <2>1, <3>1, <3>2, <3>3 DEF Sane, Beside
  <2> QED
    BY <2>2
<1>2. TypeOK'
  <2>1. c \in Contents \cup {Absent} /\ writes' \in 0 .. MaxWrites
    BY DEF Inv, TypeOK, SnapshotsAssumption
  <2>2. file' \in [Files -> Contents \cup {Absent}]
    <3>1. file \in [Files -> Contents \cup {Absent}] /\ file' = [file EXCEPT ![f] = c]
      BY DEF Inv, TypeOK
    <3> HIDE DEF UserWrite, AgentWrite, Write
    <3> QED
      BY <2>1, <3>1
  <2>3. blobs' \subseteq Contents
    <3>1. blobs \subseteq Contents /\ file[f] \in Contents \cup {Absent}
      BY DEF Inv, TypeOK
    <3> QED
      BY <2>1, <3>1
  <2> QED
    BY <1>1, <2>1, <2>2, <2>3, ThreadTyped, TypedAfter DEF Inv
<1>3. BlobsKept'
  BY SameRows DEF Inv, BlobsKept, TypeOK, Named
<1>4. TurnsCut' /\ CleanOK'
  BY TableKept, Disturbed DEF Inv
<1>5. \A t \in Threads : Fine(t)'
  BY <1>1, BesideFine DEF Inv, Fine
<1> QED
  BY <1>2, <1>3, <1>4, <1>5 DEF Inv, Fine

\* The table cut from a turn on.
LEMMA Cut ==
  ASSUME SnapshotsAssumption, TypeOK, TurnsCut, BlobsKept, hist' = hist, CutWithdrawn
  PROVE  /\ TurnsCut' /\ here' \subseteq here
         /\ turns' \subseteq turns /\ off' \subseteq turns'
<1>1. CASE off = {}
  BY <1>1, TableKept DEF CutWithdrawn, TypeOK
<1>2. CASE off # {}
  <2>1. off \subseteq TurnsOf(hist)
    BY DEF TypeOK
  <2>2. PICK n \in Nat : TurnsOf(hist) \subseteq 0 .. n
    <3>0. Rows # {} /\ hist \in Histories
      BY <1>2, <2>1 DEF TypeOK, TurnsOf, Rows
    <3>1. PICK n \in Nat : n = Len(hist) /\ Rows = 1 .. n
      BY <3>0, HistTyped
    <3>2. n \in Rows /\ \A r \in Rows : r <= n
      BY <3>0, <3>1
    <3>3. \A r \in Rows : hist[r].turn <= hist[n].turn /\ hist[r].turn \in Nat
      BY <3>0, <3>2, HistTyped
    <3>4. \A u \in TurnsOf(hist) : u \in 0 .. hist[n].turn
      <4> SUFFICES ASSUME NEW r \in Rows PROVE hist[r].turn \in 0 .. hist[n].turn
        BY DEF TurnsOf, Rows
      <4> QED
        BY <3>2, <3>3
    <3> QED
      BY <3>2, <3>3, <3>4
  <2>3. Least(off) \in Nat
    <3>1. off \in SUBSET (0 .. n)
      BY <2>1, <2>2
    <3>2. Least(off) \in off
      BY <1>2, <3>1, LeastIs
    <3>3. \A u \in off : u \in Nat
      BY <2>1, HistTyped DEF TypeOK
    <3> QED
      BY <3>2, <3>3
  <2> QED
    BY <1>2, <2>3, CutKeeps DEF CutWithdrawn
<1> QED
  BY <1>1, <1>2

LEMMA NamedTyped ==
  ASSUME SnapshotsAssumption, hist \in Histories, NEW R \in SUBSET Rows
  PROVE  Named(R) \subseteq Contents
BY HistTyped DEF Named

LEMMA SendInv ==
  ASSUME SnapshotsAssumption, Inv, Send PROVE Inv'
<1> USE DEF Send
<1>1. /\ TurnsCut' /\ here' \subseteq here
      /\ turns' \subseteq turns /\ off' \subseteq turns'
  BY Cut DEF Inv
<1>2. TypeOK'
  <2>1. cmds' \in 0 .. MaxCmds /\ clean' \in BOOLEAN
    BY DEF Inv, TypeOK, SnapshotsAssumption
  <2>2. TypeOK /\ here' \subseteq Rows /\ turns' \subseteq TurnsOf(hist)
    BY <1>1 DEF Inv, TypeOK
  <2> QED
    BY <1>1, <2>1, <2>2, ThreadTyped, TypedAfter
<1>3. BlobsKept'
  BY <1>1 DEF Inv, BlobsKept, Named
<1>4. CleanOK'
  <2>1. CASE ~clean'
    BY <2>1, Disturbed
  <2>2. CASE clean'
    BY <2>2, CleanCut DEF Resting, Inv
  <2> QED
    BY <2>1, <2>2
<1>5. \A t \in Threads : Fine(t)'
  BY StillFine DEF Inv, Fine
<1> QED
  BY <1>1, <1>2, <1>3, <1>4, <1>5 DEF Inv, Fine

LEMMA RestartInv ==
  ASSUME SnapshotsAssumption, Inv, NEW old \in SUBSET blobs, Restart(old) PROVE Inv'
<1> USE DEF Restart, table
<1>0. \A t \in Threads : thread'[t] = Idle /\ thread'[t].pc = "idle"
  BY DEF Idle
<1>1. TypeOK'
  <2>1. cmds' \in 0 .. MaxCmds /\ clean' \in BOOLEAN /\ swept' \subseteq Sweeps
    BY DEF Inv, TypeOK, SnapshotsAssumption, Sweeps
  <2>2. thread' \in [Threads -> ThreadSet] /\ \A t \in Threads : Sane(thread'[t])
    BY IdleTyped
  <2> QED
    BY <2>1, <2>2, ThreadTyped, TypedAfter DEF Inv
<1>2. BlobsKept'
  BY DEF Inv, BlobsKept, Named
<1>3. TurnsCut'
  BY TableKept DEF Inv
<1>4. CleanOK'
  BY <1>0, CleanCut DEF Resting, Inv
<1>5. \A t \in Threads : Fine(t)'
  BY <1>0, IdleFine
<1> QED
  BY <1>1, <1>2, <1>3, <1>4, <1>5 DEF Inv, Fine

LEMMA CmdsBounded ==
  ASSUME SnapshotsAssumption, TypeOK, NEW t \in Threads, MayBegin(t), cmds' = cmds + 1
  PROVE  cmds' \in 0 .. MaxCmds
<1>1. cmds \in Nat /\ MaxCmds \in Nat /\ MaxBeside \in 0 .. MaxCmds
  BY DEF SnapshotsAssumption, TypeOK
<1>2. cmds < MaxCmds
  BY <1>1 DEF MayBegin
<1> QED
  BY <1>1, <1>2

LEMMA BeginPurgeInv ==
  ASSUME SnapshotsAssumption, Inv, NEW t \in Threads, BeginPurge(t) PROVE Inv'
<1> USE DEF BeginPurge, SameWorld
<1>1. /\ TurnsCut' /\ here' \subseteq here
      /\ turns' \subseteq turns /\ off' \subseteq turns'
  BY Cut DEF Inv
<1>2. PICK rec \in ThreadSet : Set(t, rec) /\ Sane(rec) /\ rec.pc = "sweep"
  <2>1. PICK D \in SUBSET Contents : D = Named(here \ here')
    BY <1>1, NamedTyped DEF Inv, TypeOK
  <2>2. PICK rec : rec = [Idle EXCEPT !.pc = "sweep", !.op = "purge", !.drop = D]
    OBVIOUS
  <2>3. rec \in ThreadSet /\ Sane(rec) /\ rec.pc = "sweep"
    BY <2>2 DEF Idle, ThreadSet, Sane, Pcs, AllOps
  <2> QED
    BY <2>1, <2>2, <2>3
<1>3. /\ thread' \in [Threads -> ThreadSet] /\ \A u \in Threads : Sane(thread'[u])
      /\ thread'[t] = rec /\ \A u \in Threads \ {t} : thread'[u] = thread[u]
  BY <1>2, ThreadMoves DEF Inv
<1>4. TypeOK'
  <2>1. cmds' \in 0 .. MaxCmds
    BY CmdsBounded DEF Inv
  <2>2. TypeOK /\ here' \subseteq Rows /\ turns' \subseteq TurnsOf(hist) /\ clean' \in BOOLEAN
    BY <1>1 DEF Inv, TypeOK
  <2> QED
    BY <1>1, <1>3, <2>1, <2>2, ThreadTyped, TypedAfter
<1>5. BlobsKept'
  BY <1>1 DEF Inv, BlobsKept, Named
<1>6. CleanOK'
  <2>1. CASE ~clean'
    BY <2>1, Disturbed
  <2>2. CASE clean'
    <3>1. \A u \in Threads : thread[u].pc = "idle"
      BY <2>2 DEF Alone, MayBegin
    <3>2. \A u \in Threads \ {t} : thread'[u].pc = "idle"
      BY <1>3, <3>1
    <3>3. thread'[t].pc = "sweep"
      BY <1>2, <1>3
    <3> QED
      BY <2>2, <3>1, <3>2, <3>3, CleanCut DEF Resting, Inv
  <2> QED
    BY <2>1, <2>2
<1>7. \A u \in Threads : Fine(u)'
  BY <1>2, <1>3, StillFine, RestFine DEF Inv, Fine
<1> QED
  BY <1>1, <1>4, <1>5, <1>6, <1>7 DEF Inv, Fine

LEMMA SweepPurgedInv ==
  ASSUME SnapshotsAssumption, Inv, NEW t \in Threads, NEW kept \in SUBSET Foreign,
         SweepPurged(t, kept)
  PROVE  Inv'
<1> USE DEF SweepPurged, table
<1>1. /\ thread' \in [Threads -> ThreadSet] /\ \A u \in Threads : Sane(thread'[u])
      /\ thread'[t] = Idle /\ \A u \in Threads \ {t} : thread'[u] = thread[u]
  BY ThreadStops DEF Inv
<1>2. TypeOK'
  <2>1. blobs' \subseteq Contents /\ swept' \subseteq Sweeps
    BY DEF Inv, TypeOK, Sweeps
  <2> QED
    BY <1>1, <2>1, ThreadTyped, TypedAfter DEF Inv
<1>3. BlobsKept'
  BY DEF Inv, BlobsKept, Named
<1>4. TurnsCut'
  BY TableKept DEF Inv
<1>5. CleanOK'
  <2>1. CASE clean /\ Chained
    <3>1. \A u \in Threads \ {t} : thread[u].pc = "idle"
      BY <2>1 DEF Inv, CleanOK
    <3>2. \A u \in Threads : Resting(u) /\ thread'[u].pc = "idle"
      BY <1>1, <3>1 DEF Resting, Idle
    <3> QED
      BY <3>2, CleanCut DEF Resting, Inv
  <2>2. CASE ~(clean /\ Chained)
    BY <2>2, SameRows DEF CleanOK
  <2> QED
    BY <2>1, <2>2
<1>6. \A u \in Threads : Fine(u)'
  BY StopFine DEF Inv, Fine
<1> QED
  BY <1>2, <1>3, <1>4, <1>5, <1>6 DEF Inv, Fine

\* One thread moves on, in the same world, and the others are idle.
LEMMA CleanMoves ==
  ASSUME CleanOK, UNCHANGED <<hist, here, reverted, file>>, clean' => clean,
         NEW t \in Threads, \A u \in Threads \ {t} : thread'[u] = thread[u],
         NEW rec, thread'[t] = rec,
         clean' /\ Chained => /\ \A u \in Threads \ {t} : thread[u].pc = "idle"
                              /\ AloneOK(rec) /\ \A f \in Files : Resting(t)' => Agrees(f)
  PROVE  CleanOK'
<1> SUFFICES ASSUME clean', Chained PROVE CleanOK'
  BY SameRows DEF CleanOK
<1>1. \A f : (FirstInForce(f)' <=> FirstInForce(f)) /\ (Agrees(f)' <=> Agrees(f))
  BY SameFiles
<1>2. \A f \in Files : FirstInForce(f)'
  BY <1>1 DEF CleanOK
<1>3. \A u \in Threads \ {t} : thread'[u].pc = "idle"
  OBVIOUS
<1>4. \A u \in Threads : AloneOK(thread[u])'
  <2>1. AloneOK(rec)'
    BY AloneStays
  <2>2. AloneOK(thread[t])'
    BY <2>1, AloneNow
  <2> QED
    BY <1>3, <2>2 DEF AloneOK
<1>5. (\A u \in Threads : Resting(u)') => \A f \in Files : Agrees(f)'
  BY <1>1
<1> QED
  BY <1>2, <1>3, <1>4, <1>5 DEF CleanOK

LEMMA ListedTyped ==
  ASSUME TypeOK, NEW op \in AllOps \ {"purge"}, NEW r \in Rows
  PROVE  Listed(op, r) \subseteq here
BY DEF Listed, TypeOK, AllOps, Reverts, Reapplies

\* Of each file on the list a row is compared with the disk, its next one.
LEMMA FirstOfEach ==
  ASSUME SnapshotsAssumption, hist \in Histories, NEW op, NEW S \in SUBSET Rows
  PROVE  /\ FirstOfFile(op, S) \subseteq S
         /\ \A f \in Files : S \cap OfFile(f) # {} =>
              \E r \in FirstOfFile(op, S) : hist[r].file = f /\ r = Next1(op, S \cap OfFile(f))
         /\ S # {} => FirstOfFile(op, S) # {}
<1>1. FirstOfFile(op, S) \subseteq S
  BY DEF FirstOfFile
<1>2. ASSUME NEW f \in Files, S \cap OfFile(f) # {}
      PROVE  \E r \in FirstOfFile(op, S) : hist[r].file = f /\ r = Next1(op, S \cap OfFile(f))
  <2>1. PICK r : r = Next1(op, S \cap OfFile(f))
    OBVIOUS
  <2>2. r \in S \cap OfFile(f)
    BY <1>2, <2>1, FirstRow
  <2>3. hist[r].file = f /\ r \in S
    BY <2>2 DEF OfFile
  <2>4. {q \in S : hist[q].file = hist[r].file} = S \cap OfFile(f)
    BY <2>3 DEF OfFile
  <2>5. r \in FirstOfFile(op, S)
    BY <2>1, <2>3, <2>4 DEF FirstOfFile
  <2> QED
    BY <2>1, <2>3, <2>5
<1>3. ASSUME S # {} PROVE FirstOfFile(op, S) # {}
  <2>1. PICK q \in S : hist[q].file \in Files
    BY <1>3, HistTyped
  <2>2. S \cap OfFile(hist[q].file) # {}
    BY <2>1 DEF OfFile
  <2> QED
    BY <1>2, <2>1, <2>2
<1> QED
  BY <1>1, <1>2, <1>3

\* What a command is when it has begun, with something or nothing to do.
Begun(rec, op, r, force) ==
  \/ rec = Idle
  \/ /\ rec.op = op /\ rec.turn = hist[r].turn /\ rec.force = force
     /\ rec.touched = {} /\ rec.list = Listed(op, r)
     /\ rec.todo = IF force THEN rec.list ELSE FirstOfFile(op, rec.list)
     /\ \/ rec.list = {} /\ rec.pc = "mark"
        \/ rec.list # {} /\ rec.pc = IF force THEN "apply" ELSE "check"

LEMMA BegunIs ==
  ASSUME SnapshotsAssumption, TypeOK, NEW t \in Threads, NEW op \in Ops \ {"purge"},
         NEW r \in Rows, NEW force \in BOOLEAN, Begin(t, op, r, force)
  PROVE  \E rec \in ThreadSet : Set(t, rec) /\ Sane(rec) /\ Begun(rec, op, r, force)
<1>0. hist \in Histories /\ op \in AllOps \ {"purge"}
  BY DEF TypeOK, SnapshotsAssumption
<1>1. PICK S \in SUBSET Rows : S = Listed(op, r) /\ S \subseteq here
  BY <1>0, ListedTyped DEF TypeOK
<1>2. PICK pc : pc = AfterList(op, force, S)
  OBVIOUS
<1>3. FirstOfFile(op, S) \subseteq S /\ (S # {} => FirstOfFile(op, S) # {})
  BY <1>0, FirstOfEach
<1>10. PICK todo : todo = IF force THEN S ELSE FirstOfFile(op, S)
  OBVIOUS
<1>4. /\ todo = IF force THEN S ELSE FirstOfFile(op, S)
      /\ todo \subseteq S /\ (S # {} => todo # {})
  BY <1>3, <1>10
<1>5. \/ pc = "idle"
      \/ S = {} /\ pc = "mark"
      \/ S # {} /\ pc = IF force THEN "apply" ELSE "check"
  BY <1>2 DEF AfterList
<1>6. PICK new : new = [Idle EXCEPT !.pc = pc, !.op = op, !.turn = hist[r].turn, !.force = force,
                                    !.list = S, !.todo = todo]
  OBVIOUS
<1>7. Set(t, IF pc = "idle" THEN Idle ELSE new)
  BY <1>1, <1>2, <1>4, <1>6 DEF Begin
<1>8. CASE pc = "idle"
  BY <1>7, <1>8, IdleTyped DEF Begun
<1>9. CASE pc # "idle"
  <2>1. /\ new.pc = pc /\ new.op = op /\ new.turn = hist[r].turn /\ new.force = force
        /\ new.touched = {} /\ new.list = S /\ new.todo = todo
    BY <1>6 DEF Idle
  <2>2. new \in ThreadSet
    <3>1. hist[r].turn \in Nat /\ pc \in Pcs
      BY <1>0, <1>5, HistTyped DEF Pcs
    <3> QED
      BY <1>0, <1>4, <1>6, <3>1 DEF Idle, ThreadSet
  <2>3. Sane(new)
    BY <1>4, <1>5, <1>9, <2>1, <1>0 DEF Sane
  <2>4. Begun(new, op, r, force)
    BY <1>1, <1>4, <1>5, <1>9, <2>1 DEF Begun
  <2> QED
    BY <1>7, <1>9, <2>2, <2>3, <2>4
<1> QED
  BY <1>8, <1>9

LEMMA BegunRows ==
  ASSUME SnapshotsAssumption, TypeOK, NEW op, NEW r, NEW force, NEW rec \in ThreadSet,
         Begun(rec, op, r, force), rec # Idle
  PROVE  /\ rec.pc \in {"apply", "mark"} => rec.todo = rec.list
         /\ \A f \in Files : rec.list \cap OfFile(f) # {} =>
              \/ rec.pc = "apply"
              \/ rec.pc = "check" /\ \E q \in rec.todo : IsNext(rec, f, q)
<1>1. rec.list \in SUBSET Rows /\ hist \in Histories
  BY DEF ThreadSet, TypeOK
<1>2. rec.pc = "check" => rec.todo = FirstOfFile(op, rec.list)
  BY DEF Begun
<1>3. \A f \in Files : rec.list \cap OfFile(f) # {} =>
        \E q \in FirstOfFile(op, rec.list) :
          hist[q].file = f /\ q = Next1(op, rec.list \cap OfFile(f))
  <2>1. PICK S \in SUBSET Rows : S = rec.list
    BY <1>1
  <2>2. \A f \in Files : S \cap OfFile(f) # {} =>
          \E q \in FirstOfFile(op, S) : hist[q].file = f /\ q = Next1(op, S \cap OfFile(f))
    BY <1>1, FirstOfEach, Zenon
  <2> QED
    BY <2>1, <2>2
<1>4. rec.op = op
  BY DEF Begun
<1>5. rec.list = {} => FirstOfFile(op, rec.list) = {}
  BY DEF FirstOfFile
<1>6. rec.pc \in {"apply", "mark"} => rec.todo = rec.list
  BY <1>5 DEF Begun
<1>7. ASSUME NEW f \in Files, rec.list \cap OfFile(f) # {}, rec.pc # "apply"
      PROVE  rec.pc = "check" /\ \E q \in rec.todo : IsNext(rec, f, q)
  <2>1. rec.pc = "check"
    BY <1>7 DEF Begun
  <2> QED
    BY <1>2, <1>3, <1>4, <1>7, <2>1 DEF IsNext
<1> QED
  BY <1>6, <1>7

LEMMA BeginFine ==
  ASSUME SnapshotsAssumption, TypeOK, hist' = hist, NEW t, NEW op, NEW r, NEW force,
         NEW rec \in ThreadSet, Begun(rec, op, r, force), thread'[t] = rec
  PROVE  Fine(t)'
<1>1. CASE rec = Idle
  BY <1>1, RestFine DEF Idle, Fine, OrderOK, WrittenOK, ComparedOK, Working
<1>2. CASE rec # Idle
  <2>1. rec.pc \in {"apply", "mark"} => rec.todo = rec.list
    BY <1>2, BegunRows
  <2>2. OrderOK(t)' /\ WrittenOK(t)'
    BY <2>1 DEF OrderOK, WrittenOK, Working, Done
  <2>3. ~rec.force => rec.pc # "apply"
    BY <1>2 DEF Begun
  <2>4. \A f \in Files : rec.list \cap OfFile(f) # {} /\ rec.pc = "check" =>
          \E q \in rec.todo : hist[q].file = f
    <3>1. /\ rec.pc \in {"apply", "mark"} => rec.todo = rec.list
          /\ \A f \in Files : rec.list \cap OfFile(f) # {} =>
               \/ rec.pc = "apply"
               \/ rec.pc = "check" /\ \E q \in rec.todo : IsNext(rec, f, q)
      BY ONLY SnapshotsAssumption, TypeOK, rec \in ThreadSet, Begun(rec, op, r, force), <1>2, BegunRows
    <3> QED
      BY <3>1 DEF IsNext
  <2>5. ComparedOK(t)'
    BY <2>3, <2>4, SameRows DEF ComparedOK, ListOf
  <2> QED
    BY <2>2, <2>5 DEF Fine
<1> QED
  BY <1>1, <1>2

LEMMA BeginInv ==
  ASSUME SnapshotsAssumption, Inv, NEW t \in Threads, NEW op \in Ops \ {"purge"},
         NEW r \in Rows, NEW force \in BOOLEAN, Begin(t, op, r, force)
  PROVE  Inv'
<1>0. /\ UNCHANGED <<hist, here, reverted, off, turns, file, blobs, running, archived, swept, writes>>
      /\ MayBegin(t) /\ cmds' = cmds + 1 /\ clean' = (clean /\ ~force /\ Alone(t))
      /\ (op = "edit" => force)
  BY DEF Begin, SameWorld, table
<1>1. PICK rec \in ThreadSet : Set(t, rec) /\ Sane(rec) /\ Begun(rec, op, r, force)
  BY BegunIs DEF Inv
<1>2. /\ thread' \in [Threads -> ThreadSet] /\ \A u \in Threads : Sane(thread'[u])
      /\ thread'[t] = rec /\ \A u \in Threads \ {t} : thread'[u] = thread[u]
  BY <1>0, <1>1, ThreadMoves DEF Inv
<1>3. TypeOK'
  <2>1. cmds' \in 0 .. MaxCmds /\ clean' \in BOOLEAN
    BY <1>0, CmdsBounded DEF Inv, TypeOK
  <2> QED
    BY <1>0, <1>2, <2>1, ThreadTyped, TypedAfter DEF Inv
<1>4. BlobsKept'
  BY <1>0 DEF Inv, BlobsKept, Named
<1>5. TurnsCut'
  BY <1>0, TableKept DEF Inv
<1>6. CleanOK'
  <2>1. ASSUME clean', Chained
        PROVE  /\ \A u \in Threads \ {t} : thread[u].pc = "idle"
               /\ AloneOK(rec) /\ \A f \in Files : Agrees(f)
    <3>1. \A u \in Threads : thread[u].pc = "idle"
      BY <1>0, <2>1 DEF Alone, MayBegin
    <3>2. \A f \in Files : Agrees(f)
      BY <1>0, <2>1, <3>1 DEF Inv, CleanOK, Resting
    <3>3. CASE rec = Idle
      BY <3>1, <3>2, <3>3 DEF AloneOK, Idle
    <3>4. CASE rec # Idle
      <4>1. /\ ~rec.force /\ rec.op # "edit" /\ rec.touched = {}
            /\ rec.pc = "mark" => rec.list = {}
            /\ rec.turn = hist[r].turn /\ rec.list = Listed(rec.op, r)
            /\ rec.pc # "apply"
        BY <1>0, <1>1, <2>1, <3>4 DEF Begun
      <4>2. rec.pc = "mark" => rec.todo = {}
        BY <1>1, <4>1 DEF Sane
      <4>3. ASSUME NEW f \in Files
            PROVE  Fits(rec, f) \/ (rec.pc = "check" /\ \E q \in rec.todo : IsNext(rec, f, q))
        <5>1. \A g \in Files : rec.list \cap OfFile(g) # {} =>
              \/ rec.pc = "apply"
              \/ rec.pc = "check" /\ \E q \in rec.todo : IsNext(rec, g, q)
          BY <1>1, <3>4, BegunRows DEF Inv
        <5>2. CASE rec.list \cap OfFile(f) = {}
          BY <5>2, NothingFits
        <5>3. CASE rec.list \cap OfFile(f) # {}
          BY <4>1, <5>1, <5>3
        <5> QED
          BY <5>2, <5>3
      <4> QED
        BY <3>1, <3>2, <4>1, <4>2, <4>3 DEF AloneOK
    <3> QED
      BY <3>1, <3>2, <3>3, <3>4
  <2> QED
    BY <1>0, <1>2, <2>1, CleanMoves DEF Inv
<1>7. \A u \in Threads : Fine(u)'
  BY <1>0, <1>1, <1>2, StillFine, BeginFine DEF Inv, Fine
<1> QED
  BY <1>3, <1>4, <1>5, <1>6, <1>7 DEF Inv, Fine

(***************************************************************************)
(* What the contents of the files say of the rows in force.                *)
(***************************************************************************)
LEMMA FileRows ==
  ASSUME SnapshotsAssumption, hist \in Histories, NEW f
  PROVE  /\ OfFile(f) \subseteq Rows /\ OfFile(f) \subseteq Nat
         /\ \A r \in OfFile(f) : /\ hist[r].before \in Contents \cup {Absent}
                                 /\ hist[r].after \in Contents /\ hist[r].after # Absent
                                 /\ hist[r].turn \in Nat
         /\ \A q, r \in OfFile(f) : q <= r => hist[q].turn <= hist[r].turn
BY HistTyped DEF OfFile

\* A row but the first of its file starts from where the one before it ended.
LEMMA RowBefore ==
  ASSUME SnapshotsAssumption, hist \in Histories, Chained, NEW f, NEW r \in OfFile(f),
         NEW k \in OfFile(f), k < r
  PROVE  \E p \in OfFile(f) :
           /\ p < r /\ \A q \in OfFile(f) : q < r => q <= p
           /\ hist[r].before = hist[p].after
<1>1. PICK S \in SUBSET Rows : S = {q \in OfFile(f) : q < r}
  BY FileRows
<1>2. k \in S
  BY <1>1
<1>3. PICK p \in S : \A q \in S : q <= p
  BY <1>2, FirstRow
<1>4. \A q \in OfFile(f) : ~(p < q /\ q < r)
  <2>1. p \in OfFile(f) /\ \A q \in OfFile(f) : q \in Nat
    BY <1>1, FileRows
  <2>2. \A q \in OfFile(f) : q < r => q <= p
    BY <1>1, <1>3
  <2> QED
    BY <2>1, <2>2
<1>5. p \in Rows /\ r \in Rows /\ hist[p].file = hist[r].file /\ hist[r].file = f /\ p < r
  BY <1>1, <1>3 DEF OfFile
<1>6. hist[r].before = hist[p].after
  BY <1>4, <1>5 DEF Chained
<1> QED
  BY <1>1, <1>3, <1>5, <1>6

LEMMA NewIsFirst ==
  ASSUME SnapshotsAssumption, hist \in Histories, Chained, NEW f, NEW r \in OfFile(f), IsNew(r)
  PROVE  \A q \in OfFile(f) : r <= q
<1>0. \A q \in OfFile(f) : q \in Nat
  BY FileRows
<1> SUFFICES ASSUME NEW k \in OfFile(f), k < r PROVE FALSE
  BY <1>0
<1>1. PICK p \in OfFile(f) : hist[r].before = hist[p].after
  BY RowBefore
<1> QED
  BY <1>1, FileRows DEF IsNew

LEMMA ChainedRows ==
  ASSUME Chained, NEW f, NEW q \in OfFile(f), NEW r \in OfFile(f)
  PROVE  /\ q <= r => hist[q].before # hist[r].after
         /\ q < r => hist[q].after # hist[r].after /\ (IsNew(q) => hist[r].after # Empty)
BY DEF Chained, OfFile

\* The rows of a file are in force up to a last one, or none is.
UpTo(f, m) == {q \in OfFile(f) : q <= m}

LEMMA RecordedIs ==
  ASSUME SnapshotsAssumption, hist \in Histories, NEW f, OfFile(f) # {}, FirstInForce(f)
  PROVE  \/ /\ InForce(f) = {}
            /\ \E k \in OfFile(f) : /\ \A q \in OfFile(f) : k <= q
                                    /\ Recorded(f) = hist[k].before
         \/ \E m \in OfFile(f) : InForce(f) = UpTo(f, m) /\ Recorded(f) = hist[m].after
<1>1. OfFile(f) \in SUBSET Rows /\ OfFile(f) \subseteq Nat
  BY FileRows
<1>2. CASE InForce(f) = {}
  <2>1. /\ Least(OfFile(f)) \in OfFile(f) /\ \A q \in OfFile(f) : Least(OfFile(f)) <= q
    BY <1>1, FirstRow
  <2>2. Recorded(f) = hist[Least(OfFile(f))].before
    BY <1>2 DEF Recorded, InForce
  <2> QED
    BY <1>2, <2>1, <2>2
<1>3. CASE InForce(f) # {}
  <2>1. PICK m \in OfFile(f) : InForce(f) = UpTo(f, m)
    BY <1>3 DEF FirstInForce, UpTo
  <2>2. m \in InForce(f) /\ InForce(f) \in SUBSET Rows
    BY <1>1, <2>1 DEF UpTo
  <2>3. Most(InForce(f)) \in InForce(f) /\ \A q \in InForce(f) : q <= Most(InForce(f))
    BY <2>2, FirstRow
  <2>4. Most(InForce(f)) = m
    <3>1. PICK x : x = Most(InForce(f))
      OBVIOUS
    <3>2. x \in InForce(f) /\ m <= x
      BY <2>2, <2>3, <3>1
    <3>3. x <= m /\ x \in Nat /\ m \in Nat
      BY <1>1, <2>1, <3>2 DEF UpTo
    <3> QED
      BY <3>1, <3>2, <3>3
  <2>5. Recorded(f) = hist[m].after
    BY <1>3, <2>4 DEF Recorded, InForce
  <2> QED
    BY <2>1, <2>5
<1> QED
  BY <1>2, <1>3

\* The rows of one file on a list are all of its rows between two of them.
Whole(R, L) == \A q, r \in L, p \in R : q <= p /\ p <= r => p \in L

LEMMA ListedWhole ==
  ASSUME SnapshotsAssumption, TypeOK, TurnsCut, NEW op \in AllOps \ {"purge"}, NEW s \in Rows,
         NEW f, FirstInForce(f)
  PROVE  Whole(OfFile(f), Listed(op, s) \cap OfFile(f))
<1>0. hist \in Histories /\ here \subseteq Rows
  BY DEF TypeOK
<1> SUFFICES ASSUME NEW q \in Listed(op, s) \cap OfFile(f), NEW r \in Listed(op, s) \cap OfFile(f),
                    NEW p \in OfFile(f), q <= p, p <= r
             PROVE  p \in Listed(op, s)
  BY DEF Whole
<1>1. /\ p \in Rows /\ q \in Rows /\ r \in Rows /\ p \in Nat /\ q \in Nat /\ r \in Nat
      /\ hist[q].turn <= hist[p].turn /\ hist[p].turn <= hist[r].turn
      /\ hist[p].turn \in Nat /\ hist[q].turn \in Nat /\ hist[r].turn \in Nat
      /\ hist[s].turn \in Nat /\ hist[p].file = f /\ hist[q].file = f
  BY <1>0, FileRows, HistTyped DEF OfFile
<1>2. q \in here /\ r \in here
  BY <1>0, ListedTyped
<1>3. p \in here
  <2>1. hist[r].turn \in turns /\ hist[p].turn \in TurnsOf(hist)
    BY <1>1, <1>2 DEF TurnsCut, TurnsOf, Rows
  <2> QED
    BY <1>1, <2>1 DEF TurnsCut
<1>4. CASE op \in {"to", "edit"}
  <2>1. r \in InForce(f) /\ hist[s].turn <= hist[q].turn
    BY <1>4 DEF Listed, InForce
  <2>2. p \in InForce(f)
    <3>1. PICK m \in OfFile(f) : InForce(f) = {x \in OfFile(f) : x <= m}
      BY <2>1 DEF FirstInForce
    <3>2. r <= m /\ m \in Nat
      BY <1>0, <2>1, <3>1, FileRows
    <3>3. p <= m
      BY <1>1, <3>2
    <3> QED
      BY <3>1, <3>3
  <2> QED
    BY <1>1, <1>3, <1>4, <2>1, <2>2 DEF Listed, InForce
<1>5. CASE op = "from"
  <2>1. q \in reverted /\ hist[s].turn <= hist[q].turn
    BY <1>5 DEF Listed
  <2>2. p \in reverted
    BY <1>1, <2>1 DEF FirstInForce, InForce
  <2> QED
    BY <1>1, <1>3, <1>5, <2>1, <2>2 DEF Listed
<1>6. CASE op \in {"revertTurn", "reapplyTurn"}
  BY <1>1, <1>3, <1>6 DEF Listed
<1>7. CASE op \in {"revertEvent", "reapplyEvent"}
  BY <1>1, <1>3, <1>7 DEF Listed
<1>8. CASE op \in {"revertFile", "reapplyFile"}
  BY <1>1, <1>3, <1>8 DEF Listed
<1> QED
  BY <1>4, <1>5, <1>6, <1>7, <1>8 DEF AllOps, Reverts, Reapplies

\* The disk agrees with the marks, and a row is found as a revert needs it:
\* then it is the last one in force, or none is and it is the first of all.
LEMMA RevertFinds ==
  ASSUME SnapshotsAssumption, hist \in Histories, Chained, NEW f, NEW r \in OfFile(f),
         FirstInForce(f), Agrees(f), NEW op \in Reverts, ~Conflict(op, r)
  PROVE  \/ InForce(f) = UpTo(f, r)
         \/ InForce(f) = {} /\ \A q \in OfFile(f) : r <= q
<1>0. \A q \in OfFile(f) : q \in Nat
  BY FileRows
<1>1. hist[r].file = f /\ hist[r].after # Absent /\ file[f] = Recorded(f) /\ op \notin Reapplies
  BY FileRows DEF OfFile, Agrees, Reverts, Reapplies
<1>2. \/ file[f] = Absent /\ IsNew(r)
      \/ file[f] # Absent /\ file[f] = hist[r].after
  BY <1>1 DEF Conflict
<1>3. CASE InForce(f) = {} /\ \E k \in OfFile(f) : /\ \A q \in OfFile(f) : k <= q
                                                  /\ Recorded(f) = hist[k].before
  <2>1. PICK k \in OfFile(f) : k <= r /\ Recorded(f) = hist[k].before
    BY <1>3
  <2>2. IsNew(r)
    BY <1>1, <1>2, <2>1, ChainedRows
  <2> QED
    BY <1>3, <2>2, NewIsFirst
<1>4. CASE \E m \in OfFile(f) : InForce(f) = UpTo(f, m) /\ Recorded(f) = hist[m].after
  <2>1. PICK m \in OfFile(f) : InForce(f) = UpTo(f, m) /\ Recorded(f) = hist[m].after
    BY <1>4
  <2>2. hist[m].after = hist[r].after
    BY <1>1, <1>2, <2>1, FileRows
  <2>3. ~(m < r) /\ ~(r < m)
    BY <2>2, ChainedRows
  <2> QED
    BY <1>0, <2>1, <2>3
<1> QED
  BY <1>3, <1>4, RecordedIs

\* ... and as a reapply needs it: the ones before it are in force, or it alone.
LEMMA ReapplyFinds ==
  ASSUME SnapshotsAssumption, hist \in Histories, Chained, NEW f, NEW r \in OfFile(f),
         FirstInForce(f), Agrees(f), NEW op \in Reapplies, ~Conflict(op, r)
  PROVE  \/ InForce(f) = {q \in OfFile(f) : q < r}
         \/ InForce(f) = {r} /\ \A q \in OfFile(f) : r <= q
<1>0. \A q \in OfFile(f) : q \in Nat
  BY FileRows
<1>1. hist[r].file = f /\ file[f] = Recorded(f) /\ op \notin Reverts
  BY DEF OfFile, Agrees, Reverts, Reapplies
<1>2. \/ file[f] = Absent /\ IsNew(r)
      \/ file[f] # Absent /\ ~IsNew(r) /\ file[f] = hist[r].before
      \/ file[f] # Absent /\ IsNew(r) /\ file[f] = Empty
  BY <1>1 DEF Conflict
<1>3. CASE InForce(f) = {} /\ \E k \in OfFile(f) : /\ \A q \in OfFile(f) : k <= q
                                                  /\ Recorded(f) = hist[k].before
  <2>1. PICK k \in OfFile(f) : (\A q \in OfFile(f) : k <= q) /\ Recorded(f) = hist[k].before
    BY <1>3
  <2>2. \A q \in OfFile(f) : r <= q
    <3>1. CASE IsNew(r)
      BY <3>1, NewIsFirst
    <3>2. CASE ~IsNew(r)
      <4>1. hist[k].before = hist[r].before
        BY <1>1, <1>2, <2>1, <3>2
      <4>2. ASSUME k < r PROVE FALSE
        <5>1. PICK p \in OfFile(f) : hist[r].before = hist[p].after
          BY <4>2, RowBefore
        <5>2. k <= p
          BY <2>1
        <5> QED
          BY <4>1, <5>1, <5>2, ChainedRows
      <4> QED
        BY <1>0, <2>1, <4>2
    <3> QED
      BY <3>1, <3>2
  <2> QED
    BY <1>0, <1>3, <2>2
<1>4. CASE \E m \in OfFile(f) : InForce(f) = UpTo(f, m) /\ Recorded(f) = hist[m].after
  <2>1. PICK m \in OfFile(f) : InForce(f) = UpTo(f, m) /\ Recorded(f) = hist[m].after
    BY <1>4
  <2>2. file[f] # Absent
    BY <1>1, <2>1, FileRows
  <2>3. CASE IsNew(r)
    <3>1. (\A q \in OfFile(f) : r <= q) /\ hist[m].after = Empty
      BY <1>1, <1>2, <2>1, <2>2, <2>3, NewIsFirst
    <3>2. ~(r < m)
      BY <2>3, <3>1, ChainedRows
    <3>3. m = r
      BY <1>0, <3>1, <3>2
    <3> QED
      BY <1>0, <2>1, <3>1, <3>3 DEF UpTo
  <2>4. CASE ~IsNew(r)
    <3>1. hist[m].after = hist[r].before
      BY <1>1, <1>2, <2>1, <2>2, <2>4
    <3>2. m < r
      BY <1>0, <3>1, ChainedRows
    <3>3. PICK p \in OfFile(f) : /\ p < r /\ \A q \in OfFile(f) : q < r => q <= p
                                 /\ hist[r].before = hist[p].after
      BY <3>2, RowBefore
    <3>4. ~(m < p) /\ m <= p
      BY <3>1, <3>2, <3>3, ChainedRows
    <3>5. m = p
      BY <1>0, <3>4
    <3> QED
      BY <1>0, <2>1, <3>3, <3>5 DEF UpTo
  <2> QED
    BY <2>3, <2>4
<1> QED
  BY <1>3, <1>4, RecordedIs

LEMMA FitsNow ==
  ASSUME SnapshotsAssumption, TypeOK, TurnsCut, Chained, NEW me, NEW s \in Rows, NEW f \in Files,
         me.op \in AllOps \ {"purge", "edit"}, me.list = Listed(me.op, s),
         FirstInForce(f), Agrees(f), NEW r, IsNext(me, f, r), ~Conflict(me.op, r)
  PROVE  Fits(me, f)
<1> SUFFICES ASSUME me.list \cap OfFile(f) # {} PROVE Fits(me, f)
  BY NothingFits
<1>0. hist \in Histories /\ \A q \in OfFile(f) : q \in Nat
  BY FileRows DEF TypeOK
<1>1. PICK L \in SUBSET OfFile(f) : L = me.list \cap OfFile(f) /\ L # {}
  OBVIOUS
<1>2. Whole(OfFile(f), L)
  BY <1>1, ListedWhole
<1>3. L \in SUBSET Rows
  BY <1>0, <1>1, FileRows
<1>4. PICK l \in L : l = Least(L) /\ \A q \in L : l <= q
  BY <1>0, <1>1, <1>3, FirstRow
<1>5. PICK m \in L : m = Most(L) /\ \A q \in L : q <= m
  BY <1>0, <1>1, <1>3, FirstRow
<1>6. r \in L /\ r = IF FromOldest(me.op) THEN l ELSE m
  BY <1>1, <1>4, <1>5 DEF IsNext, Next1
<1>7. \A q \in OfFile(f) : l <= q /\ q <= m => q \in L
  BY <1>2 DEF Whole
<1>8. CASE me.op \in Reverts
  <2>0. InForce(f) = UpTo(f, r) \/ (InForce(f) = {} /\ \A q \in OfFile(f) : r <= q)
    BY <1>0, <1>6, <1>8, RevertFinds
  <2>1. CASE me.op = "to"
    <3>1. r = l /\ L \subseteq InForce(f)
      BY <1>1, <1>6, <2>1 DEF FromOldest, Listed, InForce
    <3>2. InForce(f) = UpTo(f, r)
      BY <1>1, <2>0, <3>1
    <3>3. \A q \in L : q = l
      BY <1>0, <1>4, <3>1, <3>2 DEF UpTo
    <3>4. InForce(f) \ L = {q \in OfFile(f) : q < l}
      BY <1>0, <1>4, <3>1, <3>2, <3>3 DEF UpTo
    <3> QED
      BY <1>1, <1>4, <1>8, <3>3, <3>4 DEF Fits
  <2>2. CASE me.op # "to"
    <3>1. r = m
      BY <1>6, <1>8, <2>2 DEF FromOldest, Reverts, Reapplies
    <3>2. InForce(f) \ L = {q \in OfFile(f) : q < l}
      <4>1. CASE InForce(f) = UpTo(f, m)
        BY <1>0, <1>4, <1>5, <1>7, <4>1 DEF UpTo
      <4>2. CASE InForce(f) = {} /\ \A q \in OfFile(f) : m <= q
        BY <1>0, <1>4, <1>5, <4>2
      <4> QED
        BY <2>0, <3>1, <4>1, <4>2
    <3> QED
      BY <1>1, <1>4, <1>8, <2>2, <3>2 DEF Fits
  <2> QED
    BY <2>1, <2>2
<1>9. CASE me.op \in Reapplies
  <2>0. /\ me.op \notin Reverts /\ r = l
        /\ \/ InForce(f) = {q \in OfFile(f) : q < l}
           \/ InForce(f) = {l} /\ \A q \in OfFile(f) : l <= q
    <3>1. me.op \notin Reverts /\ FromOldest(me.op)
      BY <1>9 DEF FromOldest, Reverts, Reapplies
    <3>2. r = l /\ r \in OfFile(f)
      BY <1>6, <3>1
    <3> QED
      BY <1>0, <1>9, <3>1, <3>2, ReapplyFinds
  <2>1. InForce(f) \cup L = {q \in OfFile(f) : q <= m}
    <3>1. CASE InForce(f) = {q \in OfFile(f) : q < l}
      BY <1>0, <1>4, <1>5, <1>7, <3>1
    <3>2. CASE InForce(f) = {l} /\ \A q \in OfFile(f) : l <= q
      BY <1>0, <1>4, <1>5, <1>7, <3>2
    <3> QED
      BY <2>0, <3>1, <3>2
  <2> QED
    BY <1>1, <1>5, <2>0, <2>1 DEF Fits
<1> QED
  BY <1>8, <1>9 DEF AllOps

(***************************************************************************)
(* Comparing.                                                              *)
(***************************************************************************)
\* What becomes of a command that compares r: it goes on to the next row, or
\* to apply the list,
GoesOn(me, rec, r) ==
  /\ rec.op = me.op /\ rec.turn = me.turn /\ rec.force = me.force /\ rec.list = me.list
  /\ \/ me.todo = {r} /\ rec.pc = "apply" /\ rec.todo = me.list
     \/ me.todo # {r} /\ rec.pc = "check" /\ rec.todo = me.todo \ {r}
\* with no conflict,
Checked(me, rec, r) ==
  \/ rec = Idle
  \/ /\ ~Conflict(me.op, r) /\ GoesOn(me, rec, r)
     /\ rec.touched = me.touched \ {hist[r].file} /\ rec.unread = me.unread
\* or because the file could not be read.
Skipped(me, rec, r) ==
  /\ GoesOn(me, rec, r)
  /\ rec.touched = me.touched /\ rec.unread = me.unread \cup {hist[r].file}

LEMMA PassIs ==
  ASSUME NEW t, NEW me \in ThreadSet, Sane(me), me.pc = "check",
         NEW r \in me.todo, NEW seen \in ThreadSet, seen.pc = me.pc, seen.op = me.op,
         seen.turn = me.turn, seen.force = me.force, seen.list = me.list,
         seen.todo = me.todo \ {r}, Pass(t, seen)
  PROVE  \E rec \in ThreadSet : /\ Set(t, rec) /\ Sane(rec) /\ GoesOn(me, rec, r)
                                /\ rec.touched = seen.touched /\ rec.unread = seen.unread
<1>1. CASE seen.todo # {}
  <2>1. Set(t, seen) /\ me.todo # {r}
    BY <1>1 DEF Pass
  <2>2. Sane(seen) /\ GoesOn(me, seen, r)
    BY <1>1, <2>1 DEF Sane, GoesOn
  <2> QED
    BY <2>1, <2>2
<1>2. CASE seen.todo = {}
  <2>1. PICK rec : rec = [seen EXCEPT !.pc = "apply", !.todo = seen.list]
    OBVIOUS
  <2>2. rec \in ThreadSet
    <3>1. seen.list \in SUBSET Rows /\ "apply" \in Pcs
      BY DEF ThreadSet, Pcs
    <3> QED
      BY <2>1, <3>1 DEF ThreadSet
  <2>3. /\ rec.pc = "apply" /\ rec.op = me.op /\ rec.turn = me.turn /\ rec.force = me.force
        /\ rec.list = me.list /\ rec.todo = me.list
        /\ rec.touched = seen.touched /\ rec.unread = seen.unread
    BY <2>1 DEF ThreadSet
  <2>4. Sane(rec) /\ GoesOn(me, rec, r)
    BY <1>2, <2>3 DEF Sane, GoesOn
  <2>5. Set(t, rec)
    BY <1>2, <2>1 DEF Pass
  <2> QED
    BY <2>2, <2>3, <2>4, <2>5
<1> QED
  BY <1>1, <1>2

LEMMA CheckIs ==
  ASSUME SnapshotsAssumption, TypeOK, NEW t \in Threads, Check(t) \/ CheckUnread(t)
  PROVE  /\ thread[t].pc = "check" /\ thread[t] \in ThreadSet /\ Sane(thread[t])
         /\ \E r \in thread[t].todo : \E rec \in ThreadSet :
              /\ r \in Rows /\ hist[r].file \in Files
              /\ Set(t, rec) /\ Sane(rec)
              /\ Checked(thread[t], rec, r) \/ (Skipped(thread[t], rec, r) /\ ~clean')
<1>1. PICK me \in ThreadSet : me = thread[t] /\ Sane(me) /\ me.pc = "check"
  BY ThreadTyped DEF Check, CheckUnread
<1>2. PICK r : r = Next1(me.op, me.todo)
  OBVIOUS
<1>3. r \in me.todo /\ r \in Rows /\ hist[r].file \in Files
  <2>1. me.todo \in SUBSET Rows /\ me.todo # {} /\ hist \in Histories
    BY <1>1 DEF ThreadSet, Sane, TypeOK
  <2>2. r \in me.todo
    BY <1>2, <2>1, FirstRow
  <2> QED
    BY <2>1, <2>2, HistTyped
<1>4. CASE Check(t) /\ Conflict(me.op, r)
  <2>1. Set(t, Idle)
    BY <1>1, <1>2, <1>4 DEF Check, Stop
  <2> QED
    BY <1>1, <1>3, <2>1, IdleTyped DEF Checked
<1>5. CASE Check(t) /\ ~Conflict(me.op, r)
  <2>1. PICK seen : seen = [me EXCEPT !.todo = me.todo \ {r},
                                      !.touched = me.touched \ {hist[r].file}]
    OBVIOUS
  <2>2. seen \in ThreadSet
    BY <1>1, <2>1 DEF ThreadSet
  <2>3. /\ seen.pc = me.pc /\ seen.op = me.op /\ seen.turn = me.turn /\ seen.force = me.force
        /\ seen.list = me.list /\ seen.todo = me.todo \ {r}
        /\ seen.touched = me.touched \ {hist[r].file} /\ seen.unread = me.unread
    BY <1>1, <2>1 DEF ThreadSet
  <2>4. Pass(t, seen)
    BY <1>1, <1>2, <1>5, <2>1 DEF Check
  <2>5. PICK rec \in ThreadSet : /\ Set(t, rec) /\ Sane(rec) /\ GoesOn(me, rec, r)
                                 /\ rec.touched = seen.touched /\ rec.unread = seen.unread
    BY <1>1, <1>3, <2>2, <2>3, <2>4, PassIs
  <2>6. Checked(me, rec, r)
    BY <1>5, <2>3, <2>5 DEF Checked
  <2> QED
    BY <1>1, <1>3, <2>5, <2>6
<1>6. CASE CheckUnread(t)
  <2>1. PICK seen : seen = [me EXCEPT !.todo = me.todo \ {r},
                                      !.unread = me.unread \cup {hist[r].file}]
    OBVIOUS
  <2>2. seen \in ThreadSet
    BY <1>1, <1>3, <2>1 DEF ThreadSet
  <2>3. /\ seen.pc = me.pc /\ seen.op = me.op /\ seen.turn = me.turn /\ seen.force = me.force
        /\ seen.list = me.list /\ seen.todo = me.todo \ {r}
        /\ seen.touched = me.touched /\ seen.unread = me.unread \cup {hist[r].file}
    BY <1>1, <2>1 DEF ThreadSet
  <2>4. Pass(t, seen)
    BY <1>1, <1>2, <1>6, <2>1 DEF CheckUnread
  <2>7. ~clean'
    BY <1>6 DEF CheckUnread
  <2>5. PICK rec \in ThreadSet : /\ Set(t, rec) /\ Sane(rec) /\ GoesOn(me, rec, r)
                                 /\ rec.touched = seen.touched /\ rec.unread = seen.unread
    BY <1>1, <1>3, <2>2, <2>3, <2>4, PassIs
  <2>6. Skipped(me, rec, r)
    BY <2>3, <2>5 DEF Skipped
  <2> QED
    BY <1>1, <1>3, <2>5, <2>6, <2>7
<1> QED
  BY <1>4, <1>5, <1>6

\* With no conflict the file is as a row knows it.
LEMMA NowKnown ==
  ASSUME SnapshotsAssumption, hist \in Histories, NEW op \in Reverts \cup Reapplies, NEW r \in Rows,
         ~Conflict(op, r)
  PROVE  Known(hist[r].file)
<1>1. PICK f : f = hist[r].file
  OBVIOUS
<1>2. \/ file[f] = Absent \/ file[f] = hist[r].after \/ file[f] = hist[r].before
      \/ file[f] = Empty
  <2>1. CASE op \in Reverts
    <3>1. op \notin Reapplies
      BY <2>1 DEF Reverts, Reapplies
    <3> QED
      BY <1>1, <2>1, <3>1 DEF Conflict
  <2>2. CASE op \in Reapplies
    <3>1. op \notin Reverts
      BY <2>2 DEF Reverts, Reapplies
    <3> QED
      BY <1>1, <2>2, <3>1 DEF Conflict
  <2> QED
    BY <2>1, <2>2
<1>3. r \in OfFile(f)
  BY <1>1 DEF OfFile
<1> QED
  BY <1>1, <1>2, <1>3 DEF Known, Named

LEMMA CheckFine ==
  ASSUME SnapshotsAssumption, TypeOK, UNCHANGED <<hist, file>>, NEW t \in Threads, Fine(t),
         thread[t] \in ThreadSet, Sane(thread[t]), thread[t].pc = "check",
         NEW rec \in ThreadSet, thread'[t] = rec,
         NEW r \in thread[t].todo, r \in Rows,
         Checked(thread[t], rec, r) \/ Skipped(thread[t], rec, r)
  PROVE  Fine(t)'
<1>1. CASE rec = Idle
  BY <1>1, RestFine DEF Idle, Fine, OrderOK, WrittenOK, ComparedOK, Working
<1>2. CASE rec # Idle
  <2>0. hist \in Histories
    BY DEF TypeOK
  <2>1. GoesOn(thread[t], rec, r)
    BY <1>2 DEF Checked, Skipped
  <2>2. OrderOK(t)' /\ WrittenOK(t)'
    BY <2>1 DEF OrderOK, WrittenOK, Working, Done, GoesOn
  <2>3. ComparedOK(t)'
    <3>1. \A f : Known(f)' <=> Known(f)
      BY SameRows DEF Known, Named
    <3>2. SUFFICES ASSUME ~rec.force, NEW f \in Files \ (rec.touched \cup rec.unread),
                          rec.list \cap OfFile(f) # {}
                   PROVE  /\ rec.pc = "check" => Known(f) \/ \E q \in rec.todo : hist[q].file = f
                          /\ rec.pc = "apply" => Known(f)
      BY <3>1, SameRows DEF ComparedOK, ListOf
    <3>3. CASE hist[r].file = f
      <4>1. thread[t].op \in Reverts \cup Reapplies
        BY DEF Sane, ThreadSet, AllOps
      <4>2. Checked(thread[t], rec, r)
        BY <3>2, <3>3 DEF Skipped
      <4> QED
        BY <1>2, <2>0, <3>3, <4>1, <4>2, NowKnown DEF Checked
    <3>4. CASE hist[r].file # f
      <4>1. f \in Files \ (thread[t].touched \cup thread[t].unread) /\ ~thread[t].force /\ ListOf(t, f) # {}
        BY <1>2, <2>1, <3>2, <3>4 DEF Checked, Skipped, GoesOn, ListOf
      <4>2. Known(f) \/ \E q \in thread[t].todo : hist[q].file = f
        BY <4>1 DEF Fine, ComparedOK
      <4> QED
        BY <2>1, <3>4, <4>2 DEF GoesOn
    <3> QED
      BY <3>3, <3>4
  <2> QED
    BY <2>2, <2>3 DEF Fine
<1> QED
  BY <1>1, <1>2

LEMMA CheckInv ==
  ASSUME SnapshotsAssumption, Inv, NEW t \in Threads, Check(t) \/ CheckUnread(t)
  PROVE  Inv'
<1>0. UNCHANGED <<hist, here, reverted, off, turns, file, blobs, running, archived, swept,
                  cmds, writes>> /\ clean' \in {clean, FALSE}
  BY DEF Check, CheckUnread, SameWorld, table
<1>1. /\ thread[t].pc = "check" /\ thread[t] \in ThreadSet /\ Sane(thread[t])
      /\ \E r \in thread[t].todo : \E rec \in ThreadSet :
           /\ r \in Rows /\ hist[r].file \in Files
           /\ Set(t, rec) /\ Sane(rec)
           /\ Checked(thread[t], rec, r) \/ (Skipped(thread[t], rec, r) /\ ~clean')
  BY CheckIs DEF Inv
<1>2. PICK r \in thread[t].todo, rec \in ThreadSet :
           /\ r \in Rows /\ hist[r].file \in Files
           /\ Set(t, rec) /\ Sane(rec)
           /\ Checked(thread[t], rec, r) \/ (Skipped(thread[t], rec, r) /\ ~clean')
  BY <1>1
<1>3. /\ thread' \in [Threads -> ThreadSet] /\ \A u \in Threads : Sane(thread'[u])
      /\ thread'[t] = rec /\ \A u \in Threads \ {t} : thread'[u] = thread[u]
  BY <1>0, <1>2, ThreadMoves DEF Inv
<1>4. TypeOK'
  <2>1. clean' \in BOOLEAN
    BY <1>0 DEF Inv, TypeOK
  <2> QED
    BY <1>0, <1>3, <2>1, ThreadTyped, TypedAfter DEF Inv
<1>5. BlobsKept'
  BY <1>0 DEF Inv, BlobsKept, Named
<1>6. TurnsCut'
  BY <1>0, TableKept DEF Inv
<1>7. CleanOK'
  <2>1. ASSUME clean', Chained
        PROVE  /\ \A u \in Threads \ {t} : thread[u].pc = "idle"
               /\ AloneOK(rec) /\ \A f \in Files : Resting(t)' => Agrees(f)
    <3>0. PICK me \in ThreadSet : me = thread[t]
      BY <1>1
    <3>1. CleanOK /\ clean
      BY <1>0, <2>1 DEF Inv
    <3>2. AloneOK(me) /\ (\A f \in Files : FirstInForce(f))
          /\ \A u \in Threads \ {t} : thread[u].pc = "idle"
      BY <1>1, <2>1, <3>0, <3>1 DEF CleanOK
    <3>3. \A f \in Files : Agrees(f)
      BY <1>1, <3>0, <3>2 DEF AloneOK
    <3>4. CASE rec = Idle
      BY <3>2, <3>3, <3>4 DEF AloneOK, Idle
    <3>5. CASE rec # Idle
      <4>1. /\ ~Conflict(me.op, r) /\ rec.op = me.op /\ rec.turn = me.turn
            /\ rec.force = me.force /\ rec.list = me.list
            /\ rec.touched = me.touched \ {hist[r].file}
            /\ \/ me.todo = {r} /\ rec.pc = "apply" /\ rec.todo = me.list
               \/ me.todo # {r} /\ rec.pc = "check" /\ rec.todo = me.todo \ {r}
        BY <1>2, <2>1, <3>0, <3>5 DEF Checked, GoesOn
      <4>2. ~me.force /\ me.op # "edit" /\ me.touched = {}
        BY <1>1, <3>0, <3>2 DEF AloneOK
      <4>3. PICK s \in Rows : me.turn = hist[s].turn /\ me.list = Listed(me.op, s)
        BY <1>1, <3>0, <3>2 DEF AloneOK
      <4>4. ASSUME NEW f \in Files
            PROVE  Fits(rec, f) \/ (rec.pc = "check" /\ \E q \in rec.todo : IsNext(rec, f, q))
        <5>1. Fits(rec, f) <=> Fits(me, f)
          BY <4>1 DEF Fits
        <5>2. \A q : IsNext(rec, f, q) <=> IsNext(me, f, q)
          BY <4>1 DEF IsNext
        <5>3. CASE Fits(me, f)
          BY <5>1, <5>3
        <5>4. CASE \E q \in me.todo : IsNext(me, f, q)
          <6>1. CASE IsNext(me, f, r)
            <7>1. me.op \in AllOps \ {"purge", "edit"}
              BY <1>1, <3>0, <4>2 DEF ThreadSet, Sane
            <7>2. Fits(me, f)
              BY <2>1, <3>2, <3>3, <4>1, <4>3, <6>1, <7>1, FitsNow DEF Inv
            <7> QED
              BY <5>1, <7>2
          <6>2. CASE ~IsNext(me, f, r)
            BY <4>1, <5>2, <5>4, <6>2
          <6> QED
            BY <6>1, <6>2
        <5> QED
          BY <1>1, <3>0, <3>2, <5>3, <5>4 DEF AloneOK
      <4>5. AloneOK(rec)
        BY <3>3, <4>1, <4>2, <4>3, <4>4 DEF AloneOK
      <4> QED
        BY <3>2, <3>3, <4>5
    <3> QED
      BY <3>4, <3>5
  <2>2. clean' => clean
    BY <1>0
  <2>3. CleanOK /\ UNCHANGED <<hist, here, reverted, file>>
    BY <1>0 DEF Inv
  <2> QED
    BY <1>3, <2>1, <2>2, <2>3, CleanMoves
<1>8. \A u \in Threads : Fine(u)'
  BY <1>0, <1>1, <1>2, <1>3, StillFine, CheckFine DEF Inv, Fine
<1> QED
  BY <1>4, <1>5, <1>6, <1>7, <1>8 DEF Inv, Fine

(***************************************************************************)
(* Writing.                                                                *)
(***************************************************************************)
LastIn(op, D, r) ==
  r \in D /\ \A d \in D \ {r} : IF FromOldest(op) THEN d < r ELSE r < d

LEMMA LastIs ==
  ASSUME SnapshotsAssumption, hist \in Histories, NEW D \in SUBSET Rows, NEW op, NEW r,
         LastIn(op, D, r)
  PROVE  LastOf(op, D) = r
<1> USE DEF LastIn
<1>1. PICK x : x = LastOf(op, D)
  OBVIOUS
<1>2. \A q \in D : q \in Nat
  BY HistTyped
<1>3. x \in D /\ IF FromOldest(op) THEN \A q \in D : q <= x ELSE \A q \in D : x <= q
  BY <1>1, FirstRow DEF LastOf
<1> QED
  BY <1>1, <1>2, <1>3

\* The command writes its next row.
Wrote(me, rec, r) ==
  /\ rec.op = me.op /\ rec.turn = me.turn /\ rec.force = me.force /\ rec.list = me.list
  /\ rec.touched = me.touched /\ rec.unread = me.unread /\ rec.todo = me.todo \ {r}
  /\ rec.pc = IF me.todo = {r} THEN "mark" ELSE "apply"
\* ... or finds no content to write.
Failed(me, rec) ==
  \/ rec = Idle
  \/ /\ rec.op = me.op /\ rec.turn = me.turn /\ rec.force = me.force /\ rec.list = me.list
     /\ rec.touched = me.touched /\ rec.todo = me.todo /\ rec.pc = "mark"

LEMMA ApplyIs ==
  ASSUME SnapshotsAssumption, TypeOK, NEW t \in Threads, Apply(t)
  PROVE  /\ thread[t].pc = "apply" /\ thread[t] \in ThreadSet /\ Sane(thread[t])
         /\ \E r \in thread[t].todo : \E rec \in ThreadSet : \E f \in Files :
              /\ r \in Rows /\ r = Next1(thread[t].op, thread[t].todo)
              /\ f = hist[r].file /\ Sane(rec)
              /\ \/ /\ Wrote(thread[t], rec, r)
                    /\ file' = [file EXCEPT ![f] = Result(thread[t].op, r)]
                    /\ Touch(t, f, rec) /\ clean' = clean
                 \/ /\ Failed(thread[t], rec) /\ Set(t, rec)
                    /\ clean' = FALSE /\ file' = file
<1>1. PICK me \in ThreadSet : me = thread[t] /\ Sane(me) /\ me.pc = "apply"
  BY ThreadTyped DEF Apply
<1>2. PICK r : r = Next1(me.op, me.todo)
  OBVIOUS
<1>3. PICK f : f = hist[r].file
  OBVIOUS
<1>4. r \in me.todo /\ r \in Rows /\ f \in Files
  <2>1. me.todo \in SUBSET Rows /\ me.todo # {} /\ hist \in Histories
    BY <1>1 DEF ThreadSet, Sane, TypeOK
  <2>2. r \in me.todo
    BY <1>2, <2>1, FirstRow
  <2> QED
    BY <1>3, <2>1, <2>2, HistTyped
<1>5. \/ /\ file' = [file EXCEPT ![f] = Result(me.op, r)]
         /\ Touch(t, f, [me EXCEPT !.todo = me.todo \ {r},
                                   !.pc = IF me.todo = {r} THEN "mark" ELSE "apply"])
         /\ clean' = clean
      \/ /\ IF me.op = "edit" THEN Set(t, [me EXCEPT !.pc = "mark"]) ELSE Stop(t)
         /\ clean' = FALSE /\ file' = file
  BY <1>1, <1>2, <1>3 DEF Apply
<1>6. PICK pc \in Pcs : pc = IF me.todo = {r} THEN "mark" ELSE "apply"
  BY DEF Pcs
<1>7. PICK rec : rec = [me EXCEPT !.todo = me.todo \ {r}, !.pc = pc]
  OBVIOUS
<1>8. rec \in ThreadSet /\ Sane(rec) /\ Wrote(me, rec, r)
  <2>1. rec \in ThreadSet
    BY <1>1, <1>6, <1>7 DEF ThreadSet
  <2>2. Wrote(me, rec, r)
    BY <1>1, <1>6, <1>7 DEF ThreadSet, Wrote
  <2>3. Sane(rec)
    BY <1>1, <1>4, <1>6, <2>2 DEF Wrote, Sane
  <2> QED
    BY <2>1, <2>2, <2>3
<1>9. PICK stop : stop = [me EXCEPT !.pc = "mark"]
  OBVIOUS
<1>10. stop \in ThreadSet /\ Sane(stop) /\ Failed(me, stop)
  <2>1. stop \in ThreadSet
    <3>1. "mark" \in Pcs
      BY DEF Pcs
    <3> QED
      BY <1>1, <1>9, <3>1 DEF ThreadSet
  <2>2. /\ stop.op = me.op /\ stop.turn = me.turn /\ stop.force = me.force /\ stop.list = me.list
        /\ stop.touched = me.touched /\ stop.todo = me.todo /\ stop.pc = "mark"
    BY <1>1, <1>9 DEF ThreadSet
  <2> QED
    BY <1>1, <2>1, <2>2 DEF Failed, Sane
<1>11. CASE /\ file' = [file EXCEPT ![f] = Result(me.op, r)]
            /\ Touch(t, f, rec) /\ clean' = clean
  BY <1>1, <1>2, <1>3, <1>4, <1>8, <1>11
<1>12. CASE /\ IF me.op = "edit" THEN Set(t, stop) ELSE Stop(t)
            /\ clean' = FALSE /\ file' = file
  <2>1. CASE me.op = "edit"
    BY <1>1, <1>2, <1>3, <1>4, <1>10, <1>12, <2>1
  <2>2. CASE me.op # "edit"
    BY <1>1, <1>2, <1>3, <1>4, <1>12, <2>2, IdleTyped DEF Stop, Failed
  <2> QED
    BY <2>1, <2>2
<1> QED
  BY <1>5, <1>6, <1>7, <1>9, <1>11, <1>12

LEMMA Touched ==
  ASSUME TypeOK, UNCHANGED hist, NEW t \in Threads, NEW f \in Files, NEW rec \in ThreadSet,
         Sane(rec), Touch(t, f, rec), NEW c, file' = [file EXCEPT ![f] = c]
  PROVE  /\ thread' \in [Threads -> ThreadSet] /\ \A u \in Threads : Sane(thread'[u])
         /\ thread'[t] = rec
         /\ \A u \in Threads \ {t} : Beside(u) /\ thread'[u].pc = thread[u].pc
<1>1. thread \in [Threads -> ThreadSet] /\ (\A u \in Threads : Sane(thread[u]))
      /\ file \in [Files -> Contents \cup {Absent}]
  BY ThreadTyped
<1>2. thread'[t] = rec
  BY DEF Touch
<1>3. ASSUME NEW u \in Threads \ {t}
      PROVE  thread'[u] \in ThreadSet /\ Sane(thread'[u]) /\ Beside(u)
  <2>1. PICK me \in ThreadSet : me = thread[u] /\ Sane(me)
    BY <1>1
  <2>2. thread'[u] = [me EXCEPT !.touched = me.touched \cup {f}]
    BY <2>1 DEF Touch
  <2>3. thread'[u] \in ThreadSet
    BY <2>1, <2>2 DEF ThreadSet
  <2>4. /\ thread'[u].pc = me.pc /\ thread'[u].op = me.op /\ thread'[u].force = me.force
        /\ thread'[u].list = me.list /\ thread'[u].todo = me.todo
        /\ thread'[u].touched = me.touched \cup {f} /\ thread'[u].unread = me.unread
    BY <2>1, <2>2 DEF ThreadSet
  <2> QED
    BY <1>1, <2>1, <2>3, <2>4 DEF Sane, Beside
<1>4. thread' \in [Threads -> ThreadSet]
  BY <1>2, <1>3 DEF Touch
<1> QED
  BY <1>2, <1>3, <1>4 DEF Beside

LEMMA WroteFine ==
  ASSUME SnapshotsAssumption, TypeOK, hist' = hist, NEW t \in Threads, Fine(t),
         thread[t] \in ThreadSet, Sane(thread[t]), thread[t].pc = "apply",
         NEW r \in thread[t].todo, r \in Rows, r = Next1(thread[t].op, thread[t].todo),
         NEW f \in Files, f = hist[r].file,
         file' = [file EXCEPT ![f] = Result(thread[t].op, r)],
         NEW rec \in ThreadSet, thread'[t] = rec, Wrote(thread[t], rec, r)
  PROVE  Fine(t)'
<1>0. PICK me \in ThreadSet : me = thread[t]
  OBVIOUS
<1>1. /\ rec.op = me.op /\ rec.force = me.force /\ rec.list = me.list
      /\ rec.touched = me.touched /\ rec.unread = me.unread /\ rec.todo = me.todo \ {r}
      /\ rec.pc = IF me.todo = {r} THEN "mark" ELSE "apply"
      /\ r \in me.todo /\ me.todo \subseteq me.list /\ me.list \subseteq Rows
      /\ hist \in Histories /\ file \in [Files -> Contents \cup {Absent}]
  BY <1>0 DEF Wrote, Sane, ThreadSet, TypeOK
<1>2. \A q \in Rows : q \in Nat
  BY <1>1, HistTyped
<1>3. \A d \in me.list \ me.todo : \A q \in me.todo :
        IF FromOldest(me.op) THEN d < q ELSE q < d
  BY <1>0 DEF Fine, OrderOK, Working
<1>4. \A q \in me.todo \ {r} : IF FromOldest(me.op) THEN r < q ELSE q < r
  <2>1. me.todo \in SUBSET Rows /\ me.todo # {}
    BY <1>1
  <2>2. \A q \in me.todo : IF FromOldest(me.op) THEN r <= q ELSE q <= r
    BY <1>0, <1>1, <2>1, FirstRow DEF Next1
  <2> QED
    BY <1>1, <1>2, <2>2
<1>5. OrderOK(t)'
  <2>1. \A d \in rec.list \ rec.todo : \A q \in rec.todo :
          IF FromOldest(rec.op) THEN d < q ELSE q < d
    BY <1>1, <1>3, <1>4
  <2> QED
    BY <2>1 DEF OrderOK, FromOldest
<1>6. ASSUME NEW g \in Files \ rec.touched, (rec.list \ rec.todo) \cap OfFile(g) # {}
      PROVE  file'[g] = Result(me.op, LastOf(me.op, (rec.list \ rec.todo) \cap OfFile(g)))
  <2>1. CASE g = f
    <3>1. PICK D \in SUBSET Rows : D = (rec.list \ rec.todo) \cap OfFile(g)
      BY <1>1
    <3>2. r \in D /\ \A d \in D \ {r} : d \in me.list \ me.todo
      BY <1>1, <2>1, <3>1 DEF OfFile
    <3>3. LastIn(me.op, D, r)
      BY <1>1, <1>3, <3>2 DEF LastIn
    <3>4. LastOf(me.op, D) = r
      BY <1>1, <3>3, LastIs
    <3> QED
      BY <1>0, <1>1, <2>1, <3>1, <3>4
  <2>2. CASE g # f
    <3>1. (rec.list \ rec.todo) \cap OfFile(g) = Done(t, g)
      BY <1>0, <1>1, <2>2 DEF Done, OfFile
    <3>2. file[g] = Result(me.op, LastOf(me.op, Done(t, g)))
      BY <1>0, <1>1, <1>6, <3>1 DEF Fine, WrittenOK, Working
    <3> QED
      BY <1>1, <2>2, <3>1, <3>2
  <2> QED
    BY <2>1, <2>2
<1>7. WrittenOK(t)'
  <2>1. \A g : Done(t, g)' = (rec.list \ rec.todo) \cap OfFile(g)
    BY SameRows DEF Done
  <2>2. \A op, q : Result(op, q)' = Result(op, q)
    BY SameRows
  <2>3. \A g : Result(thread[t].op, LastOf(thread[t].op, Done(t, g)))' =
                 Result(me.op, LastOf(me.op, (rec.list \ rec.todo) \cap OfFile(g)))
    BY <1>1, <2>1 DEF Result, LastOf, FromOldest
  <2> QED
    BY <1>6, <2>1, <2>3 DEF WrittenOK
<1>8. ComparedOK(t)'
  <2>1. \A g : Known(g)' <=> file'[g] \in Named(OfFile(g)) \cup {Empty, Absent}
    BY SameRows DEF Known, Named
  <2>2. SUFFICES ASSUME ~rec.force, NEW g \in Files \ (rec.touched \cup rec.unread),
                        rec.list \cap OfFile(g) # {}
                 PROVE  file'[g] \in Named(OfFile(g)) \cup {Empty, Absent}
    BY <1>1, <2>1, SameRows DEF ComparedOK, ListOf
  <2>3. CASE g = f
    <3>1. r \in OfFile(g) /\ file'[g] = Result(me.op, r)
      BY <1>0, <1>1, <2>3 DEF OfFile
    <3> QED
      BY <3>1 DEF Result, Named
  <2>4. CASE g # f
    <3>1. Known(g)
      BY <1>0, <1>1, <2>2 DEF Fine, ComparedOK, ListOf
    <3> QED
      BY <1>1, <2>4, <3>1 DEF Known
  <2> QED
    BY <2>3, <2>4
<1> QED
  BY <1>5, <1>7, <1>8 DEF Fine

LEMMA FailedFine ==
  ASSUME UNCHANGED <<hist, file>>, NEW t \in Threads, Fine(t), thread[t].pc = "apply",
         NEW rec, thread'[t] = rec, Failed(thread[t], rec)
  PROVE  Fine(t)'
<1>1. CASE rec = Idle
  BY <1>1, RestFine DEF Idle, Fine, OrderOK, WrittenOK, ComparedOK, Working
<1>2. CASE rec # Idle
  <2>1. /\ rec.op = thread[t].op /\ rec.list = thread[t].list /\ rec.todo = thread[t].todo
        /\ rec.touched = thread[t].touched /\ rec.pc = "mark"
    BY <1>2 DEF Failed
  <2>2. OrderOK(t)'
    BY <2>1 DEF Fine, OrderOK, Working, FromOldest
  <2>3. WrittenOK(t)'
    <3>1. \A f : Done(t, f)' = Done(t, f)
      BY <2>1, SameRows DEF Done
    <3>2. \A f : Result(thread[t].op, LastOf(thread[t].op, Done(t, f)))' =
                   Result(thread[t].op, LastOf(thread[t].op, Done(t, f)))
      BY <2>1, <3>1 DEF Result, LastOf, FromOldest
    <3> QED
      BY <2>1, <3>1, <3>2 DEF Fine, WrittenOK, Working
  <2>4. ComparedOK(t)'
    BY <2>1 DEF ComparedOK
  <2> QED
    BY <2>2, <2>3, <2>4 DEF Fine
<1> QED
  BY <1>1, <1>2

\* The command goes on alone, with a row less.
LEMMA WroteAlone ==
  ASSUME SnapshotsAssumption, TypeOK, UNCHANGED <<hist, here, reverted>>,
         NEW me \in ThreadSet, Sane(me), me.pc = "apply", AloneOK(me),
         NEW r \in me.todo, r \in Rows, NEW f \in Files, f = hist[r].file,
         file' = [file EXCEPT ![f] = Result(me.op, r)],
         NEW rec \in ThreadSet, Wrote(me, rec, r)
  PROVE  AloneOK(rec)'
<1>1. /\ rec.op = me.op /\ rec.turn = me.turn /\ rec.force = me.force /\ rec.list = me.list
      /\ rec.touched = me.touched /\ rec.todo = me.todo \ {r}
      /\ rec.pc = IF me.todo = {r} THEN "mark" ELSE "apply"
      /\ r \in me.list /\ file \in [Files -> Contents \cup {Absent}]
  BY DEF Wrote, Sane, TypeOK
<1>2. /\ ~me.force /\ me.op # "edit" /\ me.touched = {}
      /\ \E s \in Rows : me.turn = hist[s].turn /\ me.list = Listed(me.op, s)
      /\ \A g \in Files : (me.list \cap OfFile(g) = {} => Agrees(g)) /\ Fits(me, g)
  BY DEF AloneOK
<1>3. /\ Rows' = Rows /\ \A op, s : Listed(op, s)' = Listed(op, s)
      /\ \A g : OfFile(g)' = OfFile(g) /\ InForce(g)' = InForce(g) /\ Recorded(g)' = Recorded(g)
  BY DEF Rows, RowOf, Listed, OfFile, InForce, Recorded
<1>4. \A g \in Files : Fits(rec, g)'
  <2>1. \A g \in Files : Fits(rec, g) <=> Fits(me, g)
    BY <1>1 DEF Fits
  <2>2. \A g \in Files : Fits(rec, g)' <=> Fits(rec, g)
    BY <1>3 DEF Fits
  <2> QED
    BY <1>2, <2>1, <2>2
<1>5. ASSUME NEW g \in Files, rec.list \cap OfFile(g) = {} PROVE Agrees(g)'
  <2>1. g # f
    BY <1>1, <1>5 DEF OfFile
  <2> QED
    BY <1>1, <1>2, <1>3, <1>5, <2>1 DEF Agrees
<1>6. rec.pc = "mark" => rec.todo = {}
  BY <1>1
<1>7. rec.pc # "check"
  BY <1>1
<1> QED
  BY <1>1, <1>2, <1>3, <1>4, <1>5, <1>6, <1>7 DEF AloneOK

LEMMA ApplyInv ==
  ASSUME SnapshotsAssumption, Inv, NEW t \in Threads, Apply(t)
  PROVE  Inv'
<1>0. UNCHANGED <<hist, here, reverted, off, turns, blobs, running, archived, swept, cmds, writes>>
  BY DEF Apply, table
<1>1. PICK me \in ThreadSet : me = thread[t] /\ Sane(me) /\ me.pc = "apply"
  BY ApplyIs DEF Inv
<1>2. PICK r \in me.todo, rec \in ThreadSet, f \in Files :
              /\ r \in Rows /\ r = Next1(me.op, me.todo)
              /\ f = hist[r].file /\ Sane(rec)
              /\ \/ /\ Wrote(me, rec, r)
                    /\ file' = [file EXCEPT ![f] = Result(me.op, r)]
                    /\ Touch(t, f, rec) /\ clean' = clean
                 \/ /\ Failed(me, rec) /\ Set(t, rec)
                    /\ clean' = FALSE /\ file' = file
  BY <1>1, ApplyIs DEF Inv
<1>3. BlobsKept' /\ TurnsCut'
  BY <1>0, TableKept DEF Inv, BlobsKept, Named
<1>4. CASE /\ Failed(me, rec) /\ Set(t, rec) /\ clean' = FALSE /\ file' = file
  <2>1. /\ thread' \in [Threads -> ThreadSet] /\ \A u \in Threads : Sane(thread'[u])
        /\ thread'[t] = rec /\ \A u \in Threads \ {t} : thread'[u] = thread[u]
    BY <1>0, <1>2, <1>4, ThreadMoves DEF Inv
  <2>2. TypeOK'
    BY <1>0, <1>4, <2>1, ThreadTyped, TypedAfter DEF Inv
  <2>3. CleanOK'
    BY <1>4, Disturbed
  <2>4. \A u \in Threads : Fine(u)'
    BY <1>0, <1>1, <1>4, <2>1, StillFine, FailedFine DEF Inv, Fine
  <2> QED
    BY <1>3, <2>2, <2>3, <2>4 DEF Inv, Fine
<1>5. CASE /\ Wrote(me, rec, r) /\ file' = [file EXCEPT ![f] = Result(me.op, r)]
           /\ Touch(t, f, rec) /\ clean' = clean
  <2>1. /\ thread' \in [Threads -> ThreadSet] /\ \A u \in Threads : Sane(thread'[u])
        /\ thread'[t] = rec
        /\ \A u \in Threads \ {t} : Beside(u) /\ thread'[u].pc = thread[u].pc
    BY <1>0, <1>2, <1>5, Touched DEF Inv
  <2>2. TypeOK'
    <3>1. Result(me.op, r) \in Contents \cup {Absent}
      BY <1>2, HistTyped DEF Inv, TypeOK, Result
    <3>2. file' \in [Files -> Contents \cup {Absent}]
      BY <1>5, <3>1 DEF Inv, TypeOK
    <3> QED
      BY <1>0, <1>5, <2>1, <3>2, ThreadTyped, TypedAfter DEF Inv
  <2>3. \A u \in Threads : Fine(u)'
    <3>1. Fine(t)'
      BY <1>0, <1>1, <1>2, <1>5, <2>1, WroteFine DEF Inv, Fine
    <3> QED
      BY <1>0, <2>1, <3>1, BesideFine DEF Inv, Fine
  <2>4. CleanOK'
    <3>1. SUFFICES ASSUME clean, Chained PROVE CleanOK'
      BY <1>0, <1>5, SameRows DEF CleanOK
    <3>2. /\ AloneOK(me) /\ (\A g \in Files : FirstInForce(g))
          /\ \A u \in Threads \ {t} : thread[u].pc = "idle"
      BY <1>1, <3>1 DEF Inv, CleanOK
    <3>3. \A g \in Files : FirstInForce(g)'
      BY <1>0, <3>2 DEF FirstInForce, InForce, OfFile, Rows, RowOf
    <3>4. AloneOK(thread[t])'
      <4>1. AloneOK(rec)'
        BY <1>0, <1>1, <1>2, <1>5, <3>2, WroteAlone DEF Inv
      <4> QED
        BY <2>1, <4>1, AloneNow
    <3>5. \A u \in Threads \ {t} : thread'[u].pc = "idle"
      BY <2>1, <3>2
    <3>6. \A u \in Threads : AloneOK(thread[u])'
      BY <3>4, <3>5 DEF AloneOK
    <3>7. ~Resting(t)'
      BY <1>5, <2>1 DEF Wrote, Resting
    <3> QED
      BY <3>3, <3>5, <3>6, <3>7 DEF CleanOK
  <2> QED
    BY <1>3, <2>2, <2>3, <2>4 DEF Inv, Fine
<1> QED
  BY <1>2, <1>4, <1>5

(***************************************************************************)
(* Marking.                                                                *)
(***************************************************************************)
\* The marks in place of those before: of the rows on the list.
MarksAre(me) ==
  reverted' = IF me.op \in Reverts THEN reverted \cup me.list ELSE reverted \ me.list

LEMMA MarkIs ==
  ASSUME SnapshotsAssumption, Inv, NEW t \in Threads, Mark(t)
  PROVE  /\ Stop(t) /\ thread[t].pc = "mark" /\ thread[t] \in ThreadSet /\ Sane(thread[t])
         /\ UNCHANGED <<hist, file, blobs, archived, swept, cmds, writes>>
         /\ TurnsCut' /\ here' \subseteq here /\ turns' \subseteq turns /\ off' \subseteq turns'
         /\ reverted' \subseteq Rows /\ running' \in BOOLEAN /\ clean' \in BOOLEAN
<1>0. thread[t] \in ThreadSet /\ Sane(thread[t])
  BY ThreadTyped DEF Inv
<1>1. /\ Stop(t) /\ thread[t].pc = "mark"
      /\ UNCHANGED <<hist, file, blobs, archived, swept, cmds, writes>>
  BY DEF Mark
<1>2. PICK me \in ThreadSet : me = thread[t]
  BY <1>0
<1>3. /\ here \subseteq Rows /\ reverted \subseteq Rows /\ off \subseteq turns
      /\ running \in BOOLEAN /\ clean \in BOOLEAN
  BY DEF Inv, TypeOK
<1>4. CASE archived /\ clean' = FALSE /\ UNCHANGED <<table, running>>
  BY <1>0, <1>1, <1>3, <1>4, TableKept DEF table, Inv
<1>5. CASE /\ CutFrom(me.turn) /\ running' = TRUE
           /\ clean' = clean /\ UNCHANGED reverted
  <2>1. me.turn \in Nat
    BY DEF ThreadSet
  <2>2. /\ TurnsCut' /\ here' \subseteq here
        /\ turns' \subseteq turns /\ off' \subseteq turns'
    BY <1>1, <1>5, <2>1, CutKeeps DEF Inv
  <2> QED
    BY <1>0, <1>1, <1>3, <1>5, <2>2
<1>6. CASE /\ \E R : MarkRows(me.op, R)
           /\ off' = off \/ \E T : MarkMessages(me.op, T)
           /\ clean' = clean /\ UNCHANGED <<here, turns, running>>
  <2>1. TurnsCut'
    BY <1>1, <1>6, TableKept DEF Inv
  <2>2. reverted' \subseteq Rows
    <3>1. PICK R : MarkRows(me.op, R)
      BY <1>6
    <3> QED
      BY <1>3, <3>1 DEF MarkRows
  <2>3. off' \subseteq turns'
    <3>1. CASE off' = off
      BY <1>3, <1>6, <3>1
    <3>2. CASE \E T : MarkMessages(me.op, T)
      <4>1. PICK T : MarkMessages(me.op, T)
        BY <3>2
      <4> QED
        BY <1>3, <1>6, <4>1 DEF MarkMessages
    <3> QED
      BY <1>6, <3>1, <3>2
  <2> QED
    BY <1>0, <1>1, <1>3, <1>6, <2>1, <2>2, <2>3
<1> QED
  <2>1. \/ archived /\ clean' = FALSE /\ UNCHANGED <<table, running>>
        \/ CutFrom(me.turn) /\ running' = TRUE /\ clean' = clean /\ UNCHANGED reverted
        \/ /\ \E R : MarkRows(me.op, R)
           /\ off' = off \/ \E T : MarkMessages(me.op, T)
           /\ clean' = clean /\ UNCHANGED <<here, turns, running>>
    BY <1>2 DEF Mark
  <2> QED
    BY <1>4, <1>5, <1>6, <2>1

LEMMA MarksSet ==
  ASSUME TypeOK, NEW t \in Threads, Mark(t), NEW me, me = thread[t], me.op # "edit", clean',
         NEW s \in Rows, me.turn = hist[s].turn, me.list = Listed(me.op, s)
  PROVE  MarksAre(me)
<1>0. here \subseteq Rows
  BY DEF TypeOK
<1>1. PICK from : from = {r \in here : hist[r].turn >= me.turn}
  OBVIOUS
<1>2. \/ me.op \in {"to", "from"} /\ MarkRows(me.op, from)
      \/ /\ me.op \in {"revertTurn", "reapplyTurn"}
         /\ MarkRows(me.op, {r \in here : hist[r].turn = me.turn})
      \/ /\ me.op \in {"revertEvent", "reapplyEvent", "revertFile", "reapplyFile"}
         /\ MarkRows(me.op, me.list)
  BY <1>1 DEF Mark
<1>3. CASE me.op = "to" /\ MarkRows(me.op, from)
  <2>1. me.op \in Reverts /\ me.list = {q \in here \ reverted : hist[q].turn >= me.turn}
    BY <1>3 DEF Reverts, Listed
  <2> QED
    BY <1>0, <1>1, <1>3, <2>1 DEF MarkRows, MarksAre
<1>4. CASE me.op = "from" /\ MarkRows(me.op, from)
  <2>1. me.op \notin Reverts /\ me.list = {q \in here \cap reverted : hist[q].turn >= me.turn}
    BY <1>4 DEF Reverts, Listed
  <2> QED
    BY <1>0, <1>1, <1>4, <2>1 DEF MarkRows, MarksAre
<1>5. CASE /\ me.op \in {"revertTurn", "reapplyTurn"}
           /\ MarkRows(me.op, {r \in here : hist[r].turn = me.turn})
  <2>1. me.list = {r \in here : hist[r].turn = me.turn}
    BY <1>5 DEF Listed
  <2> QED
    BY <1>0, <1>5, <2>1 DEF MarkRows, MarksAre
<1>6. CASE /\ me.op \in {"revertEvent", "reapplyEvent", "revertFile", "reapplyFile"}
           /\ MarkRows(me.op, me.list)
  <2>1. me.op \in AllOps \ {"purge"}
    BY <1>6 DEF AllOps, Reverts, Reapplies
  <2>2. me.list \subseteq here
    BY <2>1, ListedTyped
  <2> QED
    BY <1>0, <1>6, <2>2 DEF MarkRows, MarksAre
<1> QED
  BY <1>2, <1>3, <1>4, <1>5, <1>6

\* With the marks set, what the rows say of a file is what the command left.
LEMMA MarkedFile ==
  ASSUME SnapshotsAssumption, hist \in Histories, Chained, UNCHANGED <<hist, file>>,
         NEW me \in ThreadSet, me.op \in AllOps \ {"purge", "edit"}, MarksAre(me),
         NEW f \in Files, FirstInForce(f), Fits(me, f), me.list \cap OfFile(f) = {} => Agrees(f),
         me.list \cap OfFile(f) # {} =>
           file[f] = Result(me.op, LastOf(me.op, me.list \cap OfFile(f)))
  PROVE  FirstInForce(f)' /\ Agrees(f)'
<1>0. /\ OfFile(f)' = OfFile(f) /\ OfFile(f) \in SUBSET Rows /\ \A q \in OfFile(f) : q \in Nat
      /\ InForce(f)' = OfFile(f) \ reverted'
  BY FileRows, SameRows DEF InForce
<1>1. PICK L \in SUBSET OfFile(f) : L = me.list \cap OfFile(f)
  OBVIOUS
<1>7. L \in SUBSET Rows
  BY <1>0
<1>2. PICK I : I = OfFile(f) \ reverted'
  OBVIOUS
<1>3. Recorded(f)' = IF I # {} THEN hist[Most(I)].after ELSE hist[Least(OfFile(f))].before
  BY <1>0, <1>2 DEF Recorded, Most, Least
<1>4. CASE L = {}
  <2>1. I = InForce(f)
    BY <1>1, <1>2, <1>4 DEF MarksAre, InForce
  <2>2. Recorded(f)' = Recorded(f)
    BY <1>3, <2>1 DEF Recorded, InForce
  <2>3. FirstInForce(f)'
    BY <1>0, <1>2, <2>1 DEF FirstInForce
  <2> QED
    BY <1>0, <1>1, <1>4, <2>2, <2>3 DEF Agrees
<1>5. CASE L # {} /\ me.op \in Reverts
  <2>1. PICK l \in L : l = Least(L) /\ \A q \in L : l <= q
    BY <1>5, <1>7, FirstRow
  <2>2. I = {q \in OfFile(f) : q < l}
    BY <1>1, <1>2, <1>5, <2>1 DEF MarksAre, InForce, Fits
  <2>3. LastOf(me.op, L) = l
    <3>1. CASE me.op = "to"
      <4>1. L = {l}
        BY <1>1, <1>5, <2>1, <3>1 DEF Fits
      <4>2. LastOf(me.op, L) \in L
        BY <1>5, <1>7, FirstRow
      <4> QED
        BY <4>1, <4>2
    <3>2. CASE me.op # "to"
      BY <1>5, <2>1, <3>2 DEF LastOf, FromOldest, Reverts, Reapplies
    <3> QED
      BY <3>1, <3>2
  <2>4. file'[f] = hist[l].before
    BY <1>1, <1>5, <2>3 DEF Result
  <2>5. CASE I = {}
    <3>1. \A q \in OfFile(f) : l <= q
      BY <1>0, <2>2, <2>5
    <3>2. Least(OfFile(f)) \in OfFile(f) /\ \A q \in OfFile(f) : Least(OfFile(f)) <= q
      BY <1>0, <2>1, FirstRow
    <3>3. Least(OfFile(f)) = l
      <4>1. PICK k \in OfFile(f) : k = Least(OfFile(f)) /\ k <= l
        BY <3>2
      <4> QED
        BY <1>0, <3>1, <4>1
    <3>4. Recorded(f)' = hist[l].before
      BY <1>3, <2>5, <3>3
    <3> QED
      BY <1>0, <1>2, <2>4, <2>5, <3>4 DEF Agrees, FirstInForce
  <2>6. CASE I # {}
    <3>1. PICK k \in OfFile(f) : k < l
      BY <2>2, <2>6
    <3>2. PICK p \in OfFile(f) : /\ p < l /\ \A q \in OfFile(f) : q < l => q <= p
                                 /\ hist[l].before = hist[p].after
      BY <3>1, RowBefore
    <3>3. I = {q \in OfFile(f) : q <= p}
      BY <1>0, <2>2, <3>2
    <3>4. Most(I) = p
      <4>1. PICK x : x = Most(I)
        OBVIOUS
      <4>2. I \in SUBSET Rows
        BY <1>0, <2>2
      <4>3. x \in I /\ \A q \in I : q <= x
        BY <2>6, <4>1, <4>2, FirstRow
      <4>4. p \in I
        BY <1>0, <3>3
      <4>5. p <= x /\ x <= p /\ x \in Nat /\ p \in Nat
        BY <1>0, <3>3, <4>3, <4>4
      <4> QED
        BY <4>1, <4>5
    <3>5. Recorded(f)' = hist[l].before
      BY <1>3, <2>6, <3>2, <3>4
    <3>6. FirstInForce(f)'
      BY <1>0, <1>2, <3>3 DEF FirstInForce
    <3> QED
      BY <2>4, <3>5, <3>6 DEF Agrees
  <2> QED
    BY <2>5, <2>6
<1>6. CASE L # {} /\ me.op \in Reapplies
  <2>0. me.op \notin Reverts
    BY <1>6 DEF Reverts, Reapplies
  <2>1. PICK m \in L : m = Most(L) /\ \A q \in L : q <= m
    BY <1>6, <1>7, FirstRow
  <2>2. I = {q \in OfFile(f) : q <= m}
    BY <1>1, <1>2, <1>6, <2>0, <2>1 DEF MarksAre, InForce, Fits
  <2>3. LastOf(me.op, L) = m
    BY <1>6, <2>1 DEF LastOf, FromOldest
  <2>4. file'[f] = hist[m].after
    BY <1>1, <1>6, <2>0, <2>3 DEF Result
  <2>5. m \in I
    BY <1>0, <2>2
  <2>6. Most(I) = m
    <3>1. PICK x : x = Most(I)
      OBVIOUS
    <3>2. I \in SUBSET Rows
      BY <1>0, <2>2
    <3>3. x \in I /\ \A q \in I : q <= x
      BY <2>5, <3>1, <3>2, FirstRow
    <3>4. m <= x /\ x <= m /\ x \in Nat /\ m \in Nat
      BY <1>0, <2>2, <2>5, <3>3
    <3> QED
      BY <3>1, <3>4
  <2>7. Recorded(f)' = hist[m].after
    BY <1>3, <2>5, <2>6
  <2>8. FirstInForce(f)'
    BY <1>0, <1>2, <2>2 DEF FirstInForce
  <2> QED
    BY <2>4, <2>7, <2>8 DEF Agrees
<1> QED
  BY <1>4, <1>5, <1>6 DEF AllOps

LEMMA MarkInv ==
  ASSUME SnapshotsAssumption, Inv, NEW t \in Threads, Mark(t)
  PROVE  Inv'
<1>1. /\ Stop(t) /\ thread[t].pc = "mark" /\ thread[t] \in ThreadSet /\ Sane(thread[t])
      /\ UNCHANGED <<hist, file, blobs, archived, swept, cmds, writes>>
      /\ TurnsCut' /\ here' \subseteq here /\ turns' \subseteq turns /\ off' \subseteq turns'
      /\ reverted' \subseteq Rows /\ running' \in BOOLEAN /\ clean' \in BOOLEAN
  BY MarkIs
<1>2. /\ thread' \in [Threads -> ThreadSet] /\ \A u \in Threads : Sane(thread'[u])
      /\ thread'[t] = Idle /\ \A u \in Threads \ {t} : thread'[u] = thread[u]
  BY <1>1, ThreadStops DEF Inv
<1>3. TypeOK'
  <2>1. here' \subseteq Rows /\ turns' \subseteq TurnsOf(hist)
    BY <1>1 DEF Inv, TypeOK
  <2> QED
    BY <1>1, <1>2, <2>1, ThreadTyped, TypedAfter DEF Inv
<1>4. BlobsKept'
  BY <1>1 DEF Inv, BlobsKept, Named
<1>5. CleanOK'
  <2>1. CASE ~(clean' /\ Chained)
    BY <1>1, <2>1, SameRows DEF CleanOK
  <2>2. CASE clean' /\ Chained
    <3>1. PICK me \in ThreadSet : me = thread[t] /\ Sane(me) /\ me.pc = "mark"
      BY <1>1
    <3>2. clean
      BY <2>2 DEF Mark
    <3>3. /\ AloneOK(me) /\ (\A f \in Files : FirstInForce(f))
          /\ \A u \in Threads \ {t} : thread[u].pc = "idle"
      BY <2>2, <3>1, <3>2 DEF Inv, CleanOK
    <3>4. PICK s \in Rows : me.turn = hist[s].turn /\ me.list = Listed(me.op, s)
      BY <3>1, <3>3 DEF AloneOK
    <3>5. /\ me.op \in AllOps \ {"purge", "edit"} /\ me.touched = {} /\ me.todo = {}
      BY <3>1, <3>3 DEF AloneOK, ThreadSet, Sane
    <3>6. MarksAre(me)
      BY <2>2, <3>1, <3>4, <3>5, MarksSet DEF Inv
    <3>7. ASSUME NEW f \in Files PROVE FirstInForce(f)' /\ Agrees(f)'
      <4>1. Fits(me, f) /\ (me.list \cap OfFile(f) = {} => Agrees(f))
        BY <3>1, <3>3 DEF AloneOK
      <4>2. me.list \cap OfFile(f) # {} =>
              file[f] = Result(me.op, LastOf(me.op, me.list \cap OfFile(f)))
        <5>1. Done(t, f) = me.list \cap OfFile(f)
          BY <3>1, <3>5 DEF Done
        <5>2. WrittenOK(t) /\ Working(t)
          BY <3>1 DEF Inv, Working
        <5> QED
          BY <3>1, <3>5, <5>1, <5>2 DEF WrittenOK
      <4>3. hist \in Histories /\ UNCHANGED <<hist, file>> /\ FirstInForce(f)
        BY <1>1, <3>3 DEF Inv, TypeOK
      <4> QED
        BY <2>2, <3>5, <3>6, <4>1, <4>2, <4>3, MarkedFile
    <3>8. \A u \in Threads : thread'[u].pc = "idle"
      BY <1>2, <3>3 DEF Idle
    <3> QED
      BY <1>1, <3>7, <3>8, CleanRests DEF Resting
  <2> QED
    BY <2>1, <2>2
<1>6. \A u \in Threads : Fine(u)'
  BY <1>1, StopFine DEF Inv, Fine
<1> QED
  BY <1>1, <1>3, <1>4, <1>5, <1>6 DEF Inv, Fine

(***************************************************************************)
(* The theorems.                                                           *)
(***************************************************************************)
LEMMA InitInv ==
  ASSUME SnapshotsAssumption, Init
  PROVE  Inv
<1>0. /\ hist \in Histories /\ here = Rows /\ reverted = {} /\ off = {} /\ turns = TurnsOf(hist)
      /\ file = [f \in Files |-> IF OfFile(f) = {} THEN Absent ELSE Recorded(f)]
      /\ blobs = Named(Rows) /\ running = FALSE /\ archived = FALSE
      /\ \A t \in Threads : thread[t] = Idle /\ thread[t].pc = "idle"
      /\ clean = TRUE /\ swept = {} /\ cmds = 0 /\ writes = 0
  BY DEF Init, Idle
<1>1. \A f \in Files : InForce(f) = OfFile(f) /\ OfFile(f) \in SUBSET Rows
  BY <1>0 DEF InForce, OfFile
<1>2. \A f \in Files : FirstInForce(f)
  <2> TAKE f \in Files
  <2>1. CASE OfFile(f) = {}
    BY <1>1, <2>1 DEF FirstInForce
  <2>2. CASE OfFile(f) # {}
    <3>1. Most(OfFile(f)) \in OfFile(f) /\ \A q \in OfFile(f) : q <= Most(OfFile(f))
      BY <1>0, <1>1, <2>2, FirstRow
    <3>2. InForce(f) = {q \in OfFile(f) : q <= Most(OfFile(f))}
      BY <1>1, <3>1
    <3> QED
      BY <3>1, <3>2 DEF FirstInForce
  <2> QED
    BY <2>1, <2>2
<1>3. TypeOK
  <2>1. thread \in [Threads -> ThreadSet] /\ \A t \in Threads : Sane(thread[t])
    <3>1. thread = [t \in Threads |-> Idle]
      BY DEF Init
    <3> QED
      BY <3>1, IdleTyped
  <2>2. \A f \in Files : OfFile(f) # {} => Recorded(f) \in Contents \cup {Absent}
    <3> SUFFICES ASSUME NEW f \in Files, OfFile(f) # {}
                 PROVE  Recorded(f) \in Contents \cup {Absent}
      OBVIOUS
    <3>1. \A q \in OfFile(f) : /\ hist[q].before \in Contents \cup {Absent}
                               /\ hist[q].after \in Contents \cup {Absent}
      BY <1>0, FileRows
    <3> QED
      BY <1>0, <1>2, <3>1, RecordedIs
  <2>3. file \in [Files -> Contents \cup {Absent}]
    BY <1>0, <2>2
  <2>4. blobs \subseteq Contents
    BY <1>0, NamedTyped
  <2>5. 0 \in 0 .. MaxCmds /\ 0 \in 0 .. MaxWrites
    BY DEF SnapshotsAssumption
  <2> QED
    BY <1>0, <2>1, <2>3, <2>4, <2>5, ThreadTyped
<1>4. BlobsKept /\ TurnsCut
  BY <1>0 DEF BlobsKept, TurnsCut, TurnsOf, Rows
<1>5. \A f \in Files : Agrees(f)
  BY <1>0 DEF Agrees
<1>6. CleanOK
  BY <1>0, <1>2, <1>5 DEF CleanOK, AloneOK
<1>7. \A t \in Threads : OrderOK(t) /\ WrittenOK(t) /\ ComparedOK(t)
  BY <1>0 DEF OrderOK, WrittenOK, ComparedOK, Working
<1> QED
  BY <1>3, <1>4, <1>6, <1>7 DEF Inv

LEMMA StutterInv ==
  ASSUME Inv, UNCHANGED vars
  PROVE  Inv'
<1> USE DEF vars, table, bounds
<1>1. TypeOK'
  <2>1. UNCHANGED <<hist, here, reverted, off, turns, file, blobs, running, archived,
                    thread, clean, swept, cmds, writes>>
    OBVIOUS
  <2> HIDE DEF vars, table, bounds
  <2> QED
    BY <2>1, ThreadTyped, TypedAfter DEF Inv, TypeOK
<1>2. BlobsKept' /\ TurnsCut' /\ CleanOK'
  BY TableKept, CleanStays DEF Inv, BlobsKept, Named
<1>3. \A t \in Threads : Fine(t)'
  BY StillFine DEF Inv, Fine
<1> QED
  BY <1>1, <1>2, <1>3 DEF Inv, Fine

LEMMA NextInv ==
  ASSUME SnapshotsAssumption, Inv, Next
  PROVE  Inv'
<1>1. CASE \E t \in Threads : Step(t)
  <2>1. PICK t \in Threads : Step(t)
    BY <1>1
  <2>2. CASE \E op \in Ops \ {"purge"}, r \in Rows, force \in BOOLEAN : Begin(t, op, r, force)
    BY <2>2, BeginInv
  <2>3. CASE Check(t) \/ CheckUnread(t) \/ Apply(t)
    BY <2>3, CheckInv, ApplyInv
  <2>4. CASE Mark(t) \/ BeginPurge(t) \/ \E kept \in SUBSET Foreign : SweepPurged(t, kept)
    BY <2>4, MarkInv, BeginPurgeInv, SweepPurgedInv
  <2> QED
    BY <2>1, <2>2, <2>3, <2>4 DEF Step
<1>2. CASE \/ StartRun \/ EndRun \/ Archive \/ Unarchive
           \/ \E kept \in SUBSET Foreign : SweepDeletion(kept)
           \/ \E drop \in SUBSET Foreign, pooled \in BOOLEAN : PurgeElsewhere(drop, pooled)
  BY <1>2, BesideInv
<1>3. CASE Send
  BY <1>3, SendInv
<1>4. CASE \E f \in Files, c \in Written : UserWrite(f, c) \/ AgentWrite(f, c)
  BY <1>4, WriteInv
<1>5. CASE \E old \in SUBSET blobs : Restart(old)
  BY <1>5, RestartInv
<1> QED
  BY <1>1, <1>2, <1>3, <1>4, <1>5 DEF Next

LEMMA Invariance == SnapshotsAssumption /\ Spec => []Inv
<1> SUFFICES ASSUME SnapshotsAssumption PROVE Spec => []Inv
  OBVIOUS
<1>1. Init => Inv
  BY InitInv
<1>2. Inv /\ [Next]_vars => Inv'
  BY NextInv, StutterInv
<1> QED
  BY <1>1, <1>2, PTL DEF Spec

\* The state keeps its types, whatever the histories of the rows, the files,
\* the users and the order of their commands (snapshot_revert.rs, store.rs).
THEOREM Typing == SnapshotsAssumption /\ Spec => []TypeOK
<1>1. Inv => TypeOK
  BY DEF Inv
<1> QED
  BY <1>1, Invariance, PTL

\* No blob that a row of the table needs is lost but in the four ways the
\* history names (snapshot_gc.rs, purge_withdrawn_messages).
THEOREM BlobsStay == SnapshotsAssumption /\ Spec => []BlobsKept
<1>1. Inv => BlobsKept
  BY DEF Inv
<1> QED
  BY <1>1, Invariance, PTL

\* Commands that are not disturbed leave the marks and the disk in agreement,
\* for every history whose contents can be told apart (snapshot_revert.rs).
THEOREM MarksTell == SnapshotsAssumption /\ Spec => []MarksAgree
<1>1. Inv => MarksAgree
  BY DEF Inv, CleanOK, MarksAgree, Resting, Agrees
<1> QED
  BY <1>1, Invariance, PTL

\* A command that went through its list leaves each file at one end of the
\* difference (apply_single_revert, apply_single_reapply, get_turn_diff).
THEOREM ListsRestore == SnapshotsAssumption /\ Spec => []ListRestored
<1>1. ASSUME Inv PROVE ListRestored
  <2> SUFFICES ASSUME NEW t \in Threads, thread[t].pc = "mark",
                      thread[t].op \in Reapplies \cup {"revertTurn", "revertEvent", "revertFile"},
                      thread[t].todo = {},
                      NEW f \in Files \ thread[t].touched, thread[t].list \cap OfFile(f) # {}
               PROVE  file[f] = IF thread[t].op \in Reverts
                                THEN Diff(thread[t].list \cap OfFile(f)).before
                                ELSE Diff(thread[t].list \cap OfFile(f)).after
    BY DEF ListRestored, Restores
  <2>1. PICK L : L = thread[t].list \cap OfFile(f)
    OBVIOUS
  <2>2. Done(t, f) = L
    BY <2>1 DEF Done
  <2>3. WrittenOK(t) /\ Working(t)
    BY <1>1 DEF Inv, Working
  <2>4. file[f] = Result(thread[t].op, LastOf(thread[t].op, L))
    BY <2>1, <2>2, <2>3 DEF WrittenOK
  <2>5. CASE thread[t].op \in Reapplies
    <3>1. thread[t].op \notin Reverts /\ LastOf(thread[t].op, L) = Most(L)
      BY <2>5 DEF Reapplies, Reverts, LastOf, FromOldest
    <3> QED
      BY <2>1, <2>4, <3>1 DEF Result, Diff
  <2>6. CASE thread[t].op \in {"revertTurn", "revertEvent", "revertFile"}
    <3>1. thread[t].op \in Reverts /\ LastOf(thread[t].op, L) = Least(L)
      BY <2>6 DEF Reapplies, Reverts, LastOf, FromOldest
    <3> QED
      BY <2>1, <2>4, <3>1 DEF Result, Diff
  <2> QED
    BY <2>5, <2>6
<1> QED
  BY <1>1, Invariance, PTL

\* What a step that is a command's own write may write over.
Careful ==
  \A t \in Threads : \A f \in Files :
    /\ thread[t].pc = "apply" /\ thread'[t].todo # thread[t].todo
    /\ file'[f] # file[f] /\ ~thread[t].force
    /\ f \notin thread[t].touched \cup thread[t].unread
    => file[f] \in Named(OfFile(f)) \cup {Empty, Absent}

LEMMA SameFilesCareful == ASSUME file' = file PROVE Careful
BY DEF Careful

\* The others go on as they did.
LEMMA SameTodoCareful ==
  ASSUME \A t \in Threads : thread[t].pc = "apply" => thread'[t].todo = thread[t].todo
  PROVE  Careful
BY DEF Careful

LEMMA ApplyCareful ==
  ASSUME SnapshotsAssumption, Inv, NEW t \in Threads, Apply(t)
  PROVE  Careful
<1>0. hist' = hist
  BY DEF Apply
<1>1. PICK me \in ThreadSet : me = thread[t] /\ Sane(me) /\ me.pc = "apply"
  BY ApplyIs DEF Inv
<1>2. PICK r \in me.todo, rec \in ThreadSet, f \in Files :
              /\ r \in Rows /\ r = Next1(me.op, me.todo)
              /\ f = hist[r].file /\ Sane(rec)
              /\ \/ /\ Wrote(me, rec, r)
                    /\ file' = [file EXCEPT ![f] = Result(me.op, r)]
                    /\ Touch(t, f, rec) /\ clean' = clean
                 \/ /\ Failed(me, rec) /\ Set(t, rec)
                    /\ clean' = FALSE /\ file' = file
  BY <1>1, ApplyIs DEF Inv
<1>3. CASE file' = file
  BY <1>3, SameFilesCareful
<1>4. CASE /\ Wrote(me, rec, r) /\ file' = [file EXCEPT ![f] = Result(me.op, r)]
           /\ Touch(t, f, rec) /\ clean' = clean
  <2>1. \A u \in Threads \ {t} : thread'[u].todo = thread[u].todo
    BY <1>0, <1>2, <1>4, Touched DEF Inv, Beside
  <2>2. \A g \in Files : file'[g] # file[g] => g = f
    BY <1>4 DEF Inv, TypeOK
  <2>3. ~me.force /\ f \notin me.touched \cup me.unread => Known(f)
    <3>1. r \in ListOf(t, f)
      BY <1>1, <1>2 DEF ListOf, OfFile, Sane
    <3>2. ComparedOK(t)
      BY DEF Inv
    <3> QED
      BY <1>1, <3>1, <3>2 DEF ComparedOK
  <2> QED
    BY <1>1, <2>1, <2>2, <2>3 DEF Careful, Known
<1> QED
  BY <1>2, <1>3, <1>4

LEMMA NextCareful ==
  ASSUME SnapshotsAssumption, Inv, Next
  PROVE  Careful
<1>1. CASE \E t \in Threads : Step(t)
  <2>1. PICK t \in Threads : Step(t)
    BY <1>1
  <2>2. CASE Apply(t)
    BY <2>2, ApplyCareful
  <2>3. CASE ~Apply(t)
    <3>1. file' = file
      BY <2>1, <2>3 DEF Step, Begin, Check, CheckUnread, Mark, BeginPurge, SweepPurged, SameWorld
    <3> QED
      BY <3>1, SameFilesCareful
  <2> QED
    BY <2>2, <2>3
<1>2. CASE \E f \in Files, c \in Written : UserWrite(f, c) \/ AgentWrite(f, c)
  <2>1. PICK f \in Files, c \in Written : Write(f, c)
    BY <1>2 DEF UserWrite, AgentWrite
  <2>2. ASSUME NEW t \in Threads PROVE thread'[t].todo = thread[t].todo
    <3>1. PICK me \in ThreadSet : me = thread[t]
      BY ThreadTyped DEF Inv
    <3>2. thread'[t] = [me EXCEPT !.touched = me.touched \cup {f}]
      BY <2>1, <3>1 DEF Write
    <3> QED
      BY <3>1, <3>2 DEF ThreadSet
  <2> QED
    BY <2>2, SameTodoCareful
<1>3. CASE \/ Send \/ StartRun \/ EndRun \/ Archive \/ Unarchive
           \/ \E kept \in SUBSET Foreign : SweepDeletion(kept)
           \/ \E drop \in SUBSET Foreign, pooled \in BOOLEAN : PurgeElsewhere(drop, pooled)
           \/ \E old \in SUBSET blobs : Restart(old)
  <2>1. file' = file
    BY <1>3 DEF Send, StartRun, EndRun, Archive, Unarchive, SweepDeletion, PurgeElsewhere,
                Restart
  <2> QED
    BY <2>1, SameFilesCareful
<1> QED
  BY <1>1, <1>2, <1>3 DEF Next

\* A command that is not forced writes only over what a row still has, unless
\* the file was written after it was compared, or could not be read when it
\* was to be (check_revert_conflict, check_reapply_conflict).
THEOREM EditsStay == SnapshotsAssumption /\ Spec => UnforcedKeepsEdits
<1> SUFFICES ASSUME SnapshotsAssumption PROVE Spec => UnforcedKeepsEdits
  OBVIOUS
<1>1. Inv /\ [Next]_vars => [Careful]_vars
  BY NextCareful
<1>2. Spec => [][Careful]_vars
  BY <1>1, Invariance, PTL DEF Spec
<1> QED
  BY <1>2 DEF Careful, UnforcedKeepsEdits
=============================================================================
