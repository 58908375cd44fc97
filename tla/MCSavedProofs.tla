--------------------------- MODULE MCSavedProofs ----------------------------
(* Theorems about MCShared, for any sessions, plans, rows, files, logins and *)
(* bounds: plans are the session's own, and what was saved is there. A part  *)
(* of the system is what it was at the start, and the invariant of that part *)
(* is kept by the steps of its module. (MCSharedProofs has the other parts.) *)
EXTENDS MCShared, Sequences, SequenceTheorems, WellFoundedInduction, TLAPS

(***************************************************************************)
(* Plans. As long as no session named or overwrote a plan of another one,  *)
(* the active plan of a session is a file of its own, and in progress is   *)
(* at most that one as long as only the agents' calls change plans. The    *)
(* numbers of messages and events are values of one clock: a message of    *)
(* the user is newer than all there was, and no plan comes from it.        *)
(***************************************************************************)

\* What a log says of the messages, up to the clock c.
LogOrder(e, c) ==
  /\ \A i \in DOMAIN e :
       /\ 1 <= e[i].msg /\ e[i].msg <= e[i].id /\ e[i].id <= c
       /\ e[i].tool = "user" => e[i].msg = e[i].id
  /\ \A i, j \in DOMAIN e : i < j => e[i].id < e[j].id /\ e[i].msg <= e[j].msg
LogOK(e, c) == e \in Seq(Plan!Entries) /\ LogOrder(e, c)

PlanTyped ==
  /\ disk \in [Plans -> Plan!Files \cup {None}]
  /\ active \in [Plan!Dbs -> [Planners -> Plans \cup {None}]]
  /\ todos \in [Plan!Dbs -> [Planners -> Plan!Lists]]
  /\ log \in [Planners -> Seq(Plan!Entries)]
  /\ running \subseteq Planners /\ clock \in 0..MaxClock
  /\ crossed \in BOOLEAN /\ aside \in BOOLEAN

LogsOK == \A s \in Planners : LogOK(log[s], clock) /\ (s \in running => log[s] # <<>>)

\* Messages of the user, and messages plans or events come from.
ByUser(m) == \E s \in Planners : \E i \in DOMAIN log[s] :
               log[s][i].tool = "user" /\ log[s][i].msg = m
ByAgent(m) ==
  \/ \E s \in Planners : \E i \in DOMAIN log[s] : log[s][i].tool # "user" /\ log[s][i].msg = m
  \/ \E p \in Plans : disk[p] # None /\ disk[p].source.msg = m
AgentsOwn == \A m : ByAgent(m) => ~ByUser(m) /\ m \in 0..clock

OwnActive ==
  ~crossed => \A s \in Planners, db \in Plan!Dbs :
                active[db][s] \in Plan!OfSession(s) \cup {None}

PlanInv == PlanTyped /\ LogsOK /\ AgentsOwn /\ OwnActive /\ Plan!OneInProgress

\* Of the sets of numbers below a bound each has a least one.
LEMMA LeastIs ==
  ASSUME NEW T, T \subseteq Nat, T # {}
  PROVE  \E x \in T : \A y \in T : x <= y
<1>1. PICK x \in T : \A y \in T : ~(<<y, x>> \in OpToRel(<, Nat))
  BY NatLessThanWellFounded, WFMin
<1>2. \A y \in T : ~(y < x)
  BY <1>1 DEF OpToRel
<1> QED
  BY <1>2

LEMMA PlansAre ==
  ASSUME PartsAssumption
  PROVE  /\ None \notin Planners /\ None \notin Plans /\ None \notin Plan!Files
         /\ None \notin Plan!Statuses
         /\ PlanParent \in [Planners -> Planners \cup {None}]
         /\ MaxClock \in Nat /\ 2 <= MaxClock /\ MaxBeside \in 0..MaxClock
         /\ MaxLog \in [Planners -> 0..MaxClock]
BY DEF PartsAssumption, Plan!PlanAssumption

LEMMA NewestIs ==
  ASSUME PartsAssumption, PlanTyped, NEW S, S \subseteq Plan!There, S # {}
  PROVE  Plan!Newest(S) \in S
<1>1. \A p \in S : p \in Plans /\ disk[p].stamp \in 0..MaxClock
  BY DEF PlanTyped, Plan!There, Plan!Files
<1> DEFINE T == {MaxClock - disk[p].stamp : p \in S}
<1>2. T \subseteq Nat /\ T # {}
  BY <1>1, PlansAre
<1>3. PICK x \in T : \A y \in T : x <= y
  BY <1>2, LeastIs
<1>4. PICK p \in S : x = MaxClock - disk[p].stamp
  BY <1>3
<1>5. \A q \in S : disk[q].stamp <= disk[p].stamp
  <2> TAKE q \in S
  <2>1. MaxClock - disk[p].stamp <= MaxClock - disk[q].stamp
    BY <1>3, <1>4
  <2> QED
    BY <1>1, <2>1, PlansAre
<1> QED
  BY <1>5 DEF Plan!Newest

LEMMA EntryIs ==
  ASSUME NEW x \in Plan!Entries
  PROVE  x.id \in Nat /\ x.msg \in Nat
BY DEF Plan!Entries

\* A log grows at its end, loses its end, or changes in other fields.
LEMMA LogAppend ==
  ASSUME NEW c \in Nat, NEW e, LogOK(e, c), NEW x \in Plan!Entries, x.id = c + 1,
         x.msg = c + 1 \/ (e # <<>> /\ x.tool # "user" /\ x.msg = e[Len(e)].msg)
  PROVE  LogOK(Append(e, x), c + 1)
<1>1. /\ e \in Seq(Plan!Entries) /\ Len(e) \in Nat /\ DOMAIN e = 1 .. Len(e)
      /\ \A i \in DOMAIN e : e[i].id \in Nat /\ e[i].msg \in Nat /\ e[i].id <= c
  <2>1. e \in Seq(Plan!Entries)
    BY DEF LogOK
  <2>2. \A i \in DOMAIN e : e[i] \in Plan!Entries
    BY <2>1, ElementOfSeq
  <2>3. \A i \in DOMAIN e : 1 <= e[i].msg /\ e[i].msg <= e[i].id /\ e[i].id <= c
    BY DEF LogOK, LogOrder
  <2> QED
    BY <2>1, <2>2, <2>3, LenProperties DEF Plan!Entries
<1> DEFINE f == Append(e, x)
<1>2. /\ f \in Seq(Plan!Entries) /\ DOMAIN f = 1 .. Len(e) + 1 /\ f[Len(e) + 1] = x
      /\ \A i \in DOMAIN e : f[i] = e[i]
  BY <1>1, AppendProperties
<1> HIDE DEF f
<1>3. /\ 1 <= x.msg /\ x.msg <= c + 1 /\ (x.tool = "user" => x.msg = x.id)
      /\ \A i \in DOMAIN e : e[i].msg <= x.msg
  <2>1. CASE x.msg = c + 1
    BY <1>1, <2>1 DEF LogOK, LogOrder
  <2>2. CASE e # <<>> /\ x.tool # "user" /\ x.msg = e[Len(e)].msg
    <3>1. Len(e) \in DOMAIN e
      BY <1>1, <2>2, EmptySeq
    <3>2. \A i \in DOMAIN e : i = Len(e) \/ i < Len(e)
      BY <1>1
    <3> QED
      BY <1>1, <2>2, <3>1, <3>2 DEF LogOK, LogOrder
  <2> QED
    BY <2>1, <2>2
<1>4. ASSUME NEW i \in DOMAIN f
      PROVE  /\ 1 <= f[i].msg /\ f[i].msg <= f[i].id /\ f[i].id <= c + 1
             /\ f[i].tool = "user" => f[i].msg = f[i].id
  <2>1. CASE i \in DOMAIN e
    BY <1>1, <1>2, <2>1 DEF LogOK, LogOrder
  <2>2. CASE i = Len(e) + 1
    BY <1>2, <1>3, <2>2
  <2> QED
    BY <1>1, <1>2, <2>1, <2>2
<1>5. ASSUME NEW i \in DOMAIN f, NEW j \in DOMAIN f, i < j
      PROVE  f[i].id < f[j].id /\ f[i].msg <= f[j].msg
  <2>1. i \in DOMAIN e
    BY <1>1, <1>2, <1>5
  <2>2. CASE j \in DOMAIN e
    BY <1>2, <1>5, <2>1, <2>2 DEF LogOK, LogOrder
  <2>3. CASE j = Len(e) + 1
    BY <1>1, <1>2, <1>3, <2>1, <2>3
  <2> QED
    BY <1>1, <1>2, <2>2, <2>3
<1>6. LogOrder(f, c + 1)
  BY <1>4, <1>5 DEF LogOrder
<1> QED
  BY <1>2, <1>6 DEF f, LogOK

LEMMA LogLater ==
  ASSUME NEW c \in Nat, NEW e, LogOK(e, c)
  PROVE  LogOK(e, c + 1)
<1>1. e \in Seq(Plan!Entries) /\ \A i \in DOMAIN e : e[i].id \in Nat
  <2>1. e \in Seq(Plan!Entries)
    BY DEF LogOK
  <2> QED
    BY <2>1, ElementOfSeq, EntryIs
<1>2. \A i \in DOMAIN e : e[i].id <= c + 1
  BY <1>1 DEF LogOK, LogOrder
<1> QED
  BY <1>1, <1>2 DEF LogOK, LogOrder

LEMMA LogLike ==
  ASSUME NEW c, NEW e, LogOK(e, c), NEW f \in Seq(Plan!Entries), DOMAIN f \subseteq DOMAIN e,
         \A i \in DOMAIN f : f[i].id = e[i].id /\ f[i].msg = e[i].msg /\ f[i].tool = e[i].tool
  PROVE  LogOK(f, c)
BY DEF LogOK, LogOrder

\* What a purge keeps is the beginning of the log.
LEMMA KeptIs ==
  ASSUME PlanTyped, LogsOK, NEW s \in Planners
  PROVE  /\ Plan!Kept(s) \in Seq(Plan!Entries)
         /\ DOMAIN Plan!Kept(s) \subseteq DOMAIN log[s]
         /\ \A i \in DOMAIN Plan!Kept(s) : Plan!Kept(s)[i] = log[s][i]
<1> DEFINE e == log[s]
           gone == {j \in DOMAIN e : e[j].reverted}
           stays == {i \in DOMAIN e : \A j \in DOMAIN e : e[j].reverted => e[i].id < e[j].id}
<1>1. /\ e \in Seq(Plan!Entries) /\ Len(e) \in Nat /\ DOMAIN e = 1 .. Len(e)
      /\ \A i \in DOMAIN e : e[i] \in Plan!Entries /\ e[i].id \in Nat
      /\ \A i, j \in DOMAIN e : i < j => e[i].id < e[j].id
  <2>1. e \in Seq(Plan!Entries)
    BY DEF PlanTyped
  <2>2. \A i \in DOMAIN e : e[i] \in Plan!Entries
    BY <2>1, ElementOfSeq
  <2>3. \A i \in DOMAIN e : e[i].id \in Nat
    BY <2>2, EntryIs
  <2> QED
    BY <2>1, <2>2, <2>3, LenProperties DEF LogsOK, LogOK, LogOrder
<1>2. Plan!Kept(s) = [i \in stays |-> e[i]]
  BY DEF Plan!Kept
<1> HIDE DEF e
<1>3. PICK k \in Nat : stays = 1 .. k /\ k <= Len(e)
  <2>1. CASE gone = {}
    <3>1. stays = DOMAIN e
      BY <2>1
    <3> QED
      BY <1>1, <3>1
  <2>2. CASE gone # {}
    <3>1. gone \subseteq Nat
      BY <1>1
    <3>2. PICK m \in gone : \A j \in gone : m <= j
      BY <2>2, <3>1, LeastIs
    <3>3. m \in 1 .. Len(e)
      BY <1>1, <3>2
    <3>4. ASSUME NEW i \in 1 .. Len(e) PROVE i \in stays <=> i < m
      <4>1. ASSUME i \in stays PROVE i < m
        <5>1. e[i].id < e[m].id
          BY <3>2, <4>1
        <5>2. i = m \/ m < i \/ i < m
          BY <3>3
        <5>3. ~(i = m) /\ ~(m < i)
          BY <1>1, <3>3, <5>1
        <5> QED
          BY <5>2, <5>3
      <4>2. ASSUME i < m, NEW j \in DOMAIN e, e[j].reverted PROVE e[i].id < e[j].id
        <5>1. m <= j /\ j \in Nat
          BY <1>1, <3>2, <4>2
        <5>2. i < j
          BY <3>3, <4>2, <5>1
        <5> QED
          BY <1>1, <5>2
      <4> QED
        BY <1>1, <4>1, <4>2
    <3>5. stays = 1 .. m - 1 /\ m - 1 \in Nat
      <4>1. \A i : i \in stays <=> (i \in 1 .. Len(e) /\ i < m)
        BY <1>1, <3>4
      <4>2. \A i : (i \in 1 .. Len(e) /\ i < m) <=> i \in 1 .. m - 1
        BY <1>1, <3>3
      <4>3. stays = 1 .. m - 1
        BY <4>1, <4>2
      <4> QED
        BY <3>3, <4>3
    <3>6. m - 1 <= Len(e)
      BY <1>1, <3>3
    <3> QED
      BY <3>5, <3>6
  <2> QED
    BY <2>1, <2>2
<1>4. \A i \in 1 .. k : i \in DOMAIN e /\ e[i] \in Plan!Entries
  BY <1>1, <1>3
<1> HIDE DEF stays
<1>5. [i \in 1 .. k |-> e[i]] \in Seq(Plan!Entries)
  BY <1>4, IsASeq
<1>6. Plan!Kept(s) = [i \in 1 .. k |-> e[i]]
  BY <1>2, <1>3
<1> QED
  BY <1>4, <1>5, <1>6 DEF e

LEMMA KeptOK ==
  ASSUME PlanTyped, LogsOK, NEW s \in Planners
  PROVE  LogOK(Plan!Kept(s), clock)
<1>1. LogOK(log[s], clock)
  BY DEF LogsOK
<1> QED
  BY <1>1, KeptIs, LogLike

LEMMA TickIs ==
  ASSUME PartsAssumption, PlanTyped, NEW s \in Planners, Plan!Tick(s)
  PROVE  clock \in Nat /\ clock' = clock + 1 /\ clock' \in 0..MaxClock /\ Plan!Now = clock'
<1>1. clock \in Nat /\ MaxLog[s] \in 0..MaxClock /\ MaxBeside \in 0..MaxClock /\ MaxClock \in Nat
  BY PlansAre DEF PlanTyped
<1>2. clock' = clock + 1 /\ (clock < MaxBeside \/ clock < MaxLog[s])
  BY DEF Plan!Tick
<1> QED
  BY <1>1, <1>2 DEF Plan!Now

\* The messages of the user are as old as the clock says.
LEMMA UsersOld ==
  ASSUME LogsOK, NEW m, ByUser(m)
  PROVE  1 <= m /\ m <= clock
<1>1. PICK s \in Planners : \E i \in DOMAIN log[s] : log[s][i].tool = "user" /\ log[s][i].msg = m
  BY DEF ByUser
<1> QED
  BY <1>1 DEF LogsOK, LogOK, LogOrder

\* What an entry of the log, or a file, is now about.
UserKept == \A t \in Planners : \A i \in DOMAIN log'[t] :
              log'[t][i].tool = "user" => ByUser(log'[t][i].msg)
AgentKept == \A t \in Planners : \A i \in DOMAIN log'[t] :
               log'[t][i].tool # "user" => ByAgent(log'[t][i].msg)
SourceKept == \A q \in Plans : disk'[q] # None => ByAgent(disk'[q].source.msg)
AgentNew == \A t \in Planners : \A i \in DOMAIN log'[t] :
              log'[t][i].tool # "user" => ByAgent(log'[t][i].msg) \/ log'[t][i].msg = clock + 1
SourceNew == \A q \in Plans :
               disk'[q] # None => ByAgent(disk'[q].source.msg) \/ disk'[q].source.msg = clock + 1

LEMMA AgentsKept ==
  ASSUME AgentsOwn, UserKept, AgentKept, SourceKept, clock \in Nat,
         clock' = clock \/ clock' = clock + 1
  PROVE  AgentsOwn'
<1> SUFFICES ASSUME NEW m, ByAgent(m)' PROVE ~ByUser(m)' /\ m \in 0..clock'
  BY DEF AgentsOwn
<1>1. ByAgent(m)
  BY DEF ByAgent, AgentKept, SourceKept
<1>2. ~ByUser(m) /\ m \in 0..clock
  BY <1>1 DEF AgentsOwn
<1>3. ~ByUser(m)'
  BY <1>2 DEF ByUser, UserKept
<1> QED
  BY <1>2, <1>3

\* An event of now, which may be of a message of now.
LEMMA AgentsGrow ==
  ASSUME LogsOK, AgentsOwn, UserKept, AgentNew, SourceNew, clock \in Nat, clock' = clock + 1
  PROVE  AgentsOwn'
<1> SUFFICES ASSUME NEW m, ByAgent(m)' PROVE ~ByUser(m)' /\ m \in 0..clock'
  BY DEF AgentsOwn
<1>1. ByAgent(m) \/ m = clock + 1
  BY DEF ByAgent, AgentNew, SourceNew
<1>2. ~ByUser(m) /\ m \in 0..clock'
  <2>1. CASE ByAgent(m)
    BY <2>1 DEF AgentsOwn
  <2>2. CASE m = clock + 1
    BY <2>2, UsersOld
  <2> QED
    BY <1>1, <2>1, <2>2
<1>3. ~ByUser(m)'
  BY <1>2 DEF ByUser, UserKept
<1> QED
  BY <1>2, <1>3

\* A message of the user.
LEMMA UsersGrow ==
  ASSUME AgentsOwn, AgentKept, SourceKept, clock \in Nat, clock' = clock + 1,
         \A t \in Planners : \A i \in DOMAIN log'[t] :
           log'[t][i].tool = "user" => ByUser(log'[t][i].msg) \/ log'[t][i].msg = clock + 1
  PROVE  AgentsOwn'
<1> SUFFICES ASSUME NEW m, ByAgent(m)' PROVE ~ByUser(m)' /\ m \in 0..clock'
  BY DEF AgentsOwn
<1>1. ByAgent(m)
  BY DEF ByAgent, AgentKept, SourceKept
<1>2. ~ByUser(m) /\ m \in 0..clock
  BY <1>1 DEF AgentsOwn
<1>3. m # clock + 1
  BY <1>2
<1>4. ~ByUser(m)'
  BY <1>2, <1>3 DEF ByUser
<1> QED
  BY <1>2, <1>4

\* The message of an event is a value of the clock.
LEMMA UseIs ==
  ASSUME PartsAssumption, PlanTyped, LogsOK, NEW s \in Planners, NEW m, Plan!MayUse(s, m)
  PROVE  m \in 1..MaxClock
<1> DEFINE e == log[s]
<1>1. /\ clock \in Nat /\ clock' = clock + 1 /\ clock' \in 0..MaxClock /\ s \in running
      /\ Plan!Now = clock + 1 /\ MaxClock \in Nat
  BY TickIs, PlansAre DEF Plan!MayUse
<1>2. e \in Seq(Plan!Entries) /\ e # <<>>
  BY <1>1 DEF PlanTyped, LogsOK
<1>3. Len(e) \in DOMAIN e /\ e[Len(e)] \in Plan!Entries
  BY <1>2, LenProperties, EmptySeq, ElementOfSeq
<1>4. 1 <= e[Len(e)].msg /\ e[Len(e)].msg <= e[Len(e)].id /\ e[Len(e)].id <= clock
  BY <1>3 DEF LogsOK, LogOK, LogOrder
<1>5. e[Len(e)].msg \in Nat /\ e[Len(e)].id \in Nat
  BY <1>1, <1>3 DEF Plan!Entries
<1>6. m = clock + 1 \/ m = e[Len(e)].msg
  BY <1>1 DEF Plan!MayUse, Plan!Last
<1> QED
  BY <1>1, <1>4, <1>5, <1>6

\* An event of a tool goes to the end of the log, with the last message, if
\* that is the agent's, or a new one.
LEMMA RecordIs ==
  ASSUME PartsAssumption, PlanTyped, LogsOK, NEW s \in Planners,
         NEW msg \in 1..MaxClock, Plan!MayUse(s, msg),
         NEW tool \in {"create", "update", "switch", "todo"}, NEW p \in Plans \cup {None},
         NEW items \in Plan!Lists, Plan!Record(s, tool, p, items, msg), running' = running
  PROVE  /\ log' \in [Planners -> Seq(Plan!Entries)] /\ LogsOK' /\ UserKept /\ AgentNew
         /\ msg = clock + 1 \/ ByAgent(msg)
<1> DEFINE e == log[s]
           x == Plan!Entry(tool, p, items, clock + 1, msg)
<1>1. /\ clock \in Nat /\ clock' = clock + 1 /\ clock' \in 0..MaxClock /\ s \in running
      /\ Plan!Now = clock + 1
  BY TickIs DEF Plan!MayUse
<1>2. /\ e \in Seq(Plan!Entries) /\ Len(e) \in Nat /\ DOMAIN e = 1 .. Len(e) /\ e # <<>>
      /\ Len(e) \in DOMAIN e
  <2>1. e \in Seq(Plan!Entries) /\ e # <<>>
    BY <1>1 DEF PlanTyped, LogsOK
  <2> QED
    BY <2>1, LenProperties, EmptySeq
<1>3. /\ x \in Plan!Entries /\ x.tool = tool /\ x.tool # "user" /\ x.id = clock + 1
      /\ x.msg = msg
  BY <1>1, PlansAre DEF Plan!Entry, Plan!Entries
<1>4. log' = [log EXCEPT ![s] = Append(e, x)]
  BY <1>1 DEF Plan!Record
<1>5. msg = clock + 1 \/ (e[Len(e)].tool # "user" /\ msg = e[Len(e)].msg)
  BY <1>1, <1>2 DEF Plan!MayUse, Plan!Last
<1>6. msg = clock + 1 \/ ByAgent(msg)
  BY <1>2, <1>5 DEF ByAgent
<1> HIDE DEF x
<1>7. LogOK(Append(e, x), clock + 1)
  <2>1. LogOK(e, clock)
    BY DEF LogsOK
  <2> QED
    BY <1>1, <1>2, <1>3, <1>5, <2>1, LogAppend
<1>8. /\ log'[s] = Append(e, x) /\ \A t \in Planners \ {s} : log'[t] = log[t]
      /\ log' \in [Planners -> Seq(Plan!Entries)]
  BY <1>2, <1>3, <1>4, AppendProperties DEF PlanTyped
<1>9. /\ DOMAIN Append(e, x) = 1 .. Len(e) + 1 /\ Append(e, x)[Len(e) + 1] = x
      /\ \A i \in DOMAIN e : Append(e, x)[i] = e[i] /\ Append(e, x) # <<>>
  BY <1>2, <1>3, AppendProperties
<1>10. LogsOK'
  <2>1. ASSUME NEW t \in Planners PROVE LogOK(log'[t], clock')
    BY <1>1, <1>7, <1>8, LogLater DEF LogsOK
  <2>2. ASSUME NEW t \in running PROVE log'[t] # <<>>
    BY <1>2, <1>8, <1>9 DEF LogsOK, PlanTyped
  <2> QED
    BY <2>1, <2>2 DEF LogsOK
<1>11. ASSUME NEW t \in Planners, NEW i \in DOMAIN log'[t]
       PROVE  /\ log'[t][i].tool = "user" => ByUser(log'[t][i].msg)
              /\ log'[t][i].tool # "user" => ByAgent(log'[t][i].msg) \/ log'[t][i].msg = clock + 1
  <2>1. CASE t = s /\ i = Len(e) + 1
    BY <1>3, <1>5, <1>6, <1>8, <1>9, <2>1
  <2>2. CASE ~(t = s /\ i = Len(e) + 1)
    <3>1. i \in DOMAIN log[t] /\ log'[t][i] = log[t][i]
      BY <1>2, <1>8, <1>9, <1>11, <2>2
    <3> QED
      BY <3>1 DEF ByUser, ByAgent
  <2> QED
    BY <2>1, <2>2
<1> QED
  BY <1>6, <1>8, <1>10, <1>11 DEF UserKept, AgentNew

\* A log that lost its end or changed in other fields.
LEMMA LogsLess ==
  ASSUME PlanTyped, LogsOK, NEW s \in Planners, NEW f \in Seq(Plan!Entries),
         log' = [log EXCEPT ![s] = f], DOMAIN f \subseteq DOMAIN log[s],
         \A i \in DOMAIN f : /\ f[i].id = log[s][i].id /\ f[i].msg = log[s][i].msg
                              /\ f[i].tool = log[s][i].tool,
         clock' = clock \/ clock' = clock + 1, \A t \in running' : t \in running /\ (t = s => f # <<>>)
  PROVE  log' \in [Planners -> Seq(Plan!Entries)] /\ LogsOK' /\ UserKept /\ AgentKept
<1>0. clock \in Nat
  BY DEF PlanTyped
<1>1. /\ log'[s] = f /\ \A t \in Planners \ {s} : log'[t] = log[t]
      /\ log' \in [Planners -> Seq(Plan!Entries)]
  BY DEF PlanTyped
<1>2. LogOK(f, clock)
  BY LogLike DEF LogsOK
<1>3. LogsOK'
  <2>1. ASSUME NEW t \in Planners PROVE LogOK(log'[t], clock')
    BY <1>0, <1>1, <1>2, LogLater DEF LogsOK
  <2>2. ASSUME NEW t \in Planners, t \in running' PROVE log'[t] # <<>>
    BY <1>1, <2>2 DEF LogsOK
  <2> QED
    BY <2>1, <2>2 DEF LogsOK
<1>4. ASSUME NEW t \in Planners, NEW i \in DOMAIN log'[t]
      PROVE  /\ log'[t][i].tool = "user" => ByUser(log'[t][i].msg)
             /\ log'[t][i].tool # "user" => ByAgent(log'[t][i].msg)
  <2>1. /\ i \in DOMAIN log[t] /\ log'[t][i].msg = log[t][i].msg
        /\ log'[t][i].tool = log[t][i].tool
    BY <1>1, <1>4
  <2> QED
    BY <2>1 DEF ByUser, ByAgent
<1> QED
  BY <1>1, <1>3, <1>4 DEF UserKept, AgentKept

\* No log is written.
LEMMA LogsRest ==
  ASSUME PlanTyped, LogsOK, log' = log, running' \subseteq running,
         clock' = clock \/ clock' = clock + 1
  PROVE  log' \in [Planners -> Seq(Plan!Entries)] /\ LogsOK' /\ UserKept /\ AgentKept
<1>0. clock \in Nat
  BY DEF PlanTyped
<1>1. LogsOK'
  BY <1>0, LogLater DEF LogsOK
<1>2. UserKept /\ AgentKept
  BY DEF UserKept, AgentKept, ByUser, ByAgent
<1> QED
  BY <1>1, <1>2 DEF PlanTyped

(***************************************************************************)
(* Which plan is found, and what becomes of the files.                     *)
(***************************************************************************)

LEMMA FileIs ==
  ASSUME PartsAssumption, PlanTyped, NEW q \in Plan!There
  PROVE  q \in Plans /\ q # None /\ disk[q] \in Plan!Files
BY PlansAre DEF PlanTyped, Plan!There

LEMMA IdIs ==
  ASSUME PartsAssumption, PlanTyped, NEW s \in Planners, NEW id
  PROVE  /\ Plan!IdOrNewest(id, s) \in Plan!There \cup {None}
         /\ id \in Plan!There => Plan!IdOrNewest(id, s) = id
         /\ id \notin Plan!There => Plan!IdOrNewest(id, s) \in Plan!InProgress(s) \cup {None}
<1>1. Plan!InProgress(s) \subseteq Plan!There
  BY DEF Plan!InProgress, Plan!OfSession
<1>2. Plan!InProgress(s) # {} => Plan!Newest(Plan!InProgress(s)) \in Plan!InProgress(s)
  BY <1>1, NewestIs
<1> QED
  BY <1>1, <1>2 DEF Plan!IdOrNewest

LEMMA FindIs ==
  ASSUME PartsAssumption, PlanTyped, NEW s \in Planners, NEW named, NEW db
  PROVE  /\ Plan!Find(s, named, db) \in Plan!There \cup {None}
         /\ named # None => Plan!Find(s, named, db) \in {named, None}
<1>1. CASE named # None
  BY <1>1 DEF Plan!Find
<1>2. CASE named = None
  <2>1. Plan!IdOrNewest(active[db][s], s) \in Plan!There \cup {None}
    BY IdIs
  <2>2. PlanParent[s] # None =>
          /\ PlanParent[s] \in Planners
          /\ Plan!IdOrNewest(active[db][PlanParent[s]], PlanParent[s]) \in Plan!There \cup {None}
    BY IdIs, PlansAre
  <2> QED
    BY <1>2, <2>1, <2>2 DEF Plan!Find
<1> QED
  BY <1>1, <1>2

\* The one plan in progress is found.
LEMMA FindRunning ==
  ASSUME PartsAssumption, PlanTyped, Plan!OneInProgress, ~aside, ~crossed,
         NEW s \in Planners, NEW q \in Plan!InProgress(s)
  PROVE  q = active["catalog"][s] /\ Plan!Find(s, None, "catalog") = q
<1>1. q = active["catalog"][s] /\ q \in Plan!There
  BY DEF Plan!OneInProgress, Plan!InProgress, Plan!OfSession
<1>2. Plan!IdOrNewest(active["catalog"][s], s) = q /\ q # None
  BY <1>1, IdIs, FileIs
<1> QED
  BY <1>1, <1>2 DEF Plan!Find

\* Without strangers a plan that is found is the session's or its parent's.
LEMMA FindOwn ==
  ASSUME PartsAssumption, PlanTyped, OwnActive, ~crossed, NEW s \in Planners, NEW db \in Plan!Dbs
  PROVE  Plan!Find(s, None, db) \in Plan!OfSession(s)
           \cup (IF PlanParent[s] = None THEN {} ELSE Plan!OfSession(PlanParent[s])) \cup {None}
<1>1. ASSUME NEW t \in Planners
      PROVE  Plan!IdOrNewest(active[db][t], t) \in Plan!OfSession(t) \cup {None}
  <2>1. active[db][t] \in Plan!There => active[db][t] \in Plan!OfSession(t)
    BY PlansAre DEF OwnActive, Plan!There
  <2>2. Plan!InProgress(t) \subseteq Plan!OfSession(t)
    BY DEF Plan!InProgress
  <2> QED
    BY <2>1, <2>2, IdIs
<1>2. PlanParent[s] # None => PlanParent[s] \in Planners
  BY PlansAre
<1>3. PlanParent[s] # None =>
        Plan!IdOrNewest(active[db][PlanParent[s]], PlanParent[s]) \in Plan!OfSession(PlanParent[s]) \cup {None}
  BY <1>1, <1>2
<1> QED
  BY <1>1, <1>3 DEF Plan!Find

\* A file whose status, steps and source are written.
LEMMA FileWritten ==
  ASSUME PartsAssumption, PlanTyped, NEW p \in Plan!There, Plan!Now \in 0..MaxClock,
         NEW status \in Plan!Statuses, NEW steps \in {"open", "done"}, NEW source \in Plan!Sources
  PROVE  /\ Plan!Written(p, status, steps, source) \in Plan!Files
         /\ Plan!Written(p, status, steps, source) # None
         /\ Plan!Written(p, status, steps, source).owner = disk[p].owner
         /\ Plan!Written(p, status, steps, source).source = source
         /\ Plan!Written(p, status, steps, source).status = status
<1> DEFINE w == Plan!Written(p, status, steps, source)
<1>1. disk[p] \in Plan!Files
  BY FileIs
<1>2. /\ w \in Plan!Files /\ w.owner = disk[p].owner /\ w.source = source
      /\ w.status = status
  BY <1>1 DEF Plan!Files, Plan!Written
<1> QED
  BY <1>2, PlansAre

LEMMA FileParts ==
  ASSUME PartsAssumption, PlanTyped, NEW p \in Plan!There
  PROVE  /\ disk[p].status \in Plan!Statuses /\ disk[p].steps \in {"open", "done"}
         /\ disk[p].source \in Plan!Sources /\ disk[p].owner \in Planners
<1>1. disk[p] \in Plan!Files
  BY FileIs
<1> QED
  BY <1>1 DEF Plan!Files

\* The old plan makes way.
LEMMA SuspendIs ==
  ASSUME PartsAssumption, PlanTyped, NEW f \in Plan!There \cup {None}, Plan!Now \in 0..MaxClock
  PROVE  /\ Plan!SuspendOld(f) \in [Plans -> Plan!Files \cup {None}]
         /\ \A q \in Plans :
              /\ disk[q] = None => Plan!SuspendOld(f)[q] = None
              /\ disk[q] # None =>
                   /\ Plan!SuspendOld(f)[q] # None
                   /\ Plan!SuspendOld(f)[q].owner = disk[q].owner
                   /\ Plan!SuspendOld(f)[q].source = disk[q].source
                   /\ Plan!SuspendOld(f)[q].status = "in_progress" =>
                        disk[q].status = "in_progress" /\ q # f
<1>1. CASE f # None /\ disk[f].status = "in_progress"
  <2> DEFINE r == disk[f]
             w == [r EXCEPT !.status = "suspended", !.stamp = Plan!Now]
  <2>1. f \in Plans /\ r \in Plan!Files /\ disk[f] # None
    BY <1>1, FileIs DEF Plan!There
  <2>2. /\ w \in Plan!Files /\ w.owner = r.owner /\ w.source = r.source
        /\ w.status = "suspended" /\ w # None
    BY <2>1, PlansAre DEF Plan!Files, Plan!Statuses
  <2>3. Plan!SuspendOld(f) = [disk EXCEPT ![f] = w]
    BY <1>1 DEF Plan!SuspendOld
  <2> HIDE DEF w
  <2> QED
    BY <2>1, <2>2, <2>3 DEF PlanTyped
<1>2. CASE ~(f # None /\ disk[f].status = "in_progress")
  <2>1. Plan!SuspendOld(f) = disk
    BY <1>2 DEF Plan!SuspendOld
  <2>2. f = None => \A q \in Plans : q # f
    BY PlansAre
  <2> QED
    BY <1>2, <2>1, <2>2 DEF PlanTyped
<1> QED
  BY <1>1, <1>2

\* A row is written.
ActiveRow(db, s, v) == active' = [active EXCEPT ![db][s] = v]
TodosRow(db, s, v) == todos' = [todos EXCEPT ![db][s] = v]

LEMMA ActiveSet ==
  ASSUME PlanTyped, NEW db \in Plan!Dbs, NEW s \in Planners, NEW v \in Plans \cup {None},
         ActiveRow(db, s, v)
  PROVE  /\ active' \in [Plan!Dbs -> [Planners -> Plans \cup {None}]] /\ active'[db][s] = v
         /\ \A d \in Plan!Dbs, t \in Planners :
              d # db \/ t # s => active'[d][t] = active[d][t]
BY DEF PlanTyped, ActiveRow

LEMMA TodosSet ==
  ASSUME PlanTyped, NEW db \in Plan!Dbs, NEW s \in Planners, NEW v \in Plan!Lists,
         TodosRow(db, s, v)
  PROVE  todos' \in [Plan!Dbs -> [Planners -> Plan!Lists]]
BY DEF PlanTyped, TodosRow

\* Files keep their owners, and a plan that becomes active is the session's.
LEMMA OwnNext ==
  ASSUME OwnActive, ~crossed' => ~crossed,
         \A q \in Plans : ~crossed' /\ disk[q] # None =>
           disk'[q] # None /\ disk'[q].owner = disk[q].owner,
         \A t \in Planners, d \in Plan!Dbs :
           ~crossed' => active'[d][t] \in {active[d][t], None} \/ active'[d][t] \in Plan!OfSession(t)'
  PROVE  OwnActive'
<1> SUFFICES ASSUME ~crossed', NEW t \in Planners, NEW d \in Plan!Dbs
             PROVE  active'[d][t] \in Plan!OfSession(t)' \cup {None}
  BY DEF OwnActive
<1>1. active[d][t] \in Plan!OfSession(t) \cup {None}
  BY DEF OwnActive
<1>2. active[d][t] \in Plan!OfSession(t) => active[d][t] \in Plan!OfSession(t)'
  BY DEF Plan!OfSession, Plan!There
<1> QED
  BY <1>1, <1>2

\* No plan begins.
LEMMA RunsRest ==
  ASSUME Plan!OneInProgress, ~aside' /\ ~crossed' => ~aside /\ ~crossed,
         \A q \in Plans : disk'[q] # None /\ disk'[q].status = "in_progress" =>
           /\ disk[q] # None /\ disk'[q].owner = disk[q].owner /\ disk[q].status = "in_progress",
         active'["catalog"] = active["catalog"]
  PROVE  Plan!OneInProgress'
<1> SUFFICES ASSUME ~aside', ~crossed', NEW t \in Planners, NEW q \in Plan!InProgress(t)'
             PROVE  q = active'["catalog"][t]
  BY DEF Plan!OneInProgress
<1>1. q \in Plan!InProgress(t)
  BY DEF Plan!InProgress, Plan!OfSession, Plan!There
<1> QED
  BY <1>1 DEF Plan!OneInProgress

\* The one in progress makes way for p, which the session owns.
LEMMA RunsChange ==
  ASSUME PartsAssumption, PlanTyped, Plan!OneInProgress, NEW s \in Planners, NEW p \in Plans,
         ~aside' /\ ~crossed' => ~aside /\ ~crossed,
         \A q \in Plans \ {p} : disk'[q] # None /\ disk'[q].status = "in_progress" =>
           /\ disk[q] # None /\ disk'[q].owner = disk[q].owner /\ disk[q].status = "in_progress"
           /\ q # Plan!Find(s, None, "catalog"),
         ~crossed' => disk'[p].owner = s, active'["catalog"][s] = p,
         \A t \in Planners \ {s} : active'["catalog"][t] = active["catalog"][t]
  PROVE  Plan!OneInProgress'
<1> SUFFICES ASSUME ~aside', ~crossed', NEW t \in Planners, NEW q \in Plan!InProgress(t)'
             PROVE  q = active'["catalog"][t]
  BY DEF Plan!OneInProgress
<1>1. q \in Plans /\ disk'[q] # None /\ disk'[q].status = "in_progress" /\ disk'[q].owner = t
  BY DEF Plan!InProgress, Plan!OfSession, Plan!There
<1>2. CASE q = p
  BY <1>1, <1>2
<1>3. CASE q # p
  <2>1. q \in Plan!InProgress(t) /\ q # Plan!Find(s, None, "catalog")
    BY <1>1, <1>3 DEF Plan!InProgress, Plan!OfSession, Plan!There
  <2>2. q = active["catalog"][t] /\ t # s
    BY <2>1, FindRunning
  <2> QED
    BY <2>2
<1> QED
  BY <1>2, <1>3

LEMMA CreateNext ==
  ASSUME PartsAssumption, PlanInv, NEW s \in Planners, NEW p \in Plans, NEW msg \in 1..MaxClock,
         Plan!Create(s, p, msg)
  PROVE  PlanInv'
<1>1. /\ PlanTyped /\ LogsOK /\ AgentsOwn /\ OwnActive /\ Plan!OneInProgress
      /\ Plan!MayUse(s, msg) /\ Plan!Record(s, "create", p, "none", msg)
      /\ running' = running /\ aside' = aside /\ crossed' = (crossed \/ Plan!Alien(s, p))
  BY DEF PlanInv, Plan!Create
<1>2. /\ clock \in Nat /\ clock' = clock + 1 /\ clock' \in 0..MaxClock /\ Plan!Now = clock'
  BY <1>1, TickIs DEF Plan!MayUse
<1>3. /\ log' \in [Planners -> Seq(Plan!Entries)] /\ LogsOK' /\ UserKept /\ AgentNew
      /\ msg = clock + 1 \/ ByAgent(msg)
  BY <1>1, RecordIs DEF Plan!Lists
<1> DEFINE f == Plan!Find(s, None, "catalog")
           d == Plan!SuspendOld(f)
           r == [owner |-> s, status |-> "in_progress", steps |-> "open",
                 source |-> [msg |-> msg, event |-> Plan!Now], stamp |-> Plan!Now]
<1>4. /\ d \in [Plans -> Plan!Files \cup {None}]
      /\ \A q \in Plans :
           /\ disk[q] = None => d[q] = None
           /\ disk[q] # None =>
                /\ d[q] # None /\ d[q].owner = disk[q].owner /\ d[q].source = disk[q].source
                /\ d[q].status = "in_progress" => disk[q].status = "in_progress" /\ q # f
  <2>1. f \in Plan!There \cup {None}
    BY <1>1, FindIs
  <2> QED
    BY <1>1, <1>2, <2>1, SuspendIs
<1>5. r \in Plan!Files /\ r # None /\ r.owner = s /\ r.source.msg = msg
  BY <1>2, PlansAre DEF Plan!Files, Plan!Sources, Plan!Statuses
<1>6. disk' = [d EXCEPT ![p] = r]
  BY DEF Plan!Create
<1> HIDE DEF d, r, f
<1>7. /\ disk' \in [Plans -> Plan!Files \cup {None}] /\ disk'[p] = r
      /\ \A q \in Plans \ {p} : disk'[q] = d[q]
  BY <1>4, <1>5, <1>6
<1>8. /\ active' \in [Plan!Dbs -> [Planners -> Plans \cup {None}]] /\ active'["catalog"][s] = p
      /\ \A e \in Plan!Dbs, t \in Planners :
           e # "catalog" \/ t # s => active'[e][t] = active[e][t]
  <2>1. ActiveRow("catalog", s, p) /\ p \in Plans \cup {None}
    BY DEF Plan!Create, ActiveRow
  <2> QED
    BY <1>1, <2>1, ActiveSet DEF Plan!Dbs
<1>9. todos' \in [Plan!Dbs -> [Planners -> Plan!Lists]]
  <2>1. TodosRow("catalog", s, "open")
    BY DEF Plan!Create, TodosRow
  <2> QED
    BY <1>1, <2>1, TodosSet DEF Plan!Dbs, Plan!Lists
<1>10. PlanTyped'
  BY <1>1, <1>2, <1>3, <1>7, <1>8, <1>9 DEF PlanTyped
<1>11. SourceNew
  BY <1>3, <1>4, <1>5, <1>7 DEF SourceNew, ByAgent
<1>12. AgentsOwn'
  BY <1>1, <1>2, <1>3, <1>11, AgentsGrow
<1>13. ~crossed' => ~crossed /\ (disk[p] # None => disk[p].owner = s)
  BY <1>1 DEF Plan!Alien, Plan!There
<1>14. OwnActive'
  <2>1. \A q \in Plans : ~crossed' /\ disk[q] # None =>
           disk'[q] # None /\ disk'[q].owner = disk[q].owner
    BY <1>4, <1>5, <1>7, <1>13
  <2>2. p \in Plan!OfSession(s)'
    BY <1>5, <1>7 DEF Plan!OfSession, Plan!There
  <2>3. \A t \in Planners, e \in Plan!Dbs :
           active'[e][t] \in {active[e][t], None} \/ active'[e][t] \in Plan!OfSession(t)'
    BY <1>8, <2>2
  <2> QED
    BY <1>1, <1>13, <2>1, <2>3, OwnNext
<1>15. Plan!OneInProgress'
  <2>1. \A q \in Plans \ {p} : disk'[q] # None /\ disk'[q].status = "in_progress" =>
           /\ disk[q] # None /\ disk'[q].owner = disk[q].owner /\ disk[q].status = "in_progress"
           /\ q # Plan!Find(s, None, "catalog")
    BY <1>4, <1>7 DEF f
  <2>2. disk'[p].owner = s
    BY <1>5, <1>7
  <2>3. \A t \in Planners \ {s} : active'["catalog"][t] = active["catalog"][t]
    BY <1>8 DEF Plan!Dbs
  <2> QED
    BY <1>1, <1>8, <1>13, <2>1, <2>2, <2>3, RunsChange
<1> QED
  BY <1>3, <1>10, <1>12, <1>14, <1>15 DEF PlanInv

LEMMA UpdateNext ==
  ASSUME PartsAssumption, PlanInv, NEW s \in Planners, NEW named \in Plans \cup {None},
         NEW status \in Plan!Statuses \cup {None}, NEW msg \in 1..MaxClock,
         Plan!Update(s, named, status, msg)
  PROVE  PlanInv'
<1> DEFINE p == Plan!Find(s, named, "catalog")
           r == disk[p]
           steps == IF status \in {"completed", None} THEN "done" ELSE r.steps
           st == IF status = None THEN r.status ELSE status
           source == Plan!FirstSource(r.source, msg)
           w == Plan!Written(p, st, steps, source)
<1>1. /\ PlanTyped /\ LogsOK /\ AgentsOwn /\ OwnActive /\ Plan!OneInProgress
      /\ Plan!MayUse(s, msg) /\ Plan!Record(s, "update", named, "none", msg)
      /\ running' = running /\ crossed' = (crossed \/ Plan!Alien(s, p))
      /\ aside' = (aside \/ status \notin {None, "completed"} \/ named # None)
      /\ p # None
      /\ active' = IF status = "completed" THEN [active EXCEPT !["catalog"][s] = None] ELSE active
      /\ todos' = [todos EXCEPT !["catalog"][s] = steps]
  BY DEF PlanInv, Plan!Update
<1>2. /\ clock \in Nat /\ clock' = clock + 1 /\ clock' \in 0..MaxClock /\ Plan!Now = clock'
  BY <1>1, TickIs DEF Plan!MayUse
<1>3. /\ log' \in [Planners -> Seq(Plan!Entries)] /\ LogsOK' /\ UserKept /\ AgentNew
      /\ msg = clock + 1 \/ ByAgent(msg)
  BY <1>1, RecordIs DEF Plan!Lists
<1>4. p \in Plan!There /\ p \in Plans /\ r \in Plan!Files /\ r # None
  <2>1. p \in Plan!There
    BY <1>1, FindIs
  <2> QED
    BY <1>1, <2>1, FileIs, PlansAre
<1>5. /\ st \in Plan!Statuses /\ steps \in {"open", "done"} /\ source \in Plan!Sources
      /\ source.msg = r.source.msg \/ source.msg = msg
  <2>1. r.status \in Plan!Statuses /\ r.steps \in {"open", "done"} /\ r.source \in Plan!Sources
    BY <1>4 DEF Plan!Files
  <2>2. msg \in 0..MaxClock
    OBVIOUS
  <2> QED
    BY <1>2, <2>1, <2>2 DEF Plan!FirstSource, Plan!Sources
<1>6. disk' = [disk EXCEPT ![p] = w]
  BY DEF Plan!Update
<1>7. /\ w \in Plan!Files /\ w # None /\ w.owner = r.owner
      /\ w.source = source /\ w.status = st
  BY <1>1, <1>2, <1>4, <1>5, FileWritten
<1> HIDE DEF w, source, steps, p
<1>8. /\ disk' \in [Plans -> Plan!Files \cup {None}] /\ disk'[p] = w
      /\ \A q \in Plans \ {p} : disk'[q] = disk[q]
  BY <1>1, <1>4, <1>6, <1>7 DEF PlanTyped
<1>9. /\ active' \in [Plan!Dbs -> [Planners -> Plans \cup {None}]]
      /\ \A e \in Plan!Dbs, t \in Planners : active'[e][t] \in {active[e][t], None}
      /\ status # "completed" => active' = active
      /\ \A t \in Planners \ {s} : active'["catalog"][t] = active["catalog"][t]
  <2>1. CASE status = "completed"
    <3>1. ActiveRow("catalog", s, None)
      BY <1>1, <2>1 DEF ActiveRow
    <3> QED
      BY <1>1, <2>1, <3>1, ActiveSet DEF Plan!Dbs
  <2>2. CASE status # "completed"
    BY <1>1, <2>2 DEF PlanTyped
  <2> QED
    BY <2>1, <2>2
<1>10. todos' \in [Plan!Dbs -> [Planners -> Plan!Lists]]
  <2>1. TodosRow("catalog", s, steps)
    BY <1>1 DEF TodosRow
  <2> QED
    BY <1>1, <1>5, <2>1, TodosSet DEF Plan!Dbs, Plan!Lists
<1>11. PlanTyped'
  BY <1>1, <1>2, <1>3, <1>8, <1>9, <1>10 DEF PlanTyped
<1>12. SourceNew
  BY <1>3, <1>4, <1>5, <1>7, <1>8 DEF SourceNew, ByAgent
<1>13. AgentsOwn'
  BY <1>1, <1>2, <1>3, <1>12, AgentsGrow
<1>14. OwnActive'
  <2>1. \A q \in Plans : ~crossed' /\ disk[q] # None =>
           disk'[q] # None /\ disk'[q].owner = disk[q].owner
    BY <1>7, <1>8
  <2> QED
    BY <1>1, <1>9, <2>1, OwnNext
<1>15. Plan!OneInProgress'
  <2> SUFFICES ASSUME ~aside', ~crossed', NEW t \in Planners, NEW q \in Plan!InProgress(t)'
               PROVE  q = active'["catalog"][t]
    BY DEF Plan!OneInProgress
  <2>1. ~aside /\ ~crossed /\ named = None /\ status \in {None, "completed"} /\ r.owner = s
    BY <1>1, <1>4 DEF Plan!Alien
  <2>2. q \in Plans /\ disk'[q] # None /\ disk'[q].status = "in_progress" /\ disk'[q].owner = t
    BY DEF Plan!InProgress, Plan!OfSession, Plan!There
  <2>3. q \in Plan!InProgress(t) /\ (q = p => status = None)
    <3>1. CASE q = p
      BY <1>4, <1>7, <1>8, <2>1, <2>2, <3>1 DEF Plan!InProgress, Plan!OfSession
    <3>2. CASE q # p
      BY <1>8, <2>2, <3>2 DEF Plan!InProgress, Plan!OfSession, Plan!There
    <3> QED
      BY <3>1, <3>2
  <2>4. q = active["catalog"][t] /\ Plan!Find(t, None, "catalog") = q
    BY <1>1, <2>1, <2>3, FindRunning
  <2>5. CASE t = s
    <3>1. q = p /\ status # "completed"
      BY <2>1, <2>3, <2>4, <2>5, PlansAre DEF p, Plan!Statuses
    <3> QED
      BY <1>9, <2>4, <3>1
  <2>6. CASE t # s
    BY <1>9, <2>4, <2>6
  <2> QED
    BY <2>5, <2>6
<1> QED
  BY <1>3, <1>11, <1>13, <1>14, <1>15 DEF PlanInv

\* A switch, in either table: of the file, the row and the todos.
LEMMA SwitchIs ==
  ASSUME PartsAssumption, PlanTyped, OwnActive, NEW s \in Planners, NEW p \in Plans,
         NEW db \in Plan!Dbs, Plan!SwitchTo(s, p, db), Plan!Now \in 0..MaxClock, Plan!Now = clock + 1
  PROVE  /\ disk' \in [Plans -> Plan!Files \cup {None}]
         /\ active' \in [Plan!Dbs -> [Planners -> Plans \cup {None}]]
         /\ todos' \in [Plan!Dbs -> [Planners -> Plan!Lists]]
         /\ crossed' \in BOOLEAN /\ OwnActive' /\ SourceNew /\ (db = "own" => SourceKept)
         /\ ~crossed' => ~crossed /\ disk'[p].owner = s
         /\ active'[db][s] = p
         /\ \A t \in Planners \ {s} : active'[db][t] = active[db][t]
         /\ \A q \in Plans \ {p} : disk'[q] # None /\ disk'[q].status = "in_progress" =>
              /\ disk[q] # None /\ disk'[q].owner = disk[q].owner /\ disk[q].status = "in_progress"
              /\ q # Plan!Find(s, None, db)
<1> DEFINE old == Plan!Find(s, None, db)
           f == IF old = p THEN None ELSE old
           d == Plan!SuspendOld(f)
           source == IF db = "catalog" THEN Plan!FirstSource(disk[p].source, Plan!Now)
                     ELSE disk[p].source
           w == Plan!Written(p, "in_progress", disk[p].steps, source)
<1>1. /\ p \in Plan!There /\ crossed' = (crossed \/ Plan!Alien(s, p))
      /\ disk' = [d EXCEPT ![p] = w]
      /\ active' = [active EXCEPT ![db][s] = p]
      /\ todos' = [todos EXCEPT ![db][s] = disk[p].steps]
  BY DEF Plan!SwitchTo
<1>2. /\ d \in [Plans -> Plan!Files \cup {None}]
      /\ \A q \in Plans :
           /\ disk[q] = None => d[q] = None
           /\ disk[q] # None =>
                /\ d[q] # None /\ d[q].owner = disk[q].owner /\ d[q].source = disk[q].source
                /\ d[q].status = "in_progress" => disk[q].status = "in_progress" /\ q # f
  <2>1. f \in Plan!There \cup {None}
    BY FindIs
  <2> QED
    BY <2>1, SuspendIs
<1>3. p \in Plans /\ disk[p] \in Plan!Files /\ disk[p] # None
  BY <1>1, FileIs, PlansAre
<1> HIDE DEF d, f
<1>4. /\ source \in Plan!Sources /\ (source.msg = disk[p].source.msg \/ source.msg = clock + 1)
      /\ db = "own" => source = disk[p].source
  <2>1. disk[p].source \in Plan!Sources
    BY <1>1, FileParts
  <2> QED
    BY <2>1 DEF Plan!FirstSource, Plan!Sources
<1>5. w \in Plan!Files /\ w # None /\ w.owner = disk[p].owner /\ w.source = source
  <2>1. disk[p].steps \in {"open", "done"} /\ "in_progress" \in Plan!Statuses
    BY <1>1, FileParts DEF Plan!Statuses
  <2> QED
    BY <1>1, <1>4, <2>1, FileWritten
<1> HIDE DEF w, source
<1>6. /\ disk' \in [Plans -> Plan!Files \cup {None}] /\ disk'[p] = w
      /\ \A q \in Plans \ {p} : disk'[q] = d[q]
  BY <1>1, <1>2, <1>3, <1>5
<1>7. /\ active' \in [Plan!Dbs -> [Planners -> Plans \cup {None}]] /\ active'[db][s] = p
      /\ \A e \in Plan!Dbs, t \in Planners :
           e # db \/ t # s => active'[e][t] = active[e][t]
  <2>1. ActiveRow(db, s, p) /\ p \in Plans \cup {None}
    BY <1>1 DEF ActiveRow
  <2> QED
    BY <2>1, ActiveSet
<1>8. todos' \in [Plan!Dbs -> [Planners -> Plan!Lists]]
  <2>1. disk[p].steps \in Plan!Lists
    BY <1>3 DEF Plan!Files, Plan!Lists
  <2>2. TodosRow(db, s, disk[p].steps)
    BY <1>1 DEF TodosRow
  <2> QED
    BY <2>1, <2>2, TodosSet
<1>9. /\ crossed' \in BOOLEAN
      /\ ~crossed' => ~crossed /\ disk[p].owner = s
  BY <1>1 DEF PlanTyped, Plan!Alien
<1>10. SourceNew /\ (db = "own" => SourceKept)
  BY <1>2, <1>3, <1>4, <1>5, <1>6 DEF SourceNew, SourceKept, ByAgent
<1>11. OwnActive'
  <2>1. \A q \in Plans : ~crossed' /\ disk[q] # None =>
           disk'[q] # None /\ disk'[q].owner = disk[q].owner
    BY <1>2, <1>5, <1>6
  <2>2. ~crossed' => p \in Plan!OfSession(s)'
    BY <1>3, <1>5, <1>6, <1>9 DEF Plan!OfSession, Plan!There
  <2>3. \A t \in Planners, e \in Plan!Dbs :
           ~crossed' => active'[e][t] \in {active[e][t], None} \/ active'[e][t] \in Plan!OfSession(t)'
    BY <1>7, <2>2
  <2> QED
    BY <1>9, <2>1, <2>3, OwnNext
<1>12. \A q \in Plans \ {p} : disk'[q] # None /\ disk'[q].status = "in_progress" =>
         /\ disk[q] # None /\ disk'[q].owner = disk[q].owner /\ disk[q].status = "in_progress"
         /\ q # Plan!Find(s, None, db)
  <2>1. \A q \in Plans \ {p} : q # f => q # old
    BY DEF f
  <2> QED
    BY <1>2, <1>6, <2>1
<1> QED
  BY <1>5, <1>6, <1>7, <1>8, <1>9, <1>10, <1>11, <1>12

LEMMA SwitchNext ==
  ASSUME PartsAssumption, PlanInv, NEW s \in Planners, NEW p \in Plans, Plan!Switch(s, p)
  PROVE  PlanInv'
<1>1. /\ PlanTyped /\ LogsOK /\ AgentsOwn /\ OwnActive /\ Plan!OneInProgress
      /\ Plan!MayUse(s, Plan!Now) /\ Plan!Record(s, "switch", p, "none", Plan!Now)
      /\ running' = running /\ aside' = aside /\ Plan!SwitchTo(s, p, "catalog")
  BY DEF PlanInv, Plan!Switch
<1>2. /\ clock \in Nat /\ clock' = clock + 1 /\ clock' \in 0..MaxClock /\ Plan!Now = clock'
      /\ Plan!Now \in 1..MaxClock
  <2>1. clock \in Nat /\ clock' = clock + 1 /\ clock' \in 0..MaxClock /\ Plan!Now = clock'
    BY <1>1, TickIs DEF Plan!MayUse
  <2> QED
    BY <2>1
<1>3. log' \in [Planners -> Seq(Plan!Entries)] /\ LogsOK' /\ UserKept /\ AgentNew
  BY <1>1, <1>2, RecordIs DEF Plan!Lists
<1>4. /\ disk' \in [Plans -> Plan!Files \cup {None}]
      /\ active' \in [Plan!Dbs -> [Planners -> Plans \cup {None}]]
      /\ todos' \in [Plan!Dbs -> [Planners -> Plan!Lists]]
      /\ crossed' \in BOOLEAN /\ OwnActive' /\ SourceNew
      /\ ~crossed' => ~crossed /\ disk'[p].owner = s
      /\ active'["catalog"][s] = p
      /\ \A t \in Planners \ {s} : active'["catalog"][t] = active["catalog"][t]
      /\ \A q \in Plans \ {p} : disk'[q] # None /\ disk'[q].status = "in_progress" =>
           /\ disk[q] # None /\ disk'[q].owner = disk[q].owner /\ disk[q].status = "in_progress"
           /\ q # Plan!Find(s, None, "catalog")
  BY <1>1, <1>2, SwitchIs DEF Plan!Dbs
<1>5. PlanTyped'
  BY <1>1, <1>2, <1>3, <1>4 DEF PlanTyped
<1>6. AgentsOwn'
  BY <1>1, <1>2, <1>3, <1>4, AgentsGrow
<1>7. Plan!OneInProgress'
  BY <1>1, <1>4, RunsChange
<1> QED
  BY <1>3, <1>4, <1>5, <1>6, <1>7 DEF PlanInv

\* Where no file is written, and no row of an active plan.
LEMMA FilesRest ==
  ASSUME PlanTyped, OwnActive, Plan!OneInProgress,
         disk' = disk, active' = active, crossed' = crossed, aside' = aside
  PROVE  SourceKept /\ SourceNew /\ OwnActive' /\ Plan!OneInProgress'
<1>1. SourceKept /\ SourceNew
  BY DEF SourceKept, SourceNew, ByAgent
<1>2. OwnActive'
  BY OwnNext
<1>3. Plan!OneInProgress'
  BY RunsRest
<1> QED
  BY <1>1, <1>2, <1>3

LEMMA SwitchByUserNext ==
  ASSUME PartsAssumption, PlanInv, NEW s \in Planners, NEW p \in Plans, Plan!SwitchByUser(s, p)
  PROVE  PlanInv'
<1>1. /\ PlanTyped /\ LogsOK /\ AgentsOwn /\ OwnActive /\ Plan!Tick(s)
      /\ running' = running /\ log' = log /\ aside' = TRUE /\ Plan!SwitchTo(s, p, "own")
  BY DEF PlanInv, Plan!SwitchByUser
<1>2. clock \in Nat /\ clock' = clock + 1 /\ clock' \in 0..MaxClock /\ Plan!Now = clock'
  BY <1>1, TickIs
<1>3. log' \in [Planners -> Seq(Plan!Entries)] /\ LogsOK' /\ UserKept /\ AgentKept
  BY <1>1, <1>2, LogsRest
<1>4. /\ disk' \in [Plans -> Plan!Files \cup {None}]
      /\ active' \in [Plan!Dbs -> [Planners -> Plans \cup {None}]]
      /\ todos' \in [Plan!Dbs -> [Planners -> Plan!Lists]]
      /\ crossed' \in BOOLEAN /\ OwnActive' /\ SourceKept
  BY <1>1, <1>2, SwitchIs DEF Plan!Dbs
<1>5. PlanTyped'
  BY <1>1, <1>2, <1>3, <1>4 DEF PlanTyped
<1>6. AgentsOwn'
  BY <1>1, <1>2, <1>3, <1>4, AgentsKept
<1>7. Plan!OneInProgress'
  BY <1>1 DEF Plan!OneInProgress
<1> QED
  BY <1>3, <1>4, <1>5, <1>6, <1>7 DEF PlanInv

LEMMA StepByUserNext ==
  ASSUME PartsAssumption, PlanInv, NEW s \in Planners, NEW named \in Plans \cup {None},
         NEW steps \in {"open", "done"}, Plan!StepByUser(s, named, steps)
  PROVE  PlanInv'
<1> DEFINE p == Plan!Find(s, named, "own")
           w == Plan!Written(p, disk[p].status, steps, disk[p].source)
<1>1. /\ PlanTyped /\ LogsOK /\ AgentsOwn /\ OwnActive /\ Plan!OneInProgress /\ Plan!Tick(s)
      /\ running' = running /\ log' = log /\ aside' = aside /\ crossed' = crossed
      /\ active' = active /\ p # None /\ disk' = [disk EXCEPT ![p] = w]
      /\ todos' = IF disk[p].owner = s THEN [todos EXCEPT !["own"][s] = steps] ELSE todos
  BY DEF PlanInv, Plan!StepByUser
<1>2. clock \in Nat /\ clock' = clock + 1 /\ clock' \in 0..MaxClock /\ Plan!Now = clock'
  BY <1>1, TickIs
<1>3. log' \in [Planners -> Seq(Plan!Entries)] /\ LogsOK' /\ UserKept /\ AgentKept
  BY <1>1, <1>2, LogsRest
<1>4. p \in Plan!There /\ p \in Plans /\ disk[p] # None
  <2>1. p \in Plan!There
    BY <1>1, FindIs
  <2> QED
    BY <2>1 DEF Plan!There
<1>5. /\ w \in Plan!Files /\ w # None /\ w.owner = disk[p].owner /\ w.source = disk[p].source
      /\ w.status = disk[p].status
  <2>1. disk[p].status \in Plan!Statuses /\ disk[p].source \in Plan!Sources
    BY <1>1, <1>4, FileParts
  <2> QED
    BY <1>1, <1>2, <1>4, <2>1, FileWritten
<1>6. todos' \in [Plan!Dbs -> [Planners -> Plan!Lists]]
  <2>1. CASE disk[p].owner = s
    <3>1. TodosRow("own", s, steps)
      BY <1>1, <2>1 DEF TodosRow
    <3> QED
      BY <1>1, <3>1, TodosSet DEF Plan!Dbs, Plan!Lists
  <2>2. CASE disk[p].owner # s
    BY <1>1, <2>2 DEF PlanTyped
  <2> QED
    BY <2>1, <2>2
<1> HIDE DEF w, p
<1>7. /\ disk' \in [Plans -> Plan!Files \cup {None}] /\ disk'[p] = w
      /\ \A q \in Plans \ {p} : disk'[q] = disk[q]
  BY <1>1, <1>4, <1>5 DEF PlanTyped
<1>8. PlanTyped'
  BY <1>1, <1>2, <1>3, <1>6, <1>7 DEF PlanTyped
<1>9. SourceKept
  BY <1>4, <1>5, <1>7 DEF SourceKept, ByAgent
<1>10. AgentsOwn'
  BY <1>1, <1>2, <1>3, <1>9, AgentsKept
<1>11. OwnActive'
  BY <1>1, <1>4, <1>5, <1>7, OwnNext
<1>12. Plan!OneInProgress'
  BY <1>1, <1>4, <1>5, <1>7, RunsRest
<1> QED
  BY <1>3, <1>8, <1>10, <1>11, <1>12 DEF PlanInv

LEMMA TodoNext ==
  ASSUME PartsAssumption, PlanInv, NEW s \in Planners, NEW items \in {"open", "done"},
         NEW msg \in 1..MaxClock, Plan!Todo(s, items, msg)
  PROVE  PlanInv'
<1>1. /\ PlanTyped /\ LogsOK /\ AgentsOwn /\ OwnActive /\ Plan!OneInProgress
      /\ Plan!MayUse(s, msg) /\ Plan!Record(s, "todo", None, items, msg)
      /\ todos' = [todos EXCEPT !["own"][s] = items] /\ items \in Plan!Lists
      /\ UNCHANGED <<disk, active, running, crossed, aside>>
  BY DEF PlanInv, Plan!Todo, Plan!Lists
<1>2. clock \in Nat /\ clock' = clock + 1 /\ clock' \in 0..MaxClock
  BY <1>1, TickIs DEF Plan!MayUse
<1>3. log' \in [Planners -> Seq(Plan!Entries)] /\ LogsOK' /\ UserKept /\ AgentNew
  BY <1>1, RecordIs
<1>4. todos' \in [Plan!Dbs -> [Planners -> Plan!Lists]]
  <2>1. TodosRow("own", s, items)
    BY <1>1 DEF TodosRow
  <2> QED
    BY <1>1, <2>1, TodosSet DEF Plan!Dbs
<1>5. SourceNew /\ OwnActive' /\ Plan!OneInProgress'
  BY <1>1, FilesRest
<1>6. PlanTyped'
  BY <1>1, <1>2, <1>3, <1>4 DEF PlanTyped
<1>7. AgentsOwn'
  BY <1>1, <1>2, <1>3, <1>5, AgentsGrow
<1> QED
  BY <1>3, <1>5, <1>6, <1>7 DEF PlanInv

\* A message of the user goes to the end of what is kept.
LEMMA UserMessageNext ==
  ASSUME PartsAssumption, PlanInv, NEW s \in Planners, Plan!UserMessage(s)
  PROVE  PlanInv'
<1> DEFINE e == Plan!Kept(s)
           x == Plan!Entry("user", None, "none", clock + 1, clock + 1)
           f == Append(e, x)
<1>1. /\ PlanTyped /\ LogsOK /\ AgentsOwn /\ OwnActive /\ Plan!OneInProgress /\ Plan!Tick(s)
      /\ running' = running \cup {s}
      /\ UNCHANGED <<disk, active, todos, crossed, aside>>
  BY DEF PlanInv, Plan!UserMessage
<1>2. clock \in Nat /\ clock' = clock + 1 /\ clock' \in 0..MaxClock /\ Plan!Now = clock'
  BY <1>1, TickIs
<1>3. log' = [log EXCEPT ![s] = f]
  BY <1>2 DEF Plan!UserMessage
<1>4. /\ x \in Plan!Entries /\ x.tool = "user" /\ x.id = clock + 1 /\ x.msg = clock + 1
  BY <1>2 DEF Plan!Entry, Plan!Entries, Plan!Lists
<1>5. /\ e \in Seq(Plan!Entries) /\ LogOK(e, clock) /\ DOMAIN e \subseteq DOMAIN log[s]
      /\ \A i \in DOMAIN e : e[i] = log[s][i]
  BY <1>1, KeptIs, KeptOK
<1> HIDE DEF e, x
<1>6. /\ f \in Seq(Plan!Entries) /\ f # <<>> /\ DOMAIN f = 1 .. Len(e) + 1 /\ f[Len(e) + 1] = x
      /\ \A i \in 1 .. Len(e) : f[i] = e[i]
      /\ DOMAIN e = 1 .. Len(e) /\ Len(e) \in Nat
  BY <1>4, <1>5, AppendProperties, LenProperties
<1>7. LogOK(f, clock + 1)
  BY <1>2, <1>4, <1>5, LogAppend
<1> HIDE DEF f
<1>8. /\ log' \in [Planners -> Seq(Plan!Entries)] /\ log'[s] = f
      /\ \A t \in Planners \ {s} : log'[t] = log[t]
  BY <1>1, <1>3, <1>6 DEF PlanTyped
<1>9. LogsOK'
  <2>1. ASSUME NEW t \in Planners PROVE LogOK(log'[t], clock')
    BY <1>1, <1>2, <1>7, <1>8, LogLater DEF LogsOK
  <2>2. ASSUME NEW t \in Planners, t \in running' PROVE log'[t] # <<>>
    BY <1>1, <1>6, <1>8, <2>2 DEF LogsOK
  <2> QED
    BY <2>1, <2>2 DEF LogsOK
<1>10. ASSUME NEW t \in Planners, NEW i \in DOMAIN log'[t]
       PROVE  /\ log'[t][i].tool = "user" =>
                   ByUser(log'[t][i].msg) \/ log'[t][i].msg = clock + 1
              /\ log'[t][i].tool # "user" => ByAgent(log'[t][i].msg)
  <2>1. CASE t = s /\ i = Len(e) + 1
    BY <1>4, <1>6, <1>8, <2>1
  <2>2. CASE ~(t = s /\ i = Len(e) + 1)
    <3>1. i \in DOMAIN log[t] /\ log'[t][i] = log[t][i]
      <4>1. CASE t = s
        <5>1. i \in 1 .. Len(e)
          BY <1>6, <1>8, <1>10, <2>2, <4>1
        <5> QED
          BY <1>5, <1>6, <1>8, <4>1, <5>1
      <4>2. CASE t # s
        BY <1>8, <1>10, <4>2
      <4> QED
        BY <4>1, <4>2
    <3> QED
      BY <3>1 DEF ByUser, ByAgent
  <2> QED
    BY <2>1, <2>2
<1>11. AgentKept
  BY <1>10 DEF AgentKept
<1>12. SourceKept /\ OwnActive' /\ Plan!OneInProgress'
  BY <1>1, FilesRest
<1>13. AgentsOwn'
  BY <1>1, <1>2, <1>10, <1>11, <1>12, UsersGrow
<1>14. PlanTyped'
  BY <1>1, <1>2, <1>8 DEF PlanTyped
<1> QED
  BY <1>9, <1>12, <1>13, <1>14 DEF PlanInv

\* The last todo event of a log is written.
LEMMA ListWritten ==
  ASSUME NEW e \in Seq(Plan!Entries), NEW i
  PROVE  LET f == [e EXCEPT ![i].items = "done"]
         IN  /\ f \in Seq(Plan!Entries) /\ DOMAIN f = DOMAIN e
             /\ \A j \in DOMAIN f : /\ f[j].id = e[j].id /\ f[j].msg = e[j].msg
                                    /\ f[j].tool = e[j].tool
<1> DEFINE f == [e EXCEPT ![i].items = "done"]
           g == [j \in 1 .. Len(e) |-> IF j = i THEN [e[j] EXCEPT !.items = "done"] ELSE e[j]]
<1>1. Len(e) \in Nat /\ DOMAIN e = 1 .. Len(e) /\ \A j \in DOMAIN e : e[j] \in Plan!Entries
  BY ElementOfSeq, LenProperties
<1>2. \A j \in 1 .. Len(e) : g[j] \in Plan!Entries
  BY <1>1 DEF Plan!Entries, Plan!Lists
<1>3. g \in Seq(Plan!Entries)
  BY <1>1, <1>2, IsASeq
<1>4. f = g
  BY <1>1
<1>5. \A j \in DOMAIN g : g[j].id = e[j].id /\ g[j].msg = e[j].msg /\ g[j].tool = e[j].tool
  BY <1>1 DEF Plan!Entries
<1> QED
  BY <1>1, <1>3, <1>4, <1>5

LEMMA FinishTurnNext ==
  ASSUME PartsAssumption, PlanInv, NEW s \in Planners, Plan!FinishTurn(s)
  PROVE  PlanInv'
<1> DEFINE last == Plan!MostRecent(log[s], {"todo"})
           some == Plan!LastIn(log[s], {"todo"}) # {}
           list == IF todos["own"][s] = "none" /\ some THEN log[s][last].items ELSE todos["own"][s]
           p == Plan!Find(s, None, "own")
           f == [log[s] EXCEPT ![last].items = "done"]
           w == [disk[p] EXCEPT !.status = "completed"]
           ends == p # None /\ disk[p].status = "in_progress" /\ disk[p].steps = "done"
<1>1. /\ PlanTyped /\ LogsOK /\ AgentsOwn /\ OwnActive /\ Plan!OneInProgress
      /\ s \in running /\ running' = running \ {s}
      /\ todos' = IF list = "open" THEN [todos EXCEPT !["own"][s] = "done"] ELSE todos
      /\ log' = IF list = "open" /\ some THEN [log EXCEPT ![s] = f] ELSE log
      /\ disk' = IF ends THEN [disk EXCEPT ![p] = w] ELSE disk
      /\ UNCHANGED <<active, clock, crossed, aside>>
  BY DEF PlanInv, Plan!FinishTurn
<1>2. /\ f \in Seq(Plan!Entries) /\ DOMAIN f = DOMAIN log[s]
      /\ \A j \in DOMAIN f : /\ f[j].id = log[s][j].id /\ f[j].msg = log[s][j].msg
                             /\ f[j].tool = log[s][j].tool
  <2>1. log[s] \in Seq(Plan!Entries)
    BY <1>1 DEF PlanTyped
  <2> HIDE DEF last
  <2> QED
    BY <2>1, ListWritten
<1> HIDE DEF f, list, some
<1>3. log' \in [Planners -> Seq(Plan!Entries)] /\ LogsOK' /\ UserKept /\ AgentKept
  <2>1. CASE list = "open" /\ some
    <3>1. log' = [log EXCEPT ![s] = f] /\ \A t \in running' : t \in running /\ t # s
      BY <1>1, <2>1
    <3> QED
      BY <1>1, <1>2, <3>1, LogsLess
  <2>2. CASE ~(list = "open" /\ some)
    <3>1. log' = log /\ running' \subseteq running /\ clock' = clock
      BY <1>1, <2>2
    <3> QED
      BY <1>1, <3>1, LogsRest
  <2> QED
    BY <2>1, <2>2
<1>4. todos' \in [Plan!Dbs -> [Planners -> Plan!Lists]]
  <2>1. CASE list = "open"
    <3>1. TodosRow("own", s, "done")
      BY <1>1, <2>1 DEF TodosRow
    <3> QED
      BY <1>1, <3>1, TodosSet DEF Plan!Dbs, Plan!Lists
  <2>2. CASE list # "open"
    BY <1>1, <2>2 DEF PlanTyped
  <2> QED
    BY <2>1, <2>2
<1>5. p # None => p \in Plan!There /\ p \in Plans /\ disk[p] # None /\ disk[p] \in Plan!Files
  <2>1. p \in Plan!There \cup {None}
    BY <1>1, FindIs
  <2> QED
    BY <1>1, <2>1, FileIs DEF Plan!There
<1>6. p # None => /\ w \in Plan!Files /\ w # None /\ w.owner = disk[p].owner
                  /\ w.source = disk[p].source /\ w.status = "completed"
  BY <1>5, PlansAre DEF Plan!Files, Plan!Statuses
<1> HIDE DEF w, p
<1>7. /\ disk' \in [Plans -> Plan!Files \cup {None}]
      /\ \A q \in Plans :
           /\ disk'[q] = None <=> disk[q] = None
           /\ disk[q] # None => /\ disk'[q].owner = disk[q].owner
                                /\ disk'[q].source = disk[q].source
                                /\ disk'[q].status \in {disk[q].status, "completed"}
  <2>1. CASE ends
    <3>1. /\ disk' \in [Plans -> Plan!Files \cup {None}] /\ disk'[p] = w
          /\ \A q \in Plans \ {p} : disk'[q] = disk[q]
      BY <1>1, <1>5, <1>6, <2>1 DEF PlanTyped
    <3> QED
      BY <1>5, <1>6, <2>1, <3>1
  <2>2. CASE ~ends
    BY <1>1, <2>2 DEF PlanTyped
  <2> QED
    BY <2>1, <2>2
<1>8. PlanTyped'
  BY <1>1, <1>3, <1>4, <1>7 DEF PlanTyped
<1>9. SourceKept
  BY <1>7 DEF SourceKept, ByAgent
<1>10. AgentsOwn'
  <2>1. clock \in Nat
    BY <1>1 DEF PlanTyped
  <2> QED
    BY <1>1, <1>3, <1>9, <2>1, AgentsKept
<1>11. OwnActive'
  BY <1>1, <1>7, OwnNext
<1>12. Plan!OneInProgress'
  <2>1. \A q \in Plans : disk'[q] # None /\ disk'[q].status = "in_progress" =>
          /\ disk[q] # None /\ disk'[q].owner = disk[q].owner /\ disk[q].status = "in_progress"
    BY <1>7
  <2> QED
    BY <1>1, <2>1, RunsRest
<1> QED
  BY <1>3, <1>8, <1>10, <1>11, <1>12 DEF PlanInv

LEMMA StopTurnNext ==
  ASSUME PlanInv, NEW s \in Planners, Plan!StopTurn(s)
  PROVE  PlanInv'
<1>1. /\ PlanTyped /\ LogsOK /\ AgentsOwn /\ OwnActive /\ Plan!OneInProgress
      /\ running' = running \ {s} /\ UNCHANGED <<disk, active, todos, log, clock, crossed, aside>>
  BY DEF PlanInv, Plan!StopTurn
<1>2. log' \in [Planners -> Seq(Plan!Entries)] /\ LogsOK' /\ UserKept /\ AgentKept
  BY <1>1, LogsRest
<1>3. SourceKept /\ OwnActive' /\ Plan!OneInProgress'
  BY <1>1, FilesRest
<1>4. PlanTyped'
  BY <1>1 DEF PlanTyped
<1>5. AgentsOwn'
  <2>1. clock \in Nat
    BY <1>1 DEF PlanTyped
  <2> QED
    BY <1>1, <1>2, <1>3, <2>1, AgentsKept
<1> QED
  BY <1>2, <1>3, <1>4, <1>5 DEF PlanInv

LEMMA ReadTodosNext ==
  ASSUME PartsAssumption, PlanInv, NEW s \in Planners, Plan!ReadTodos(s)
  PROVE  PlanInv'
<1> DEFINE p == Plan!Find(s, None, "catalog")
           healed == IF todos["catalog"][s] = "open" /\ s \notin running
                     THEN "done" ELSE todos["catalog"][s]
           list == IF p # None /\ disk[p].status = "in_progress" THEN disk[p].steps ELSE healed
<1>1. /\ PlanTyped /\ LogsOK /\ AgentsOwn /\ OwnActive /\ Plan!OneInProgress /\ Plan!Tick(s)
      /\ todos' = [todos EXCEPT !["catalog"][s] = list]
      /\ UNCHANGED <<disk, active, log, running, crossed, aside>>
  BY DEF PlanInv, Plan!ReadTodos
<1>2. clock \in Nat /\ clock' = clock + 1 /\ clock' \in 0..MaxClock
  BY <1>1, TickIs
<1>3. list \in Plan!Lists
  <2>1. p # None => disk[p].steps \in {"open", "done"}
    <3>1. p \in Plan!There \cup {None}
      BY <1>1, FindIs
    <3> QED
      BY <1>1, <3>1, FileParts
  <2>2. healed \in Plan!Lists
    BY <1>1 DEF PlanTyped, Plan!Lists, Plan!Dbs
  <2> HIDE DEF p, healed
  <2> QED
    BY <2>1, <2>2 DEF Plan!Lists
<1> HIDE DEF list
<1>4. todos' \in [Plan!Dbs -> [Planners -> Plan!Lists]]
  <2>1. TodosRow("catalog", s, list)
    BY <1>1 DEF TodosRow
  <2> QED
    BY <1>1, <1>3, <2>1, TodosSet DEF Plan!Dbs
<1>5. log' \in [Planners -> Seq(Plan!Entries)] /\ LogsOK' /\ UserKept /\ AgentKept
  BY <1>1, <1>2, LogsRest
<1>6. SourceKept /\ OwnActive' /\ Plan!OneInProgress'
  BY <1>1, FilesRest
<1>7. PlanTyped'
  BY <1>1, <1>2, <1>4 DEF PlanTyped
<1>8. AgentsOwn'
  BY <1>1, <1>2, <1>5, <1>6, AgentsKept
<1> QED
  BY <1>5, <1>6, <1>7, <1>8 DEF PlanInv

\* A set of one has its element.
LEMMA OnlyIs ==
  ASSUME NEW S, Plan!One(S)
  PROVE  Plan!Only(S) \in S
<1>1. PICK p \in S : S = {p}
  BY DEF Plan!One
<1> QED
  BY <1>1 DEF Plan!Only

LEMMA LatestOf ==
  ASSUME NEW n \in Nat, NEW T, T \subseteq 1 .. n, T # {}
  PROVE  (CHOOSE i \in T : \A j \in T : j <= i) \in T
<1> DEFINE U == {n - i : i \in T}
<1>1. U \subseteq Nat /\ U # {}
  <2>1. \A i \in T : n - i \in Nat
    OBVIOUS
  <2> QED
    BY <2>1
<1>2. PICK x \in U : \A y \in U : x <= y
  BY <1>1, LeastIs
<1>3. PICK i \in T : x = n - i
  BY <1>2
<1>4. \A j \in T : j <= i
  <2> TAKE j \in T
  <2>1. n - i <= n - j
    BY <1>2, <1>3
  <2> QED
    BY <1>3, <2>1
<1> QED
  BY <1>4

\* The plan a revert goes back to is the session's.
LEMMA ResolvedIs ==
  ASSUME PartsAssumption, PlanTyped, NEW s \in Planners, NEW entries
  PROVE  Plan!Resolved(s, entries) \in Plan!OfSession(s) \cup {None}
<1>1. ASSUME NEW e PROVE Plan!Fact(s, e) \in Plan!OfSession(s) \cup {None}
  <2> DEFINE byEvent == {q \in Plan!OfSession(s) : disk[q].source.event = e.id}
             byMsg == {q \in Plan!OfSession(s) : disk[q].source.msg = e.msg}
  <2>1. Plan!One(byEvent) => Plan!Only(byEvent) \in byEvent
    BY OnlyIs
  <2>2. Plan!One(byMsg) => Plan!Only(byMsg) \in byMsg
    BY OnlyIs
  <2>3. /\ Plan!One(byEvent) => Plan!Only(byEvent) \in Plan!OfSession(s)
        /\ Plan!One(byMsg) => Plan!Only(byMsg) \in Plan!OfSession(s)
    BY <2>1, <2>2
  <2>4. Plan!Fact(s, e) = CASE Plan!One(byEvent) -> Plan!Only(byEvent)
          [] byEvent = {} /\ Plan!One(byMsg) -> Plan!Only(byMsg)
          [] OTHER -> IF Plan!Named(e) \in Plan!OfSession(s) THEN Plan!Named(e) ELSE None
    BY DEF Plan!Fact
  <2> HIDE DEF byEvent, byMsg
  <2> QED
    BY <2>3, <2>4
<1> DEFINE facts == {i \in DOMAIN entries :
                       /\ ~entries[i].reverted /\ entries[i].tool \in Plan!PlanTools
                       /\ Plan!Fact(s, entries[i]) # None}
           e == entries[CHOOSE i \in facts : \A j \in facts : j <= i]
<1>2. Plan!Resolved(s, entries) = IF facts = {} THEN None ELSE Plan!Fact(s, e)
  BY DEF Plan!Resolved
<1> HIDE DEF facts, e
<1> QED
  BY <1>1, <1>2

LEMMA SyncNext ==
  ASSUME PartsAssumption, PlanInv, NEW s \in Planners, Plan!Tick(s), s \notin running,
         NEW entries \in Seq(Plan!Entries), DOMAIN entries \subseteq DOMAIN log[s],
         \A i \in DOMAIN entries : /\ entries[i].id = log[s][i].id
                                   /\ entries[i].msg = log[s][i].msg
                                   /\ entries[i].tool = log[s][i].tool,
         Plan!Sync(s, entries), aside' = TRUE, running' = running, crossed' = crossed
  PROVE  PlanInv'
<1> DEFINE p == Plan!Resolved(s, entries)
           w == Plan!Written(p, "in_progress", disk[p].steps, disk[p].source)
           again == p # None /\ disk[p].status # "in_progress"
           live == {i \in Plan!LastIn(entries, {"todo"}) : ~entries[i].reverted}
           list == IF live = {} THEN "none"
                   ELSE entries[CHOOSE i \in live : \A j \in live : j <= i].items
<1>1. /\ PlanTyped /\ LogsOK /\ AgentsOwn /\ OwnActive
      /\ log' = [log EXCEPT ![s] = entries]
      /\ disk' = IF again THEN [disk EXCEPT ![p] = w] ELSE disk
      /\ active' = [active EXCEPT !["own"][s] = p]
      /\ todos' = [todos EXCEPT !["own"][s] = list]
  BY DEF PlanInv, Plan!Sync, Plan!SyncPlans, Plan!SyncTodos
<1>2. clock \in Nat /\ clock' = clock + 1 /\ clock' \in 0..MaxClock /\ Plan!Now = clock'
  BY <1>1, TickIs
<1>3. log' \in [Planners -> Seq(Plan!Entries)] /\ LogsOK' /\ UserKept /\ AgentKept
  BY <1>1, <1>2, LogsLess
<1>4. p = None \/ (p \in Plan!OfSession(s) /\ p \in Plan!There /\ p \in Plans /\ disk[p] # None)
  <2>1. p \in Plan!OfSession(s) \cup {None}
    BY <1>1, ResolvedIs
  <2> QED
    BY <2>1 DEF Plan!OfSession, Plan!There
<1>5. p # None => /\ w \in Plan!Files /\ w # None /\ w.owner = disk[p].owner
                  /\ w.source = disk[p].source
  <2>1. ASSUME p # None
        PROVE  disk[p].steps \in {"open", "done"} /\ disk[p].source \in Plan!Sources
    BY <1>1, <1>4, <2>1, FileParts
  <2>2. "in_progress" \in Plan!Statuses
    BY DEF Plan!Statuses
  <2> HIDE DEF p
  <2> QED
    BY <1>1, <1>2, <1>4, <2>1, <2>2, FileWritten
<1>6. list \in Plan!Lists
  <2>1. CASE live = {}
    BY <2>1 DEF Plan!Lists
  <2>2. CASE live # {}
    <3> DEFINE i == CHOOSE i \in live : \A j \in live : j <= i
    <3>1. Len(entries) \in Nat /\ DOMAIN entries = 1 .. Len(entries)
      BY LenProperties
    <3>2. live \subseteq 1 .. Len(entries)
      BY <3>1 DEF Plan!LastIn
    <3>3. i \in live
      BY <2>2, <3>1, <3>2, LatestOf
    <3>4. i \in DOMAIN entries
      BY <3>1, <3>2, <3>3
    <3>5. list = entries[i].items
      BY <2>2
    <3> HIDE DEF i, live, list
    <3>6. entries[i] \in Plan!Entries
      BY <3>4, ElementOfSeq
    <3> QED
      BY <3>5, <3>6 DEF Plan!Entries
  <2> QED
    BY <2>1, <2>2
<1> HIDE DEF list, w, p
<1>7. todos' \in [Plan!Dbs -> [Planners -> Plan!Lists]]
  <2>1. TodosRow("own", s, list)
    BY <1>1 DEF TodosRow
  <2> QED
    BY <1>1, <1>6, <2>1, TodosSet DEF Plan!Dbs
<1>8. /\ active' \in [Plan!Dbs -> [Planners -> Plans \cup {None}]] /\ active'["own"][s] = p
      /\ \A d \in Plan!Dbs, t \in Planners :
           d # "own" \/ t # s => active'[d][t] = active[d][t]
  <2>1. p \in Plans \cup {None} /\ "own" \in Plan!Dbs
    BY <1>4 DEF Plan!Dbs
  <2>2. PlanTyped /\ ActiveRow("own", s, p)
    BY <1>1 DEF ActiveRow
  <2> QED
    BY <2>1, <2>2, ActiveSet
<1>9. /\ disk' \in [Plans -> Plan!Files \cup {None}]
      /\ \A q \in Plans :
           /\ disk'[q] = None <=> disk[q] = None
           /\ disk[q] # None => /\ disk'[q].owner = disk[q].owner
                                /\ disk'[q].source = disk[q].source
  <2>1. CASE again
    <3>1. /\ disk' \in [Plans -> Plan!Files \cup {None}] /\ disk'[p] = w
          /\ \A q \in Plans \ {p} : disk'[q] = disk[q]
      BY <1>1, <1>4, <1>5, <2>1 DEF PlanTyped
    <3> QED
      BY <1>4, <1>5, <2>1, <3>1
  <2>2. CASE ~again
    BY <1>1, <2>2 DEF PlanTyped
  <2> QED
    BY <2>1, <2>2
<1>10. PlanTyped'
  BY <1>1, <1>2, <1>3, <1>7, <1>8, <1>9 DEF PlanTyped
<1>11. SourceKept
  BY <1>9 DEF SourceKept, ByAgent
<1>12. AgentsOwn'
  BY <1>1, <1>2, <1>3, <1>11, AgentsKept
<1>13. OwnActive'
  <2>1. p # None => p \in Plan!OfSession(s)'
    BY <1>4, <1>9 DEF Plan!OfSession, Plan!There
  <2>2. \A t \in Planners, d \in Plan!Dbs :
          active'[d][t] \in {active[d][t], None} \/ active'[d][t] \in Plan!OfSession(t)'
    BY <1>8, <2>1
  <2> QED
    BY <1>1, <1>9, <2>2, OwnNext
<1>14. Plan!OneInProgress'
  BY DEF Plan!OneInProgress
<1> QED
  BY <1>3, <1>10, <1>12, <1>13, <1>14 DEF PlanInv

LEMMA MarkNext ==
  ASSUME PartsAssumption, PlanInv, NEW s \in Planners, NEW i, NEW b \in BOOLEAN,
         Plan!Mark(s, i, b)
  PROVE  PlanInv'
<1> DEFINE e == log[s]
           f == [j \in DOMAIN e |-> IF j >= i THEN [e[j] EXCEPT !.reverted = b] ELSE e[j]]
<1>1. /\ Plan!Tick(s) /\ s \notin running /\ Plan!Sync(s, f)
      /\ aside' = TRUE /\ running' = running /\ crossed' = crossed
  BY DEF Plan!Mark
<1>2. e \in Seq(Plan!Entries)
  BY DEF PlanInv, PlanTyped
<1>3. Len(e) \in Nat /\ DOMAIN e = 1 .. Len(e) /\ \A j \in DOMAIN e : e[j] \in Plan!Entries
  BY <1>2, ElementOfSeq, LenProperties
<1>4. \A j \in 1 .. Len(e) :
        /\ f[j] \in Plan!Entries
        /\ f[j].id = e[j].id /\ f[j].msg = e[j].msg /\ f[j].tool = e[j].tool
  BY <1>3 DEF Plan!Entries
<1>5. f = [j \in 1 .. Len(e) |-> f[j]]
  BY <1>3
<1>6. DOMAIN f = 1 .. Len(e)
  BY <1>3
<1> HIDE DEF f
<1>7. f \in Seq(Plan!Entries)
  <2>1. [j \in 1 .. Len(e) |-> f[j]] \in Seq(Plan!Entries)
    BY <1>3, <1>4, IsASeq
  <2> QED
    BY <1>5, <2>1
<1> QED
  BY <1>1, <1>3, <1>4, <1>6, <1>7, SyncNext

LEMMA PurgeNext ==
  ASSUME PartsAssumption, PlanInv, NEW s \in Planners, Plan!Purge(s)
  PROVE  PlanInv'
<1>1. /\ Plan!Tick(s) /\ s \notin running /\ Plan!Sync(s, Plan!Kept(s))
      /\ aside' = TRUE /\ running' = running /\ crossed' = crossed
  BY DEF Plan!Purge
<1>2. PlanTyped /\ LogsOK
  BY DEF PlanInv
<1>3. /\ Plan!Kept(s) \in Seq(Plan!Entries)
      /\ DOMAIN Plan!Kept(s) \subseteq DOMAIN log[s]
      /\ \A i \in DOMAIN Plan!Kept(s) : Plan!Kept(s)[i] = log[s][i]
  BY <1>2, KeptIs
<1> QED
  BY <1>1, <1>3, SyncNext

\* The source of an old file is a create among the events of its session.
LEMMA BackfillNext ==
  ASSUME PartsAssumption, PlanInv, NEW s \in Planners, Plan!Backfill(s)
  PROVE  PlanInv'
<1> DEFINE creates(q) == {i \in DOMAIN log[s] : /\ log[s][i].tool = "create"
                                                /\ log[s][i].plan = q /\ ~log[s][i].reverted}
           found == {q \in Plan!OfSession(s) : disk[q].source = Plan!NoSource
                                               /\ Plan!One(creates(q))}
           origin(q) == log[s][Plan!Only(creates(q))]
           w(q) == [disk[q] EXCEPT !.source = [msg |-> origin(q).msg, event |-> origin(q).id]]
<1>1. /\ PlanTyped /\ LogsOK /\ AgentsOwn /\ OwnActive /\ Plan!OneInProgress
      /\ disk' = [q \in Plans |-> IF q \in found THEN w(q) ELSE disk[q]]
      /\ UNCHANGED <<active, todos, log, running, clock, crossed, aside>>
  BY DEF PlanInv, Plan!Backfill
<1>2. ASSUME NEW q \in found
      PROVE  /\ w(q) \in Plan!Files /\ w(q) # None /\ disk[q] # None
             /\ w(q).owner = disk[q].owner /\ w(q).status = disk[q].status
             /\ ByAgent(w(q).source.msg)
  <2>1. q \in Plan!There /\ disk[q] # None /\ disk[q] \in Plan!Files
    BY <1>1, FileIs DEF Plan!OfSession, Plan!There
  <2>2. PICK i \in DOMAIN log[s] : origin(q) = log[s][i] /\ log[s][i].tool = "create"
    <3>1. Plan!Only(creates(q)) \in creates(q)
      BY OnlyIs
    <3> QED
      BY <3>1
  <2>3. log[s] \in Seq(Plan!Entries)
    BY <1>1 DEF PlanTyped
  <2>4. \A j \in DOMAIN log[s] : log[s][j] \in Plan!Entries
    BY <2>3, ElementOfSeq
  <2>5. /\ origin(q).msg \in 0..MaxClock /\ origin(q).id \in 0..MaxClock
        /\ ByAgent(origin(q).msg)
    BY <2>2, <2>4 DEF Plan!Entries, ByAgent
  <2> HIDE DEF origin
  <2>6. /\ w(q) \in Plan!Files /\ w(q).source.msg = origin(q).msg
        /\ w(q).owner = disk[q].owner /\ w(q).status = disk[q].status
    BY <2>1, <2>5 DEF Plan!Files, Plan!Sources
  <2> QED
    BY <2>1, <2>5, <2>6, PlansAre
<1> HIDE DEF w, found
<1>3. /\ disk' \in [Plans -> Plan!Files \cup {None}]
      /\ \A q \in Plans :
           /\ disk'[q] = None <=> disk[q] = None
           /\ disk[q] # None => /\ disk'[q].owner = disk[q].owner
                                /\ disk'[q].status = disk[q].status
                                /\ ByAgent(disk'[q].source.msg)
  <2>1. ASSUME NEW q \in Plans
        PROVE  /\ disk'[q] \in Plan!Files \cup {None}
               /\ disk'[q] = None <=> disk[q] = None
               /\ disk[q] # None => /\ disk'[q].owner = disk[q].owner
                                    /\ disk'[q].status = disk[q].status
                                    /\ ByAgent(disk'[q].source.msg)
    <3>1. CASE q \in found
      BY <1>1, <1>2, <3>1
    <3>2. CASE q \notin found
      <4>1. disk'[q] = disk[q] /\ disk[q] \in Plan!Files \cup {None}
        BY <1>1, <3>2 DEF PlanTyped
      <4>2. disk[q] # None => ByAgent(disk[q].source.msg)
        BY DEF ByAgent
      <4> QED
        BY <4>1, <4>2
    <3> QED
      BY <3>1, <3>2
  <2> QED
    BY <1>1, <2>1
<1>4. log' \in [Planners -> Seq(Plan!Entries)] /\ LogsOK' /\ UserKept /\ AgentKept
  BY <1>1, LogsRest
<1>5. PlanTyped'
  BY <1>1, <1>3 DEF PlanTyped
<1>6. SourceKept
  BY <1>3 DEF SourceKept
<1>7. AgentsOwn'
  <2>1. clock \in Nat
    BY <1>1 DEF PlanTyped
  <2> QED
    BY <1>1, <1>4, <1>6, <2>1, AgentsKept
<1>8. OwnActive'
  BY <1>1, <1>3, OwnNext
<1>9. Plan!OneInProgress'
  BY <1>1, <1>3, RunsRest
<1> QED
  BY <1>4, <1>5, <1>7, <1>8, <1>9 DEF PlanInv

LEMMA PlanInitInv ==
  ASSUME PartsAssumption, Plan!Init
  PROVE  PlanInv
<1> DEFINE x(p) == Plan!Entry("create", p, "none", 2, 2)
           u == Plan!Entry("user", None, "none", 1, 1)
           r(s) == [owner |-> s, status |-> "suspended", steps |-> "open",
                    source |-> Plan!NoSource, stamp |-> 0]
<1>1. PICK p \in Plans, s \in Planners, legacy \in BOOLEAN, found \in BOOLEAN :
        /\ found => legacy
        /\ disk = [q \in Plans |-> IF q = p /\ legacy THEN r(s) ELSE None]
        /\ log = [t \in Planners |-> IF t = s /\ found THEN <<u, x(p)>> ELSE <<>>]
        /\ clock = IF found THEN 2 ELSE 0
  BY DEF Plan!Init
<1>2. /\ active = [d \in Plan!Dbs |-> [t \in Planners |-> None]]
      /\ todos = [d \in Plan!Dbs |-> [t \in Planners |-> "none"]]
      /\ running = {} /\ crossed = FALSE /\ aside = FALSE
  BY DEF Plan!Init
<1>3. /\ u \in Plan!Entries /\ u.tool = "user" /\ u.id = 1 /\ u.msg = 1
      /\ x(p) \in Plan!Entries /\ x(p).tool = "create" /\ x(p).id = 2 /\ x(p).msg = 2
  BY PlansAre DEF Plan!Entry, Plan!Entries, Plan!Lists
<1>4. /\ r(s) \in Plan!Files /\ r(s) # None /\ r(s).owner = s /\ r(s).source.msg = 0
      /\ r(s).status = "suspended"
  BY PlansAre DEF Plan!Files, Plan!Statuses, Plan!Sources, Plan!NoSource
<1> HIDE DEF x, u, r
<1>5. /\ <<u, x(p)>> \in Seq(Plan!Entries) /\ DOMAIN <<u, x(p)>> = {1, 2}
      /\ <<u, x(p)>>[1] = u /\ <<u, x(p)>>[2] = x(p)
  <2>1. DOMAIN <<u, x(p)>> = 1 .. 2
    OBVIOUS
  <2> QED
    BY <1>3, <2>1
<1>6. PlanTyped
  <2>1. disk \in [Plans -> Plan!Files \cup {None}]
    BY <1>1, <1>4
  <2>2. log \in [Planners -> Seq(Plan!Entries)]
    BY <1>1, <1>5
  <2>3. clock \in 0..MaxClock
    BY <1>1, PlansAre
  <2>4. /\ active \in [Plan!Dbs -> [Planners -> Plans \cup {None}]]
        /\ todos \in [Plan!Dbs -> [Planners -> Plan!Lists]]
        /\ running \subseteq Planners /\ crossed \in BOOLEAN /\ aside \in BOOLEAN
    BY <1>2 DEF Plan!Lists
  <2> QED
    BY <2>1, <2>2, <2>3, <2>4 DEF PlanTyped
<1>7. LogsOK
  <2>1. ASSUME NEW t \in Planners PROVE LogOK(log[t], clock)
    <3>1. CASE t = s /\ found
      <4>1. log[t] = <<u, x(p)>> /\ clock = 2
        BY <1>1, <3>1
      <4> QED
        BY <1>3, <1>5, <4>1 DEF LogOK, LogOrder
    <3>2. CASE ~(t = s /\ found)
      BY <1>1, <3>2 DEF LogOK, LogOrder
    <3> QED
      BY <3>1, <3>2
  <2> QED
    BY <1>2, <2>1 DEF LogsOK
<1>8. ASSUME NEW t \in Planners, NEW i \in DOMAIN log[t]
      PROVE  clock = 2 /\ log[t][i] \in {u, x(p)}
  <2>1. CASE t = s /\ found
    BY <1>1, <1>5, <1>8, <2>1
  <2>2. CASE ~(t = s /\ found)
    BY <1>1, <1>8, <2>2
  <2> QED
    BY <2>1, <2>2
<1>9. AgentsOwn
  <2> SUFFICES ASSUME NEW m, ByAgent(m) PROVE ~ByUser(m) /\ m \in 0..clock
    BY DEF AgentsOwn
  <2>1. m = 0 \/ (m = 2 /\ clock = 2)
    BY <1>1, <1>3, <1>4, <1>8 DEF ByAgent
  <2>2. ASSUME ByUser(m) PROVE m = 1
    BY <1>3, <1>8, <2>2 DEF ByUser
  <2> QED
    BY <1>1, <2>1, <2>2
<1>10. OwnActive
  BY <1>2 DEF OwnActive
<1>11. Plan!OneInProgress
  <2>1. \A t \in Planners : Plan!InProgress(t) = {}
    BY <1>1, <1>4 DEF Plan!InProgress, Plan!OfSession, Plan!There
  <2> QED
    BY <2>1 DEF Plan!OneInProgress
<1> QED
  BY <1>6, <1>7, <1>9, <1>10, <1>11 DEF PlanInv

LEMMA PlanNext ==
  ASSUME PartsAssumption, PlanInv, Plan!Next
  PROVE  PlanInv'
<1>1. PICK s \in Planners :
        \/ \E m \in Plan!Uses(s) :
             \/ \E p \in Plans : Plan!Create(s, p, m)
             \/ \E p \in Plans \cup {None}, st \in Plan!Statuses \cup {None} :
                  Plan!Update(s, p, st, m)
             \/ \E l \in {"open", "done"} : Plan!Todo(s, l, m)
        \/ \E p \in Plans : Plan!Switch(s, p) \/ Plan!SwitchByUser(s, p)
        \/ \E p \in Plans \cup {None}, st \in {"open", "done"} : Plan!StepByUser(s, p, st)
        \/ \/ Plan!UserMessage(s) \/ Plan!FinishTurn(s) \/ Plan!StopTurn(s)
           \/ Plan!ReadTodos(s) \/ Plan!Purge(s) \/ Plan!Backfill(s)
        \/ \E i \in DOMAIN log[s], b \in BOOLEAN : Plan!Mark(s, i, b)
  BY DEF Plan!Next
<1>2. ASSUME NEW m, NEW p \in Plans, Plan!Create(s, p, m) PROVE PlanInv'
  <2>1. m \in 1..MaxClock
    BY <1>2, UseIs DEF Plan!Create, PlanInv
  <2> QED
    BY <1>2, <2>1, CreateNext
<1>3. ASSUME NEW m, NEW p \in Plans \cup {None}, NEW st \in Plan!Statuses \cup {None},
             Plan!Update(s, p, st, m)
      PROVE  PlanInv'
  <2>1. m \in 1..MaxClock
    BY <1>3, UseIs DEF Plan!Update, PlanInv
  <2> QED
    BY <1>3, <2>1, UpdateNext
<1>4. CASE \E p \in Plans : Plan!Switch(s, p) \/ Plan!SwitchByUser(s, p)
  BY <1>4, SwitchNext, SwitchByUserNext
<1>5. CASE \E p \in Plans \cup {None}, st \in {"open", "done"} : Plan!StepByUser(s, p, st)
  BY <1>5, StepByUserNext
<1>6. ASSUME NEW m, NEW l \in {"open", "done"}, Plan!Todo(s, l, m) PROVE PlanInv'
  <2>1. m \in 1..MaxClock
    BY <1>6, UseIs DEF Plan!Todo, PlanInv
  <2> QED
    BY <1>6, <2>1, TodoNext
<1>7. CASE \/ Plan!UserMessage(s) \/ Plan!FinishTurn(s) \/ Plan!StopTurn(s)
           \/ Plan!ReadTodos(s) \/ Plan!Purge(s) \/ Plan!Backfill(s)
  BY <1>7, UserMessageNext, FinishTurnNext, StopTurnNext, ReadTodosNext, PurgeNext, BackfillNext
<1>8. CASE \E i \in DOMAIN log[s], b \in BOOLEAN : Plan!Mark(s, i, b)
  BY <1>8, MarkNext
<1> QED
  BY <1>1, <1>2, <1>3, <1>4, <1>5, <1>6, <1>7, <1>8

\* A plan a session finds without a name is its own or its parent's.
LEMMA PlansIsolated ==
  ASSUME PartsAssumption, PlanInv
  PROVE  Plan!Isolated
BY FindOwn DEF PlanInv, Plan!Isolated

\* After a message of the user no event is of the turn, and no plan found
\* comes from a message as late.
LEMMA BoardClears ==
  ASSUME PartsAssumption, PlanInv
  PROVE  Plan!BoardIsOfTurn
<1> SUFFICES ASSUME NEW s \in Planners, log[s] # <<>>, Plan!Last(log[s]).tool = "user",
                    ~\E i \in DOMAIN log[s] : log[s][i].reverted
             PROVE  Plan!Board(s) = None
  BY DEF Plan!BoardIsOfTurn
<1> DEFINE e == log[s]
           n == Len(e)
<1>1. PlanTyped /\ LogsOK /\ AgentsOwn
  BY DEF PlanInv
<1>2. /\ e \in Seq(Plan!Entries) /\ n \in Nat /\ DOMAIN e = 1 .. n /\ n \in DOMAIN e
      /\ e[n].tool = "user"
  <2>1. e \in Seq(Plan!Entries)
    BY <1>1 DEF PlanTyped
  <2> QED
    BY <2>1, LenProperties, EmptySeq DEF Plan!Last
<1>3. \A i \in DOMAIN e : e[i].id \in Nat /\ e[i].msg \in Nat
  BY <1>2, ElementOfSeq, EntryIs
<1>4. /\ 1 <= e[n].msg /\ e[n].msg = e[n].id
      /\ \A i \in DOMAIN e : i # n => e[i].msg < e[n].msg
  <2>1. LogOrder(e, clock)
    BY <1>1 DEF LogsOK, LogOK
  <2>2. \A i \in DOMAIN e : i # n => i < n
    BY <1>2
  <2> QED
    BY <1>2, <1>3, <2>1, <2>2 DEF LogOrder
<1>5. Plan!LastUser(s) = e[n].msg
  <2> DEFINE users == {i \in DOMAIN e : e[i].tool = "user" /\ ~e[i].reverted}
             k == CHOOSE i \in users : \A j \in users : j <= i
  <2>1. n \in users /\ users \subseteq 1 .. n
    BY <1>2
  <2>2. k \in users /\ \A j \in users : j <= k
    <3>1. \A j \in users : j <= n
      BY <2>1
    <3> QED
      BY <2>1, <3>1
  <2>3. k = n
    <3>1. k \in 1 .. n /\ n <= k
      BY <2>1, <2>2
    <3> QED
      BY <1>2, <3>1
  <2>4. Plan!LastUser(s) = IF users = {} THEN 0 ELSE e[k].msg
    BY DEF Plan!LastUser
  <2> HIDE DEF users, k
  <2> QED
    BY <2>1, <2>3, <2>4
<1>6. ASSUME NEW tools, "user" \notin tools PROVE Plan!InTurn(s, tools) = {}
  <2> SUFFICES ASSUME NEW i \in DOMAIN e, e[i].tool \in tools, e[i].msg >= e[n].msg
               PROVE  FALSE
    BY <1>5 DEF Plan!InTurn
  <2>1. i # n
    BY <1>2, <1>6
  <2> QED
    BY <1>2, <1>3, <1>4, <2>1
<1>7. Plan!InTurn(s, Plan!PlanTools) = {} /\ Plan!InTurn(s, {"todo"}) = {}
  BY <1>6 DEF Plan!PlanTools
<1> DEFINE p == Plan!Find(s, None, "own")
<1>8. p # None => ~(Plan!SourceSeq(s, p) >= Plan!LastUser(s))
  <2> SUFFICES ASSUME p # None PROVE ~(Plan!SourceSeq(s, p) >= Plan!LastUser(s))
    OBVIOUS
  <2>1. p \in Plans /\ disk[p] # None
    <3>1. p \in Plan!There \cup {None}
      BY <1>1, FindIs
    <3> QED
      BY <3>1 DEF Plan!There
  <2> DEFINE m == disk[p].source.msg
  <2>2. ~ByUser(m)
    BY <1>1, <2>1 DEF AgentsOwn, ByAgent
  <2>3. \A i \in DOMAIN e : e[i].msg = m => i # n
    BY <1>2, <2>2 DEF ByUser
  <2>4. Plan!SourceSeq(s, p) = IF \E i \in DOMAIN e : e[i].msg = m THEN m ELSE 0
    BY DEF Plan!SourceSeq
  <2> HIDE DEF p, m, e
  <2>5. CASE \E i \in DOMAIN e : e[i].msg = m
    <3>1. PICK i \in DOMAIN e : e[i].msg = m
      BY <2>5
    <3>2. m < e[n].msg /\ m \in Nat
      BY <1>3, <1>4, <2>3, <3>1
    <3> QED
      BY <1>2, <1>3, <1>5, <2>4, <2>5, <3>2
  <2>6. CASE ~\E i \in DOMAIN e : e[i].msg = m
    BY <1>2, <1>3, <1>4, <1>5, <2>4, <2>6
  <2> QED
    BY <2>5, <2>6
<1>9. Plan!TurnPlan(s) = [plan |-> None, seq |-> 0]
  <2> HIDE DEF p
  <2> QED
    BY <1>7, <1>8 DEF Plan!TurnPlan, p
<1> QED
  BY <1>7, <1>9 DEF Plan!Board

LEMMA PlanRests ==
  ASSUME PlanInv, UNCHANGED ofPlans
  PROVE  PlanInv'
<1>1. /\ disk' = disk /\ active' = active /\ todos' = todos /\ log' = log
      /\ running' = running /\ clock' = clock /\ crossed' = crossed /\ aside' = aside
  BY DEF ofPlans
<1>2. PlanTyped /\ LogsOK /\ AgentsOwn /\ OwnActive /\ Plan!OneInProgress
  BY DEF PlanInv
<1>3. PlanTyped' /\ LogsOK'
  BY <1>1, <1>2 DEF PlanTyped, LogsOK
<1>4. AgentsOwn'
  BY <1>1, <1>2 DEF AgentsOwn, ByAgent, ByUser
<1>5. OwnActive'
  BY <1>1, <1>2 DEF OwnActive, Plan!OfSession, Plan!There
<1>6. Plan!OneInProgress'
  BY <1>1, <1>2 DEF Plan!OneInProgress, Plan!InProgress, Plan!OfSession, Plan!There
<1> QED
  BY <1>3, <1>4, <1>5, <1>6 DEF PlanInv

(***************************************************************************)
(* Storage. The files of a session, under sessions/ and archives/ of all   *)
(* directories, hold all that was written for it, or its rows are in the   *)
(* catalog and wait for the migration: until a migration failed, a second  *)
(* file came beside an archived one, or a catalog lost the session. The    *)
(* files grow, and a connection, pooled or in use, is to one of them.      *)
(***************************************************************************)
PlacesOf(s) == ({hot[d][s] : d \in Dirs} \cup {cold[d][s] : d \in Dirs}) \ {None}
RowsOf(s) == UNION {rows[f] : f \in PlacesOf(s)}
Seen(d, s) == cat[d].st[s] # "none" \/ s \in removed

ThreadRec == [pc : Pcs, s : Sessions \cup {None}, d : Dirs \cup {None},
            file : Files \cup {None}, items : SUBSET Items]
RecOK(r) ==
  /\ r \in ThreadRec
  /\ r.pc # "idle" => r.s # None /\ r.d # None
  /\ r.pc \in {"insert", "copy"} => r.file # None
ProcOK(r) ==
  /\ r.file \in known \cup {None}
  /\ r.pc \in {"insert", "copy"} /\ r.s \notin removed \cup split => r.file \in PlacesOf(r.s)
  /\ r.pc = "clean" => r.s \in removed
  /\ ~switched => r.d \in {First, None}

StoreTyped ==
  /\ cat \in [Dirs -> Catalog]
  /\ hot \in [Dirs -> [Sessions -> Files \cup {None}]]
  /\ cold \in [Dirs -> [Sessions -> Files \cup {None}]]
  /\ known \subseteq Files /\ rows \in [Files -> SUBSET Items]
  /\ pool \in [Sessions -> Files \cup {None}]
  /\ base \in Dirs /\ dir \in Dirs /\ turning \subseteq Dirs
  /\ written \in [Sessions -> SUBSET Items]
  /\ broken \subseteq Sessions /\ split \subseteq Sessions /\ removed \subseteq Sessions
  /\ switched \in BOOLEAN /\ ops \in 0..MaxOps

\* The directories in use, or to be.
InUse == {base, dir} \cup turning
UsedNow == {base', dir'} \cup turning'
SameDirs == dir' = dir /\ base' = base /\ turning' = turning
USE DEF where, InUse, UsedNow, SameDirs

FilesInv ==
  /\ \A d \in Dirs, s \in Sessions :
       /\ hot[d][s] \in known \cup {None} /\ cold[d][s] \in known \cup {None}
       /\ s \notin split => hot[d][s] = None \/ cold[d][s] = None
       /\ hot[d][s] # None \/ cold[d][s] # None => Seen(d, s) \/ s \in split
       /\ ~cat[d].there => cat[d].st[s] = "none"
  /\ \A f \in Files : f \notin known => rows[f] = {}
  /\ \A d \in InUse : cat[d].there
  /\ ~switched => /\ dir = First /\ base = First /\ turning = {}
                  /\ \A d \in Dirs \ {First}, s \in Sessions : hot[d][s] = None /\ cold[d][s] = None

Pools ==
  \A s \in Sessions :
    /\ pool[s] \in known \cup {None}
    /\ s \notin removed \cup split => pool[s] \in PlacesOf(s) \cup {None}
Threads == proc \in [Procs -> ThreadRec] /\ \A p \in Procs : RecOK(proc[p]) /\ ProcOK(proc[p])

Waking ==
  /\ boot \in [pc : BootPcs, todo : SUBSET Sessions, cur : Sessions \cup {None}, moved : BOOLEAN]
  /\ boot.pc \in {"commit", "purge"} => boot.cur # None /\ boot.cur \notin boot.todo
  /\ boot.pc = "commit" => hot[dir][boot.cur] # None /\ rows[hot[dir][boot.cur]] = {}
  /\ boot.pc \in {"reconcile", "up"} => boot.todo = {}
  /\ \A s \in boot.todo : Listed(s)
  /\ boot.pc # "up" => /\ base = dir /\ turning = {}
                       /\ \A s \in Sessions : pool[s] = None
                       /\ \A p \in Procs : proc[p].pc = "idle"

Waits(s) ==
  /\ boot.pc # "up" /\ Listed(s) /\ hot[dir][s] = None /\ written[s] \subseteq cat[dir].old[s]
  /\ boot.pc \in {"next", "commit", "purge"} => s \in boot.todo
Moving(s) == boot.pc = "commit" /\ boot.cur = s /\ written[s] \subseteq cat[dir].old[s]
HeldOrWaits(s) == written[s] \subseteq RowsOf(s) \/ Waits(s) \/ Moving(s)
Good(s) == s \in Sessions /\ s \notin broken /\ s \notin split /\ s \notin removed
RowsKept == \A s \in Sessions : Good(s) => HeldOrWaits(s)

StorageInv == StoreTyped /\ FilesInv /\ Pools /\ Threads /\ Waking /\ RowsKept

LEMMA StorageIs ==
  ASSUME PartsAssumption
  PROVE  /\ Legacy \subseteq Sessions /\ First \in Dirs
         /\ None \notin Sessions /\ None \notin Dirs /\ None \notin Files
         /\ Parent \in [Sessions -> Sessions \cup {None}]
         /\ MaxOps \in Nat /\ MaxFiles \in Nat
BY DEF PartsAssumption, StorageAssumption

\* Nothing is taken back of what files, sessions and connections rest on.
PlacesNow(s) == ({hot'[d][s] : d \in Dirs} \cup {cold'[d][s] : d \in Dirs}) \ {None}
SeenNow(d, s) == cat'[d].st[s] # "none" \/ s \in removed'
Grows ==
  /\ known \subseteq known' /\ split \subseteq split' /\ removed \subseteq removed'
  /\ broken \subseteq broken' /\ (switched => switched')
  /\ \A d \in Dirs, s \in Sessions : Seen(d, s) => SeenNow(d, s)
  /\ \A s \in Sessions : s \notin removed' /\ s \notin split' => PlacesOf(s) \subseteq PlacesNow(s)
  /\ \A f \in Files : rows[f] \subseteq rows'[f]

ProcNow(r) ==
  /\ r.file \in known' \cup {None}
  /\ r.pc \in {"insert", "copy"} /\ r.s \notin removed' \cup split' => r.file \in PlacesNow(r.s)
  /\ r.pc = "clean" => r.s \in removed'
  /\ ~switched' => r.d \in {First, None}
ThreadsNow ==
  /\ proc' \in [Procs -> ThreadRec]
  /\ \A q \in Procs : proc'[q] = proc[q] \/ (RecOK(proc'[q]) /\ ProcNow(proc'[q]))
PoolsNow ==
  \A s \in Sessions :
    \/ pool'[s] = pool[s] \/ pool'[s] = None
    \/ /\ pool'[s] \in known'
       /\ s \notin removed' /\ s \notin split' => pool'[s] \in PlacesNow(s)
GoodNow(s) == s \in Sessions /\ s \notin broken' /\ s \notin split' /\ s \notin removed'

LEMMA ProcStays ==
  ASSUME Grows, NEW r, RecOK(r), ProcOK(r)
  PROVE  ProcNow(r)
<1>1. r.pc # "idle" => r.s \in Sessions /\ r.d \in Dirs
  BY DEF RecOK, ThreadRec
<1>2. r.pc \in {"insert", "copy"} => r.pc # "idle"
  OBVIOUS
<1> QED
  BY <1>1, <1>2 DEF Grows, ProcOK, ProcNow

LEMMA ThreadsStay ==
  ASSUME Grows, Threads, ThreadsNow
  PROVE  Threads'
<1>1. ASSUME NEW q \in Procs PROVE RecOK(proc'[q]) /\ ProcNow(proc'[q])
  <2>1. CASE proc'[q] = proc[q]
    <3>1. RecOK(proc[q]) /\ ProcOK(proc[q])
      BY DEF Threads
    <3> QED
      BY <2>1, <3>1, ProcStays
  <2>2. CASE RecOK(proc'[q]) /\ ProcNow(proc'[q])
    BY <2>2
  <2> QED
    BY <2>1, <2>2 DEF ThreadsNow
<1>2. \A q \in Procs : ProcNow(proc'[q]) => ProcOK(proc[q])'
  BY DEF ProcNow, ProcOK, SeenNow, Seen, PlacesNow, PlacesOf
<1>3. \A q \in Procs : RecOK(proc'[q]) => RecOK(proc[q])'
  BY DEF RecOK
<1>4. proc' \in [Procs -> ThreadRec]
  BY DEF ThreadsNow
<1> QED
  BY <1>1, <1>2, <1>3, <1>4 DEF Threads

LEMMA PoolsStay ==
  ASSUME Grows, Pools, PoolsNow
  PROVE  Pools'
<1>1. \A s \in Sessions :
        /\ pool'[s] \in known' \cup {None}
        /\ s \notin removed' \cup split' => pool'[s] \in PlacesNow(s) \cup {None}
  BY DEF Grows, Pools, PoolsNow
<1> QED
  BY <1>1 DEF Pools, PlacesNow, PlacesOf

LEMMA RowsGrow ==
  ASSUME StoreTyped, StoreTyped', Grows, NEW s \in Sessions, s \notin removed', s \notin split'
  PROVE  RowsOf(s) \subseteq RowsOf(s)'
<1>1. PlacesOf(s) \subseteq PlacesOf(s)'
  BY DEF Grows, PlacesNow, PlacesOf
<1>2. \A f \in PlacesOf(s) : f \in Files
  BY DEF StoreTyped, PlacesOf
<1>3. \A f \in PlacesOf(s) : rows[f] \subseteq rows'[f]
  BY <1>2 DEF Grows
<1> HIDE DEF PlacesOf
<1> QED
  BY <1>1, <1>3 DEF RowsOf

LEMMA KeptStays ==
  ASSUME StoreTyped, StoreTyped', Grows, RowsKept,
         \A s : GoodNow(s) =>
           /\ written'[s] \subseteq written[s] \cup RowsOf(s)'
           /\ Waits(s) => HeldOrWaits(s)'
           /\ Moving(s) => HeldOrWaits(s)'
  PROVE  RowsKept'
<1> SUFFICES ASSUME NEW s \in Sessions, GoodNow(s) PROVE HeldOrWaits(s)'
  BY DEF RowsKept, Good, GoodNow
<1>1. Good(s)
  BY DEF Good, GoodNow, Grows
<1>2. CASE written[s] \subseteq RowsOf(s)
  <2>1. RowsOf(s) \subseteq RowsOf(s)'
    BY RowsGrow DEF GoodNow
  <2> QED
    BY <1>2, <2>1 DEF HeldOrWaits
<1>3. Waits(s) \/ Moving(s) => HeldOrWaits(s)'
  OBVIOUS
<1> QED
  BY <1>1, <1>2, <1>3 DEF RowsKept, HeldOrWaits

\* While the program is up, for threads and commands.
LEMMA UpNext ==
  ASSUME StorageInv, boot.pc = "up", boot' = boot, StoreTyped', Grows, FilesInv',
         ThreadsNow, PoolsNow,
         \A s : GoodNow(s) => written'[s] \subseteq written[s] \cup RowsOf(s)'
  PROVE  StorageInv'
<1>1. Threads' /\ Pools'
  BY ThreadsStay, PoolsStay DEF StorageInv
<1>2. \A s : ~Waits(s) /\ ~Moving(s)
  BY DEF Waits, Moving
<1>3. RowsKept'
  BY <1>2, KeptStays DEF StorageInv
<1>4. Waking'
  BY DEF StorageInv, Waking
<1> QED
  BY <1>1, <1>3, <1>4 DEF StorageInv

\* At the start, with no thread.
LEMMA DownNext ==
  ASSUME StorageInv, StoreTyped', Grows, FilesInv', ThreadsNow, Waking',
         \A s \in Sessions : pool'[s] = None,
         \A s : GoodNow(s) =>
           /\ written'[s] \subseteq written[s]
           /\ Waits(s) => HeldOrWaits(s)'
           /\ Moving(s) => HeldOrWaits(s)'
  PROVE  StorageInv'
<1>1. Threads' /\ Pools'
  BY ThreadsStay, PoolsStay DEF StorageInv, PoolsNow
<1>2. RowsKept'
  BY KeptStays DEF StorageInv
<1> QED
  BY <1>1, <1>2 DEF StorageInv

LEMMA ProcSet ==
  ASSUME Threads, NEW p \in Procs, NEW r, RecOK(r), ProcNow(r), proc' = [proc EXCEPT ![p] = r]
  PROVE  ThreadsNow
<1>1. r \in ThreadRec
  BY DEF RecOK
<1> QED
  BY <1>1 DEF Threads, ThreadsNow

LEMMA ProcRest ==
  ASSUME Threads, proc' = proc
  PROVE  ThreadsNow
BY DEF Threads, ThreadsNow

\* A catalog that loses no session, and has none where it is not there.
CatGrows ==
  /\ \A d \in UsedNow : cat'[d].there
  /\ \A d \in Dirs, s \in Sessions :
       /\ cat[d].st[s] # "none" => cat'[d].st[s] # "none"
       /\ ~cat'[d].there => cat'[d].st[s] = "none"

LEMMA CatRests ==
  ASSUME FilesInv, cat' = cat, SameDirs
  PROVE  CatGrows
BY DEF FilesInv, CatGrows

LEMMA StoreRests ==
  ASSUME StoreTyped, FilesInv, CatGrows, hot' = hot, cold' = cold, known' = known, split' = split,
         removed' = removed, broken \subseteq broken', switched' = switched,
         SameDirs \/ switched, \A f \in Files : rows[f] \subseteq rows'[f],
         \A f \in Files : f \notin known => rows'[f] = {}
  PROVE  Grows /\ FilesInv'
<1>1. Grows
  BY DEF Grows, CatGrows, Seen, SeenNow, PlacesOf, PlacesNow
<1>2. ASSUME NEW d \in Dirs, NEW s \in Sessions
      PROVE  /\ hot'[d][s] \in known' \cup {None} /\ cold'[d][s] \in known' \cup {None}
             /\ s \notin split' => hot'[d][s] = None \/ cold'[d][s] = None
             /\ hot'[d][s] # None \/ cold'[d][s] # None => (Seen(d, s) \/ s \in split)'
             /\ ~cat'[d].there => cat'[d].st[s] = "none"
  BY DEF FilesInv, CatGrows, Seen
<1>3. ~switched' => /\ dir' = First /\ base' = First /\ turning' = {}
                    /\ \A d \in Dirs \ {First}, s \in Sessions :
                         hot'[d][s] = None /\ cold'[d][s] = None
  BY DEF FilesInv
<1>4. (\A e \in UsedNow : cat'[e].there) /\ \A f \in Files : f \notin known' => rows'[f] = {}
  BY DEF CatGrows
<1> QED
  BY <1>1, <1>2, <1>3, <1>4 DEF FilesInv

LEMMA PutIs ==
  ASSUME NEW h \in [Dirs -> [Sessions -> Files \cup {None}]], NEW d \in Dirs, NEW s \in Sessions,
         NEW f \in Files \cup {None}
  PROVE  /\ Put(h, d, s, f) \in [Dirs -> [Sessions -> Files \cup {None}]]
         /\ Put(h, d, s, f)[d][s] = f
         /\ \A e \in Dirs, t \in Sessions : e # d \/ t # s => Put(h, d, s, f)[e][t] = h[e][t]
BY DEF Put

\* A new file, where there is none. Beside one in the archive there are two.
LEMMA NewFileIs ==
  ASSUME PartsAssumption, StoreTyped, FilesInv, CatGrows, NEW d \in Dirs, NEW s \in Sessions,
         NEW f \in Files, NewFile(d, s, f), hot[d][s] = None, SeenNow(d, s) \/ s \in split',
         d = First \/ switched,
         cold' = cold, rows' = rows, split \subseteq split', cold[d][s] # None => s \in split',
         removed' = removed, broken' = broken, switched' = switched, SameDirs
  PROVE  /\ Grows /\ FilesInv' /\ known' \subseteq Files /\ f \in known' /\ f # None
         /\ f \in PlacesNow(s) /\ rows'[f] = {}
         /\ hot' \in [Dirs -> [Sessions -> Files \cup {None}]] /\ hot'[d][s] = f
         /\ \A e \in Dirs, t \in Sessions : e # d \/ t # s => hot'[e][t] = hot[e][t]
<1>1. f \notin known /\ known' = known \cup {f} /\ hot' = Put(hot, d, s, f) /\ f # None
  BY StorageIs DEF NewFile
<1>2. /\ hot' \in [Dirs -> [Sessions -> Files \cup {None}]] /\ hot'[d][s] = f
      /\ \A e \in Dirs, t \in Sessions : e # d \/ t # s => hot'[e][t] = hot[e][t]
  <2>1. hot \in [Dirs -> [Sessions -> Files \cup {None}]] /\ f \in Files \cup {None}
    BY DEF StoreTyped
  <2>2. hot' = Put(hot, d, s, f)
    BY <1>1
  <2> HIDE DEF Files
  <2> QED
    BY <2>1, <2>2, PutIs
<1>3. \A e \in Dirs, t \in Sessions : hot[e][t] # None => hot'[e][t] = hot[e][t]
  BY <1>2
<1>4. \A t \in Sessions : PlacesOf(t) \subseteq PlacesNow(t)
  BY <1>3 DEF PlacesOf, PlacesNow
<1>5. \A e \in Dirs, t \in Sessions : Seen(e, t) => SeenNow(e, t)
  BY DEF Seen, SeenNow, CatGrows
<1>6. Grows
  BY <1>1, <1>4, <1>5 DEF Grows
<1>7. ASSUME NEW e \in Dirs, NEW t \in Sessions
      PROVE  /\ hot'[e][t] \in known' \cup {None} /\ cold'[e][t] \in known' \cup {None}
             /\ t \notin split' => hot'[e][t] = None \/ cold'[e][t] = None
             /\ hot'[e][t] # None \/ cold'[e][t] # None => SeenNow(e, t) \/ t \in split'
             /\ ~cat'[e].there => cat'[e].st[t] = "none"
  <2>1. ~cat'[e].there => cat'[e].st[t] = "none"
    BY DEF CatGrows
  <2>2. CASE e = d /\ t = s
    BY <1>1, <1>2, <2>1, <2>2 DEF FilesInv
  <2>3. CASE e # d \/ t # s
    <3>1. hot'[e][t] = hot[e][t]
      BY <1>2, <2>3
    <3> QED
      BY <1>1, <1>5, <2>1, <3>1 DEF FilesInv
  <2> QED
    BY <2>2, <2>3
<1>8. ~switched' => /\ dir' = First /\ base' = First /\ turning' = {}
                    /\ \A e \in Dirs \ {First}, t \in Sessions :
                         hot'[e][t] = None /\ cold'[e][t] = None
  BY <1>2 DEF FilesInv
<1>9. (\A e \in UsedNow : cat'[e].there) /\ \A g \in Files : g \notin known' => rows'[g] = {}
  BY <1>1 DEF CatGrows, FilesInv
<1>10. FilesInv'
  BY <1>7, <1>8, <1>9 DEF FilesInv, Seen, SeenNow
<1>11. f \in PlacesNow(s) /\ rows'[f] = {} /\ known' \subseteq Files
  BY <1>1, <1>2 DEF PlacesNow, FilesInv, StoreTyped
<1> QED
  BY <1>1, <1>2, <1>6, <1>10, <1>11

(***************************************************************************)
(* The start of the program.                                               *)
(***************************************************************************)

LEMMA StartNext ==
  ASSUME PartsAssumption, StorageInv, Start
  PROVE  StorageInv'
<1>1. /\ boot.pc = "off" /\ boot' = [Off EXCEPT !.pc = "reconcile"]
      /\ cat' = cat /\ hot' = hot /\ cold' = cold /\ rows' = rows /\ known' = known
      /\ pool' = pool /\ SameDirs /\ proc' = proc /\ written' = written /\ broken' = broken
      /\ split' = split /\ removed' = removed /\ switched' = switched /\ ops' = ops
  BY DEF Start, files, history
<1>2. StoreTyped /\ FilesInv /\ Threads /\ Waking /\ StoreTyped'
  BY <1>1 DEF StorageInv, StoreTyped
<1>3. Grows /\ FilesInv'
  <2>1. \A f \in Files : f \notin known => rows'[f] = {}
    BY <1>1, <1>2 DEF FilesInv
  <2> QED
    BY <1>1, <1>2, <2>1, CatRests, StoreRests
<1>4. ThreadsNow
  BY <1>1, <1>2, ProcRest
<1>5. boot'.pc = "reconcile" /\ boot'.cur = None /\ boot'.todo = {} /\ boot'.moved = FALSE
  BY <1>1 DEF Off
<1>6. Waking' /\ \A s \in Sessions : pool'[s] = None
  <2>1. boot' \in [pc : BootPcs, todo : SUBSET Sessions, cur : Sessions \cup {None}, moved : BOOLEAN]
    BY <1>1 DEF Off, BootPcs
  <2>2. \A s \in boot'.todo : Listed(s)'
    BY <1>5
  <2> QED
    BY <1>1, <1>2, <1>5, <2>1, <2>2 DEF Waking
<1>7. \A s : (Waits(s) => Waits(s)') /\ ~Moving(s)
  BY <1>1, <1>5 DEF Waits, Moving, Listed
<1> QED
  BY <1>1, <1>2, <1>3, <1>4, <1>6, <1>7, DownNext DEF HeldOrWaits

\* Files of sessions that no catalog lists go.
LEMMA ReconcileNext ==
  ASSUME PartsAssumption, StorageInv, Reconcile
  PROVE  StorageInv'
<1>1. /\ boot.pc = "reconcile"
      /\ hot' = [hot EXCEPT ![dir] = [s \in Sessions |-> IF Listed(s) THEN hot[dir][s] ELSE None]]
      /\ boot' = IF \E s \in Sessions : cat[dir].old[s] # {}
             THEN [boot EXCEPT !.pc = "next", !.todo = {s \in Sessions : Listed(s)}]
             ELSE [boot EXCEPT !.pc = "up"]
      /\ cat' = cat /\ cold' = cold /\ rows' = rows /\ known' = known
      /\ pool' = pool /\ SameDirs /\ proc' = proc /\ written' = written /\ broken' = broken
      /\ split' = split /\ removed' = removed /\ switched' = switched /\ ops' = ops
  BY DEF Reconcile, history
<1>2. StoreTyped /\ FilesInv /\ Threads /\ Waking /\ RowsKept /\ Pools
  BY DEF StorageInv
<1>3. dir \in Dirs
  BY <1>2 DEF StoreTyped
<1>4. /\ hot' \in [Dirs -> [Sessions -> Files \cup {None}]]
      /\ \A d \in Dirs, s \in Sessions :
           /\ hot'[d][s] \in {hot[d][s], None}
           /\ hot'[d][s] = hot[d][s] \/ (d = dir /\ ~Listed(s))
  BY <1>1, <1>2, <1>3 DEF StoreTyped
<1>5. StoreTyped'
  BY <1>1, <1>2, <1>4 DEF StoreTyped
<1>6. \A d \in Dirs, s \in Sessions :
        s \notin removed /\ s \notin split => hot'[d][s] = hot[d][s]
  <2>1. base = dir
    BY <1>1, <1>2 DEF Waking
  <2> QED
    BY <1>2, <1>4, <2>1 DEF FilesInv, Seen, Listed
<1>7. Grows
  <2>1. \A s \in Sessions : s \notin removed /\ s \notin split => PlacesOf(s) \subseteq PlacesNow(s)
    BY <1>1, <1>6 DEF PlacesOf, PlacesNow
  <2> QED
    BY <1>1, <2>1 DEF Grows, Seen, SeenNow
<1>8. FilesInv'
  <2>1. ASSUME NEW d \in Dirs, NEW s \in Sessions
        PROVE  /\ hot'[d][s] \in known' \cup {None} /\ cold'[d][s] \in known' \cup {None}
               /\ s \notin split' => hot'[d][s] = None \/ cold'[d][s] = None
               /\ hot'[d][s] # None \/ cold'[d][s] # None => (Seen(d, s) \/ s \in split)'
               /\ ~cat'[d].there => cat'[d].st[s] = "none"
    BY <1>1, <1>2, <1>4 DEF FilesInv, Seen
  <2>2. ~switched' => /\ dir' = First /\ base' = First /\ turning' = {}
                      /\ \A d \in Dirs \ {First}, s \in Sessions :
                           hot'[d][s] = None /\ cold'[d][s] = None
    BY <1>1, <1>2, <1>4 DEF FilesInv
  <2>3. (\A e \in UsedNow : cat'[e].there) /\ \A f \in Files : f \notin known' => rows'[f] = {}
    BY <1>1, <1>2 DEF FilesInv
  <2> QED
    BY <2>1, <2>2, <2>3 DEF FilesInv
<1>9. ThreadsNow
  BY <1>1, <1>2, ProcRest
<1>10. Waking' /\ \A s \in Sessions : pool'[s] = None
  <2>1. boot \in [pc : BootPcs, todo : SUBSET Sessions, cur : Sessions \cup {None}, moved : BOOLEAN]
    BY <1>2 DEF Waking
  <2> DEFINE L == {s \in Sessions : Listed(s)}
  <2>2. L \subseteq Sessions /\ \A s \in L : Listed(s)'
    BY <1>1 DEF Listed
  <2>3. boot' = [boot EXCEPT !.pc = "next", !.todo = L] \/ boot' = [boot EXCEPT !.pc = "up"]
    BY <1>1
  <2> HIDE DEF L
  <2>4. /\ boot' \in [pc : BootPcs, todo : SUBSET Sessions, cur : Sessions \cup {None}, moved : BOOLEAN]
        /\ \/ boot'.pc = "next" /\ boot'.todo = L
           \/ boot'.pc = "up" /\ boot'.todo = boot.todo
    BY <2>1, <2>2, <2>3 DEF BootPcs
  <2>5. boot.todo = {} /\ base' = dir' /\ turning' = {}
    BY <1>1, <1>2 DEF Waking
  <2>6. (\A s \in boot'.todo : Listed(s)') /\ (boot'.pc = "up" => boot'.todo = {})
    BY <2>2, <2>4, <2>5
  <2>7. (\A s \in Sessions : pool'[s] = None) /\ \A p \in Procs : proc'[p].pc = "idle"
    BY <1>1, <1>2 DEF Waking
  <2> QED
    BY <2>4, <2>5, <2>6, <2>7 DEF Waking
<1>11. ASSUME NEW s, GoodNow(s), Waits(s) PROVE HeldOrWaits(s)'
  <2>1. s \in Sessions /\ s \notin removed /\ s \notin split
    BY <1>1, <1>11 DEF GoodNow
  <2>2. CASE \E t \in Sessions : cat[dir].old[t] # {}
    <3>1. boot' = [boot EXCEPT !.pc = "next", !.todo = {t \in Sessions : Listed(t)}]
      BY <1>1, <2>2
    <3>2. boot'.pc = "next" /\ boot'.todo = {t \in Sessions : Listed(t)}
      BY <1>2, <3>1 DEF Waking
    <3>3. hot'[dir][s] = None
      BY <1>3, <1>6, <1>11, <2>1 DEF Waits
    <3> QED
      BY <1>1, <1>11, <2>1, <3>2, <3>3 DEF Waits, HeldOrWaits, Listed
  <2>3. CASE ~\E t \in Sessions : cat[dir].old[t] # {}
    BY <1>1, <1>11, <2>1, <2>3 DEF Waits, HeldOrWaits
  <2> QED
    BY <2>2, <2>3
<1>12. \A s : ~Moving(s)
  BY <1>1 DEF Moving
<1> QED
  BY <1>1, <1>5, <1>7, <1>8, <1>9, <1>10, <1>11, <1>12, DownNext

\* The next session of the migration.
LEMMA NextSessionNext ==
  ASSUME PartsAssumption, StorageInv, NEW s \in Sessions, NextSession(s)
  PROVE  StorageInv'
<1>1. /\ boot.pc = "next" /\ s \in boot.todo
      /\ cat' = cat /\ cold' = cold /\ rows' = rows /\ pool' = pool /\ SameDirs
      /\ proc' = proc /\ written' = written /\ broken' = broken /\ removed' = removed
      /\ switched' = switched /\ ops' = ops
  BY DEF NextSession
<1>2. StoreTyped /\ FilesInv /\ Threads /\ Waking
  BY DEF StorageInv
<1>3. /\ dir \in Dirs /\ SeenNow(dir, s) /\ (dir = First \/ switched) /\ CatGrows
      /\ boot \in [pc : BootPcs, todo : SUBSET Sessions, cur : Sessions \cup {None}, moved : BOOLEAN]
  BY <1>1, <1>2, CatRests DEF StoreTyped, FilesInv, Waking, SeenNow, Listed
<1>4. \A f \in Files : f \notin known => rows[f] = {}
  BY <1>2 DEF FilesInv
<1>5. ThreadsNow
  BY <1>1, <1>2, ProcRest
<1>6. \A t \in Sessions : pool'[t] = None
  BY <1>1, <1>2 DEF Waking
<1>7. \A t : ~Moving(t)
  BY <1>1 DEF Moving
<1>8. CASE hot[dir][s] # None /\ boot' = [boot EXCEPT !.todo = @ \ {s}] /\ UNCHANGED <<hot, known, split>>
  <2>1. Grows /\ FilesInv' /\ StoreTyped'
    BY <1>1, <1>2, <1>3, <1>4, <1>8, StoreRests DEF StoreTyped
  <2>2. /\ boot' \in [pc : BootPcs, todo : SUBSET Sessions, cur : Sessions \cup {None}, moved : BOOLEAN]
        /\ boot'.pc = "next" /\ boot'.todo = boot.todo \ {s}
    BY <1>1, <1>3, <1>8
  <2>3. Waking'
    BY <1>1, <1>2, <1>8, <2>2 DEF Waking, Listed
  <2>4. \A t : Waits(t) => Waits(t)'
    BY <1>1, <1>8, <2>2 DEF Waits, Listed
  <2> QED
    BY <1>1, <1>5, <1>6, <1>7, <2>1, <2>3, <2>4, DownNext DEF HeldOrWaits
<1>9. CASE /\ hot[dir][s] = None /\ \E f \in Files : NewFile(dir, s, f)
           /\ boot' = [[boot EXCEPT !.todo = @ \ {s}] EXCEPT !.pc = "commit", !.cur = s]
           /\ split' = IF cold[dir][s] = None THEN split ELSE split \cup {s}
  <2>1. PICK f \in Files : NewFile(dir, s, f)
    BY <1>9
  <2>2. split \subseteq split' /\ (cold[dir][s] # None => s \in split') /\ split' \subseteq Sessions
    BY <1>2, <1>9 DEF StoreTyped
  <2>3. /\ Grows /\ FilesInv' /\ known' \subseteq Files /\ f # None /\ rows'[f] = {}
        /\ hot' \in [Dirs -> [Sessions -> Files \cup {None}]] /\ hot'[dir][s] = f
        /\ \A e \in Dirs, t \in Sessions : e # dir \/ t # s => hot'[e][t] = hot[e][t]
    BY <1>1, <1>2, <1>3, <1>9, <2>1, <2>2, NewFileIs
  <2>4. StoreTyped'
    BY <1>1, <1>2, <2>2, <2>3 DEF StoreTyped
  <2>5. /\ boot' \in [pc : BootPcs, todo : SUBSET Sessions, cur : Sessions \cup {None}, moved : BOOLEAN]
        /\ boot'.pc = "commit" /\ boot'.todo = boot.todo \ {s} /\ boot'.cur = s
    BY <1>1, <1>3, <1>9 DEF BootPcs
  <2>6. Waking'
    BY <1>1, <1>2, <2>3, <2>5, StorageIs DEF Waking, Listed
  <2>7. ASSUME NEW t, GoodNow(t), Waits(t) PROVE HeldOrWaits(t)'
    <3>1. t \in Sessions
      BY <2>7 DEF GoodNow
    <3>2. CASE t = s
      BY <1>1, <2>5, <2>7, <3>2 DEF Waits, Moving, HeldOrWaits
    <3>3. CASE t # s
      <4>1. hot'[dir][t] = None
        BY <1>3, <2>3, <2>7, <3>1, <3>3 DEF Waits
      <4> QED
        BY <1>1, <2>5, <2>7, <3>3, <4>1 DEF Waits, Listed, HeldOrWaits
    <3> QED
      BY <3>2, <3>3
  <2> QED
    BY <1>1, <1>5, <1>6, <1>7, <2>3, <2>4, <2>6, <2>7, DownNext
<1> QED
  BY <1>8, <1>9 DEF NextSession

\* Its rows come into the file, or the file stays empty.
LEMMA CommitNext ==
  ASSUME PartsAssumption, StorageInv, Commit
  PROVE  StorageInv'
<1>0. PICK s, f : s = boot.cur /\ f = hot[dir][s]
  OBVIOUS
<1>1. /\ boot.pc = "commit"
      /\ cat' = cat /\ hot' = hot /\ cold' = cold /\ known' = known /\ pool' = pool
      /\ SameDirs /\ proc' = proc /\ written' = written /\ split' = split
      /\ removed' = removed /\ switched' = switched /\ ops' = ops
  BY DEF Commit
<1>2. StoreTyped /\ FilesInv /\ Threads /\ Waking
  BY DEF StorageInv
<1>3. /\ boot \in [pc : BootPcs, todo : SUBSET Sessions, cur : Sessions \cup {None}, moved : BOOLEAN]
      /\ s # None /\ s \notin boot.todo /\ f # None /\ rows[f] = {}
  BY <1>0, <1>1, <1>2 DEF Waking
<1>4. dir \in Dirs /\ s \in Sessions /\ f \in Files /\ f \in known
  BY <1>0, <1>2, <1>3 DEF StoreTyped, FilesInv
<1>5. cat[dir].old[s] \in SUBSET Items
  BY <1>2, <1>4 DEF StoreTyped, Catalog
<1>6. CatGrows
  BY <1>1, <1>2, CatRests
<1>7. ThreadsNow
  BY <1>1, <1>2, ProcRest
<1>8. \A t \in Sessions : pool'[t] = None
  BY <1>1, <1>2 DEF Waking
<1>9. CASE rows' = [rows EXCEPT ![f] = cat[dir].old[s]] /\ boot' = [boot EXCEPT !.pc = "purge"]
           /\ UNCHANGED broken
  <2>1. /\ rows' \in [Files -> SUBSET Items] /\ rows'[f] = cat[dir].old[s]
        /\ \A g \in Files : g # f => rows'[g] = rows[g]
    BY <1>2, <1>4, <1>5, <1>9 DEF StoreTyped
  <2>2. StoreTyped'
    BY <1>1, <1>2, <1>9, <2>1 DEF StoreTyped
  <2>3. /\ \A g \in Files : rows[g] \subseteq rows'[g]
        /\ \A g \in Files : g \notin known => rows'[g] = {}
    BY <1>2, <1>3, <1>4, <2>1 DEF FilesInv
  <2>4. Grows /\ FilesInv'
    BY <1>1, <1>2, <1>6, <1>9, <2>3, StoreRests
  <2>5. /\ boot' \in [pc : BootPcs, todo : SUBSET Sessions, cur : Sessions \cup {None}, moved : BOOLEAN]
        /\ boot'.pc = "purge" /\ boot'.todo = boot.todo /\ boot'.cur = s
    BY <1>0, <1>3, <1>9 DEF BootPcs
  <2>6. Waking'
    BY <1>0, <1>1, <1>2, <1>3, <2>5 DEF Waking, Listed
  <2>7. \A t : Waits(t) => Waits(t)'
    BY <1>1, <2>5 DEF Waits, Listed
  <2>8. ASSUME NEW t, Moving(t) PROVE HeldOrWaits(t)'
    <3>1. f \in PlacesOf(s)'
      BY <1>0, <1>1, <1>2, <1>3, <1>4 DEF PlacesOf
    <3>2. t = s /\ written'[s] \subseteq rows'[f]
      BY <1>0, <1>1, <2>1, <2>8 DEF Moving
    <3>3. rows'[f] \subseteq RowsOf(s)'
      BY <3>1 DEF RowsOf
    <3> QED
      BY <3>2, <3>3 DEF HeldOrWaits
  <2> QED
    BY <1>1, <1>7, <1>8, <2>2, <2>4, <2>6, <2>7, <2>8, DownNext DEF HeldOrWaits
<1>10. CASE boot' = [boot EXCEPT !.pc = "next", !.cur = None] /\ broken' = broken \cup {s}
            /\ UNCHANGED rows
  <2>1. StoreTyped'
    BY <1>1, <1>2, <1>4, <1>10 DEF StoreTyped
  <2>2. \A g \in Files : g \notin known => rows'[g] = {}
    BY <1>2, <1>10 DEF FilesInv
  <2>3. Grows /\ FilesInv'
    BY <1>1, <1>2, <1>6, <1>10, <2>2, StoreRests
  <2>4. /\ boot' \in [pc : BootPcs, todo : SUBSET Sessions, cur : Sessions \cup {None}, moved : BOOLEAN]
        /\ boot'.pc = "next" /\ boot'.todo = boot.todo
    BY <1>3, <1>10 DEF BootPcs
  <2>5. Waking'
    BY <1>1, <1>2, <2>4 DEF Waking, Listed
  <2>6. \A t : Waits(t) => Waits(t)'
    BY <1>1, <2>4 DEF Waits, Listed
  <2>7. \A t : GoodNow(t) => ~Moving(t)
    BY <1>0, <1>10 DEF GoodNow, Moving
  <2> QED
    BY <1>1, <1>7, <1>8, <2>1, <2>3, <2>5, <2>6, <2>7, DownNext DEF HeldOrWaits
<1> QED
  BY <1>0, <1>9, <1>10 DEF Commit

\* What follows leaves all but the catalog and the start of the program.
LEMMA BootRest ==
  ASSUME PartsAssumption, StorageInv, CatGrows, hot' = hot, cold' = cold, rows' = rows,
         known' = known, dir' \in Dirs, base' \in Dirs, turning' \subseteq Dirs,
         SameDirs \/ switched, written' = written, removed' = removed, split' = split,
         switched' = switched, broken \subseteq broken', broken' \subseteq Sessions,
         cat' \in [Dirs -> Catalog], ops' \in 0..MaxOps, ThreadsNow,
         \A s \in Sessions : pool'[s] = None, pool' \in [Sessions -> Files \cup {None}], Waking',
         \A s : GoodNow(s) => (Waits(s) => HeldOrWaits(s)') /\ (Moving(s) => HeldOrWaits(s)')
  PROVE  StorageInv'
<1>1. StoreTyped /\ FilesInv
  BY DEF StorageInv
<1>2. \A f \in Files : f \notin known => rows'[f] = {}
  BY <1>1 DEF FilesInv
<1>3. Grows /\ FilesInv' /\ StoreTyped'
  BY <1>1, <1>2, StoreRests DEF StoreTyped
<1> QED
  BY <1>3, DownNext

LEMMA PurgeOldNext ==
  ASSUME PartsAssumption, StorageInv, Purge
  PROVE  StorageInv'
<1>1. /\ boot.pc = "purge" /\ cat' = [cat EXCEPT ![dir].old[boot.cur] = {}]
      /\ boot' = [boot EXCEPT !.pc = "next", !.cur = None, !.moved = TRUE]
      /\ hot' = hot /\ cold' = cold /\ rows' = rows /\ known' = known
      /\ pool' = pool /\ SameDirs /\ proc' = proc /\ written' = written /\ broken' = broken
      /\ split' = split /\ removed' = removed /\ switched' = switched /\ ops' = ops
  BY DEF Purge, files, history
<1>2. StoreTyped /\ FilesInv /\ Threads /\ Waking
  BY DEF StorageInv
<1>3. /\ boot \in [pc : BootPcs, todo : SUBSET Sessions, cur : Sessions \cup {None}, moved : BOOLEAN]
      /\ boot.cur # None /\ boot.cur \notin boot.todo
  BY <1>1, <1>2 DEF Waking
<1>4. dir \in Dirs /\ boot.cur \in Sessions /\ cat \in [Dirs -> Catalog]
  BY <1>2, <1>3 DEF StoreTyped
<1>5. /\ cat' \in [Dirs -> Catalog]
      /\ \A d \in Dirs : cat'[d].st = cat[d].st /\ cat'[d].there = cat[d].there
      /\ \A s \in Sessions : s # boot.cur => cat'[dir].old[s] = cat[dir].old[s]
  BY <1>1, <1>4 DEF Catalog
<1>6. CatGrows
  BY <1>1, <1>2, <1>4, <1>5 DEF CatGrows, FilesInv
<1>7. ThreadsNow
  BY <1>1, <1>2, ProcRest
<1>8. /\ boot' \in [pc : BootPcs, todo : SUBSET Sessions, cur : Sessions \cup {None}, moved : BOOLEAN]
      /\ boot'.pc = "next" /\ boot'.todo = boot.todo
  BY <1>1, <1>3 DEF BootPcs
<1>9. Waking'
  BY <1>1, <1>2, <1>4, <1>5, <1>8 DEF Waking, Listed
<1>10. ASSUME NEW s, GoodNow(s), Waits(s) PROVE HeldOrWaits(s)'
  <2>1. s \in boot.todo /\ s # boot.cur /\ s \in Sessions
    BY <1>1, <1>3, <1>10 DEF Waits, GoodNow
  <2> QED
    BY <1>1, <1>4, <1>5, <1>8, <1>10, <2>1 DEF Waits, Listed, HeldOrWaits
<1>11. \A s : ~Moving(s)
  BY <1>1 DEF Moving
<1>12. /\ \A s \in Sessions : pool'[s] = None
       /\ pool' \in [Sessions -> Files \cup {None}] /\ ops' \in 0..MaxOps /\ broken' \subseteq Sessions
       /\ dir' \in Dirs /\ base' \in Dirs /\ turning' \subseteq Dirs /\ broken \subseteq broken'
  BY <1>1, <1>2 DEF Waking, StoreTyped
<1> QED
  BY <1>1, <1>5, <1>6, <1>7, <1>9, <1>10, <1>11, <1>12, BootRest

LEMMA FinishMigrationNext ==
  ASSUME PartsAssumption, StorageInv, FinishMigration
  PROVE  StorageInv'
<1>1. /\ boot.pc = "next" /\ boot.todo = {} /\ boot' = [Off EXCEPT !.pc = "up"]
      /\ cat' = IF boot.moved THEN [cat EXCEPT ![dir].old = [s \in Sessions |-> {}]] ELSE cat
      /\ hot' = hot /\ cold' = cold /\ rows' = rows /\ known' = known
      /\ pool' = pool /\ SameDirs /\ proc' = proc /\ written' = written /\ broken' = broken
      /\ split' = split /\ removed' = removed /\ switched' = switched /\ ops' = ops
  BY DEF FinishMigration, files, history
<1>2. StoreTyped /\ FilesInv /\ Threads /\ Waking
  BY DEF StorageInv
<1>3. dir \in Dirs /\ cat \in [Dirs -> Catalog]
  BY <1>2 DEF StoreTyped
<1>4. /\ cat' \in [Dirs -> Catalog]
      /\ \A d \in Dirs : cat'[d].st = cat[d].st /\ cat'[d].there = cat[d].there
  BY <1>1, <1>3 DEF Catalog
<1>5. CatGrows
  BY <1>1, <1>2, <1>3, <1>4 DEF CatGrows, FilesInv
<1>6. ThreadsNow
  BY <1>1, <1>2, ProcRest
<1>7. /\ boot' \in [pc : BootPcs, todo : SUBSET Sessions, cur : Sessions \cup {None}, moved : BOOLEAN]
      /\ boot'.pc = "up" /\ boot'.todo = {}
  BY <1>1 DEF BootPcs, Off
<1>8. Waking'
  BY <1>1, <1>2, <1>7 DEF Waking
<1>9. \A s : ~Waits(s) /\ ~Moving(s)
  BY <1>1 DEF Waits, Moving
<1>10. /\ \A s \in Sessions : pool'[s] = None
       /\ pool' \in [Sessions -> Files \cup {None}] /\ ops' \in 0..MaxOps /\ broken' \subseteq Sessions
       /\ dir' \in Dirs /\ base' \in Dirs /\ turning' \subseteq Dirs /\ broken \subseteq broken'
  BY <1>1, <1>2 DEF Waking, StoreTyped
<1> QED
  BY <1>1, <1>4, <1>5, <1>6, <1>8, <1>9, <1>10, BootRest

LEMMA CrashNext ==
  ASSUME PartsAssumption, StorageInv, Crash
  PROVE  StorageInv'
<1>1. /\ ops < MaxOps /\ ops' = ops + 1 /\ boot' = Off
      /\ pool' = [s \in Sessions |-> None] /\ proc' = [p \in Procs |-> Idle]
      /\ broken' = IF boot.pc = "commit" THEN broken \cup {boot.cur} ELSE broken
      /\ cat' = cat /\ hot' = hot /\ cold' = cold /\ rows' = rows /\ known' = known
      /\ written' = written /\ split' = split /\ removed' = removed
      /\ switched' = switched /\ turning' = {} /\ base' = dir'
      /\ dir' \in {dir, base} \cup turning
  BY DEF Crash, files
<1>2. StoreTyped /\ FilesInv /\ Threads /\ Waking
  BY DEF StorageInv
<1>3. CatGrows /\ dir' \in Dirs /\ (SameDirs \/ switched)
  BY <1>1, <1>2 DEF CatGrows, FilesInv, StoreTyped
<1>4. broken \subseteq broken' /\ broken' \subseteq Sessions
  BY <1>1, <1>2 DEF StoreTyped, Waking
<1>5. ThreadsNow
  <2>1. Idle \in ThreadRec
    BY DEF Idle, ThreadRec, Pcs
  <2>2. RecOK(Idle) /\ ProcNow(Idle)
    BY <2>1 DEF RecOK, ProcNow, Idle
  <2> QED
    BY <1>1, <2>1, <2>2 DEF ThreadsNow
<1>6. /\ boot' \in [pc : BootPcs, todo : SUBSET Sessions, cur : Sessions \cup {None}, moved : BOOLEAN]
      /\ boot'.pc = "off" /\ boot'.todo = {} /\ \A p \in Procs : proc'[p].pc = "idle"
  BY <1>1 DEF BootPcs, Off, Idle
<1>7. Waking' /\ \A s \in Sessions : pool'[s] = None
  BY <1>1, <1>6 DEF Waking
<1>8. \A s : Waits(s) => Waits(s)'
  <2>1. CASE boot.pc = "up"
    BY <2>1 DEF Waits
  <2>2. CASE boot.pc # "up"
    <3>1. dir' = dir /\ base' = dir /\ base = dir
      BY <1>1, <1>2, <2>2 DEF Waking
    <3> QED
      BY <1>1, <1>6, <3>1 DEF Waits, Listed
  <2> QED
    BY <2>1, <2>2
<1>9. \A s : GoodNow(s) => ~Moving(s)
  BY <1>1 DEF GoodNow, Moving
<1>10. pool' \in [Sessions -> Files \cup {None}] /\ ops' \in 0..MaxOps
  BY <1>1, <1>2, StorageIs DEF StoreTyped
<1> QED
  BY <1>1, <1>2, <1>3, <1>4, <1>5, <1>7, <1>8, <1>9, <1>10, BootRest DEF HeldOrWaits, StoreTyped

(***************************************************************************)
(* Threads and commands.                                                   *)
(***************************************************************************)

\* What leaves the files where they are.
LEMMA UpRest ==
  ASSUME PartsAssumption, StorageInv, boot.pc = "up", boot' = boot, CatGrows,
         hot' = hot, cold' = cold, known' = known, SameDirs, split' = split,
         removed' = removed, broken' = broken, switched' = switched,
         cat' \in [Dirs -> Catalog], rows' \in [Files -> SUBSET Items],
         \A f \in Files : rows[f] \subseteq rows'[f],
         \A f \in Files : f \notin known => rows'[f] = {},
         pool' \in [Sessions -> Files \cup {None}], written' \in [Sessions -> SUBSET Items],
         ops' \in 0..MaxOps, ThreadsNow, PoolsNow,
         \A s : GoodNow(s) => written'[s] \subseteq written[s] \cup RowsOf(s)'
  PROVE  StorageInv'
<1>1. StoreTyped /\ FilesInv
  BY DEF StorageInv
<1>2. Grows /\ FilesInv' /\ StoreTyped'
  BY <1>1, StoreRests DEF StoreTyped
<1> QED
  BY <1>2, UpNext

\* A thread that begins with a session that is listed, or goes on with its own.
LEMMA AtIs ==
  ASSUME PartsAssumption, StorageInv, NEW s \in Sessions, Listed(s), NEW pc \in Pcs,
         pc \notin {"insert", "copy", "clean"}, NEW is \in SUBSET Items,
         \A d \in Dirs, t \in Sessions : Seen(d, t) => SeenNow(d, t), switched => switched'
  PROVE  LET r == [pc |-> pc, s |-> s, d |-> dir, file |-> None, items |-> is]
         IN  RecOK(r) /\ ProcNow(r)
<1>1. dir \in Dirs /\ s # None /\ dir # None /\ (~switched => dir = First)
  BY StorageIs DEF StorageInv, StoreTyped, FilesInv
<1> QED
  BY <1>1 DEF RecOK, ThreadRec, ProcNow

LEMMA BeginWriteNext ==
  ASSUME PartsAssumption, StorageInv, NEW p \in Procs, NEW s \in Sessions, NEW i \in Items,
         BeginWrite(p, s, i)
  PROVE  StorageInv'
<1>0. PICK r : r = [At("route", s) EXCEPT !.items = {i}]
  OBVIOUS
<1> r = [pc |-> "route", s |-> s, d |-> dir, file |-> None, items |-> {i}]
  BY <1>0 DEF At, Idle
<1>1. /\ boot.pc = "up" /\ ops < MaxOps /\ Listed(s) /\ ops' = ops + 1
      /\ proc' = [proc EXCEPT ![p] =
                    [pc |-> "route", s |-> s, d |-> dir, file |-> None, items |-> {i}]]
      /\ cat' = cat /\ hot' = hot /\ cold' = cold /\ rows' = rows /\ known' = known
      /\ pool' = pool /\ SameDirs /\ boot' = boot /\ written' = written /\ broken' = broken
      /\ split' = split /\ removed' = removed /\ switched' = switched
  BY <1>0 DEF BeginWrite, Begin, files, history
<1>2. StoreTyped /\ FilesInv /\ Threads
  BY DEF StorageInv
<1>3. CatGrows /\ ops' \in 0..MaxOps
  BY <1>1, <1>2, CatRests, StorageIs DEF StoreTyped
<1>4. \A d \in Dirs, t \in Sessions : Seen(d, t) => SeenNow(d, t)
  BY <1>1 DEF Seen, SeenNow
<1>5. ThreadsNow
  BY <1>1, <1>2, <1>4, AtIs, ProcSet DEF Pcs
<1>6. PoolsNow
  BY <1>1 DEF PoolsNow
<1>7. \A f \in Files : f \notin known => rows'[f] = {}
  BY <1>1, <1>2 DEF FilesInv
<1> QED
  BY <1>1, <1>2, <1>3, <1>5, <1>6, <1>7, UpRest DEF StoreTyped

\* A thread that is through, or reads further.
LEMMA GotoIs ==
  ASSUME PartsAssumption, StorageInv, NEW p \in Procs, proc[p].pc # "idle",
         Done(p) \/ (\E pc \in Pcs \ {"insert", "copy", "clean"} : Goto(p, pc)), Grows
  PROVE  ThreadsNow
<1>1. Threads /\ RecOK(proc[p]) /\ ProcOK(proc[p]) /\ proc \in [Procs -> ThreadRec]
  BY DEF StorageInv, Threads
<1>2. CASE Done(p)
  <2>1. RecOK(Idle) /\ ProcNow(Idle)
    BY DEF RecOK, ProcNow, Idle, ThreadRec, Pcs
  <2> QED
    BY <1>1, <1>2, <2>1, ProcSet DEF Done
<1>3. CASE \E pc \in Pcs \ {"insert", "copy", "clean"} : Goto(p, pc)
  <2>1. PICK pc \in Pcs \ {"insert", "copy", "clean"} : Goto(p, pc)
    BY <1>3
  <2>2. PICK r : r = [proc[p] EXCEPT !.pc = pc]
    OBVIOUS
  <2>3. proc' = [proc EXCEPT ![p] = r]
    BY <1>1, <2>1, <2>2 DEF Goto
  <2>4. r \in ThreadRec /\ r.pc = pc /\ r.s = proc[p].s /\ r.d = proc[p].d /\ r.file = proc[p].file
    BY <1>1, <2>2 DEF ThreadRec
  <2>5. RecOK(r) /\ ProcOK(r)
    BY <1>1, <2>4 DEF RecOK, ProcOK
  <2>6. ProcNow(r)
    BY <2>5, ProcStays
  <2> QED
    BY <1>1, <2>3, <2>5, <2>6, ProcSet
<1> QED
  BY <1>2, <1>3

LEMMA RouteNext ==
  ASSUME PartsAssumption, StorageInv, NEW p \in Procs, Route(p), boot.pc = "up"
  PROVE  StorageInv'
<1>1. /\ proc[p].pc = "route" /\ (Done(p) \/ Goto(p, "open"))
      /\ cat' = cat /\ hot' = hot /\ cold' = cold /\ rows' = rows /\ known' = known
      /\ pool' = pool /\ SameDirs /\ boot' = boot /\ written' = written /\ broken' = broken
      /\ split' = split /\ removed' = removed /\ switched' = switched /\ ops' = ops
  BY DEF Route, files, history
<1>2. StoreTyped /\ FilesInv
  BY DEF StorageInv
<1>3. CatGrows
  BY <1>1, <1>2, CatRests
<1>4. \A f \in Files : f \notin known => rows'[f] = {}
  BY <1>1, <1>2 DEF FilesInv
<1>5. Grows
  BY <1>1, <1>2, <1>3, <1>4, StoreRests
<1>6. ThreadsNow
  BY <1>1, <1>5, GotoIs DEF Pcs
<1>7. PoolsNow
  BY <1>1 DEF PoolsNow
<1> QED
  BY <1>1, <1>2, <1>3, <1>4, <1>6, <1>7, UpRest DEF StoreTyped

\* A thread that is about to write holds a connection to a file of its session.
LEMMA UsingIs ==
  ASSUME PartsAssumption, StorageInv, NEW p \in Procs, proc[p].pc = "open", Grows,
         NEW f \in Files, f \in known',
         proc[p].s \notin removed' /\ proc[p].s \notin split' => f \in PlacesNow(proc[p].s),
         pool' = [pool EXCEPT ![proc[p].s] = f],
         proc' = [proc EXCEPT ![p] = Using(p, f)]
  PROVE  ThreadsNow /\ PoolsNow /\ pool' \in [Sessions -> Files \cup {None}]
<1>1. /\ Threads /\ RecOK(proc[p]) /\ ProcOK(proc[p]) /\ proc \in [Procs -> ThreadRec]
      /\ pool \in [Sessions -> Files \cup {None}] /\ f # None
  BY StorageIs DEF StorageInv, Threads, StoreTyped
<1>2. PICK r : r = Using(p, f)
  OBVIOUS
<1>3. proc' = [proc EXCEPT ![p] = r]
  BY <1>2
<1>4. r \in ThreadRec /\ r.pc = "insert" /\ r.s = proc[p].s /\ r.d = proc[p].d /\ r.file = f
  BY <1>1, <1>2 DEF ThreadRec, Pcs, Using
<1>5. proc[p].s \in Sessions /\ proc[p].d \in Dirs
  BY <1>1 DEF RecOK, ThreadRec
<1>6. RecOK(r)
  BY <1>1, <1>4 DEF RecOK
<1>7. ProcNow(r)
  BY <1>1, <1>4, <1>5 DEF ProcOK, ProcNow, Grows
<1>8. PoolsNow /\ pool' \in [Sessions -> Files \cup {None}]
  BY <1>1, <1>5 DEF PoolsNow
<1> QED
  BY <1>1, <1>3, <1>6, <1>7, <1>8, ProcSet

LEMMA OpenNext ==
  ASSUME PartsAssumption, StorageInv, NEW p \in Procs, Open(p), boot.pc = "up"
  PROVE  StorageInv'
<1>0. PICK s, d : s = proc[p].s /\ d = proc[p].d
  OBVIOUS
<1>1. /\ proc[p].pc = "open"
      /\ cat' = cat /\ cold' = cold /\ rows' = rows /\ SameDirs /\ boot' = boot
      /\ written' = written /\ broken' = broken /\ removed' = removed /\ switched' = switched
      /\ ops' = ops
  BY DEF Open
<1>2. StoreTyped /\ FilesInv /\ Pools /\ RecOK(proc[p]) /\ ProcOK(proc[p])
  BY DEF StorageInv, Threads
<1>3. s \in Sessions /\ d \in Dirs /\ (d = First \/ switched)
  BY <1>0, <1>1, <1>2 DEF RecOK, ThreadRec, ProcOK
<1>4. CatGrows
  BY <1>1, <1>2, CatRests
<1>5. \A f \in Files : f \notin known => rows'[f] = {}
  BY <1>1, <1>2 DEF FilesInv
<1>6. ASSUME NEW f, UNCHANGED <<hot, known, split>>, f \in known,
             s \notin removed /\ s \notin split => f \in PlacesOf(s),
             pool' = [pool EXCEPT ![s] = f],
             proc' = [proc EXCEPT ![p] = Using(p, f)]
      PROVE  StorageInv'
  <2>1. Grows
    BY <1>1, <1>2, <1>4, <1>5, <1>6, StoreRests
  <2>2. f \in Files /\ f \in known'
    BY <1>2, <1>6 DEF StoreTyped
  <2>3. s \notin removed' /\ s \notin split' => f \in PlacesNow(s)
    BY <1>1, <1>6 DEF PlacesOf, PlacesNow
  <2>4. ThreadsNow /\ PoolsNow /\ pool' \in [Sessions -> Files \cup {None}]
    BY <1>0, <1>1, <1>6, <2>1, <2>2, <2>3, UsingIs
  <2> QED
    BY <1>1, <1>2, <1>4, <1>5, <1>6, <2>4, UpRest DEF StoreTyped
<1>7. CASE /\ pool[s] # None /\ UNCHANGED <<hot, known, split>>
           /\ pool' = [pool EXCEPT ![s] = pool[s]]
           /\ proc' = [proc EXCEPT ![p] = Using(p, pool[s])]
  <2>1. pool[s] \in known /\ (s \notin removed /\ s \notin split => pool[s] \in PlacesOf(s))
    BY <1>2, <1>3, <1>7 DEF Pools
  <2> QED
    BY <1>6, <1>7, <2>1
<1>8. CASE /\ hot[d][s] # None /\ UNCHANGED <<hot, known, split>>
           /\ pool' = [pool EXCEPT ![s] = hot[d][s]]
           /\ proc' = [proc EXCEPT ![p] = Using(p, hot[d][s])]
  <2>1. hot[d][s] \in known /\ hot[d][s] \in PlacesOf(s)
    BY <1>2, <1>3, <1>8 DEF FilesInv, PlacesOf
  <2> QED
    BY <1>6, <1>8, <2>1
<1>9. CASE /\ hot[d][s] = None
           /\ \E f \in Files : /\ NewFile(d, s, f) /\ pool' = [pool EXCEPT ![s] = f]
                               /\ proc' = [proc EXCEPT ![p] = Using(p, f)]
           /\ split' = IF cold[d][s] = None /\ cat[d].st[s] # "none" THEN split
                       ELSE split \cup {s}
  <2>1. PICK f \in Files : /\ NewFile(d, s, f) /\ pool' = [pool EXCEPT ![s] = f]
                           /\ proc' = [proc EXCEPT ![p] = Using(p, f)]
    BY <1>9
  <2>2. split \subseteq split' /\ (cold[d][s] # None => s \in split') /\ split' \subseteq Sessions
    BY <1>2, <1>3, <1>9 DEF StoreTyped
  <2>3. SeenNow(d, s) \/ s \in split'
    BY <1>1, <1>9 DEF SeenNow
  <2>4. /\ Grows /\ FilesInv' /\ known' \subseteq Files /\ f \in known'
        /\ f \in PlacesNow(s) /\ hot' \in [Dirs -> [Sessions -> Files \cup {None}]]
    BY <1>1, <1>2, <1>3, <1>4, <1>9, <2>1, <2>2, <2>3, NewFileIs
  <2>5. ThreadsNow /\ PoolsNow /\ pool' \in [Sessions -> Files \cup {None}]
    BY <1>0, <1>1, <2>1, <2>4, UsingIs
  <2>6. StoreTyped'
    BY <1>1, <1>2, <2>2, <2>4, <2>5 DEF StoreTyped
  <2> QED
    BY <1>1, <2>4, <2>5, <2>6, UpNext
<1> QED
  BY <1>0, <1>7, <1>8, <1>9 DEF Open

\* Rows come into a file of their session.
LEMMA RowsNext ==
  ASSUME PartsAssumption, StorageInv, NEW p \in Procs, Insert(p) \/ ForkCopy(p), boot.pc = "up"
  PROVE  StorageInv'
<1>0. PICK s, f, is : s = proc[p].s /\ f = proc[p].file /\ is = proc[p].items
  OBVIOUS
<1>1. /\ proc[p].pc \in {"insert", "copy"} /\ Done(p)
      /\ rows' = [rows EXCEPT ![f] = rows[f] \cup is]
      /\ written' = [written EXCEPT ![s] = written[s] \cup is]
      /\ cat' = cat /\ hot' = hot /\ cold' = cold /\ known' = known
      /\ pool' = pool /\ SameDirs /\ boot' = boot /\ broken' = broken
      /\ split' = split /\ removed' = removed /\ switched' = switched /\ ops' = ops
  BY <1>0 DEF Insert, ForkCopy, history
<1>2. StoreTyped /\ FilesInv /\ RecOK(proc[p]) /\ ProcOK(proc[p])
  BY DEF StorageInv, Threads
<1>3. /\ s \in Sessions /\ f \in known /\ f \in Files /\ is \in SUBSET Items
      /\ s \notin removed /\ s \notin split => f \in PlacesOf(s)
  BY <1>0, <1>1, <1>2 DEF RecOK, ThreadRec, ProcOK, StoreTyped
<1>4. /\ rows' \in [Files -> SUBSET Items] /\ \A g \in Files : rows[g] \subseteq rows'[g]
      /\ rows'[f] = rows[f] \cup is /\ \A g \in Files : g # f => rows'[g] = rows[g]
  BY <1>1, <1>2, <1>3 DEF StoreTyped
<1>5. \A g \in Files : g \notin known => rows'[g] = {}
  BY <1>2, <1>3, <1>4 DEF FilesInv
<1>6. /\ written' \in [Sessions -> SUBSET Items] /\ written'[s] = written[s] \cup is
      /\ \A t \in Sessions : t # s => written'[t] = written[t]
  BY <1>1, <1>2, <1>3 DEF StoreTyped
<1>7. CatGrows
  BY <1>1, <1>2, CatRests
<1>8. Grows
  BY <1>1, <1>2, <1>4, <1>5, <1>7, StoreRests
<1>9. ThreadsNow
  BY <1>1, <1>8, GotoIs
<1>10. PoolsNow
  BY <1>1 DEF PoolsNow
<1>11. ASSUME NEW t, GoodNow(t) PROVE written'[t] \subseteq written[t] \cup RowsOf(t)'
  <2>1. CASE t = s
    <3>1. f \in PlacesOf(s)'
      BY <1>1, <1>3, <1>11, <2>1 DEF GoodNow, PlacesOf
    <3>2. is \subseteq RowsOf(s)'
      BY <1>4, <3>1 DEF RowsOf
    <3> QED
      BY <1>6, <2>1, <3>2
  <2>2. CASE t # s
    BY <1>6, <1>11, <2>2 DEF GoodNow
  <2> QED
    BY <2>1, <2>2
<1> QED
  BY <1>1, <1>2, <1>4, <1>5, <1>6, <1>7, <1>9, <1>10, <1>11, UpRest DEF StoreTyped

\* The catalog lists a session.
LEMMA SetIs ==
  ASSUME StorageInv, NEW s \in Sessions, NEW st \in Status, st # "none", SameDirs,
         cat' = [cat EXCEPT ![base].st[s] = st]
  PROVE  cat' \in [Dirs -> Catalog] /\ CatGrows /\ cat'[base].st[s] = st
<1>1. base \in Dirs /\ cat \in [Dirs -> Catalog] /\ FilesInv
  BY DEF StorageInv, StoreTyped
<1>2. /\ cat' \in [Dirs -> Catalog] /\ cat'[base].st[s] = st
      /\ \A d \in Dirs : cat'[d].there = cat[d].there
      /\ \A d \in Dirs, t \in Sessions : d # base \/ t # s => cat'[d].st[t] = cat[d].st[t]
  BY <1>1 DEF Catalog
<1> QED
  BY <1>1, <1>2 DEF CatGrows, FilesInv

LEMMA CreateSessionNext ==
  ASSUME PartsAssumption, StorageInv, NEW s \in Sessions, CreateSession(s)
  PROVE  StorageInv'
<1>1. /\ boot.pc = "up" /\ ops < MaxOps /\ ops' = ops + 1
      /\ cat' = [cat EXCEPT ![base].st[s] = "active"]
      /\ hot' = hot /\ cold' = cold /\ rows' = rows /\ known' = known /\ proc' = proc
      /\ pool' = pool /\ SameDirs /\ boot' = boot /\ written' = written /\ broken' = broken
      /\ split' = split /\ removed' = removed /\ switched' = switched
  BY DEF CreateSession, files, history
<1>2. StoreTyped /\ FilesInv /\ Threads
  BY DEF StorageInv
<1>3. ops' \in 0..MaxOps /\ cat' \in [Dirs -> Catalog] /\ CatGrows
  <2>1. ops' \in 0..MaxOps
    BY <1>1, <1>2, StorageIs DEF StoreTyped
  <2>2. cat' \in [Dirs -> Catalog] /\ CatGrows
    BY <1>1, SetIs DEF Status
  <2> QED
    BY <2>1, <2>2
<1>4. ThreadsNow
  BY <1>1, <1>2, ProcRest
<1>5. PoolsNow
  BY <1>1 DEF PoolsNow
<1>6. \A f \in Files : f \notin known => rows'[f] = {}
  BY <1>1, <1>2 DEF FilesInv
<1> QED
  BY <1>1, <1>2, <1>3, <1>4, <1>5, <1>6, UpRest DEF StoreTyped

LEMMA ForkSessionNext ==
  ASSUME PartsAssumption, StorageInv, NEW p \in Procs, NEW s \in Sessions, NEW new \in Sessions,
         NEW R \in SUBSET Items, ForkSession(p, s, new, R)
  PROVE  StorageInv'
<1>1. /\ boot.pc = "up" /\ ops < MaxOps /\ ops' = ops + 1 /\ Unused(new)
      /\ cat' = [cat EXCEPT ![base].st[new] = "active"]
      /\ split' = IF base = dir THEN split ELSE split \cup {new}
      /\ cold' = cold /\ rows' = rows /\ SameDirs /\ boot' = boot /\ written' = written
      /\ broken' = broken /\ removed' = removed /\ switched' = switched
  BY DEF ForkSession, Begin, history
<1>2. PICK f \in Files :
        /\ NewFile(dir, new, f) /\ pool' = [pool EXCEPT ![new] = f]
        /\ proc' = [proc EXCEPT ![p] = Copying(new, f, R)]
  BY DEF ForkSession
<1>3. PICK r : r = Copying(new, f, R)
  OBVIOUS
<1>4. StoreTyped /\ FilesInv /\ Threads /\ dir \in Dirs
  BY DEF StorageInv, StoreTyped
<1>5. /\ ops' \in 0..MaxOps /\ cat' \in [Dirs -> Catalog] /\ CatGrows
      /\ SeenNow(dir, new) \/ new \in split'
      /\ split \subseteq split' /\ split' \subseteq Sessions
  <2>1. ops' \in 0..MaxOps
    BY <1>1, <1>4, StorageIs DEF StoreTyped
  <2>2. cat' \in [Dirs -> Catalog] /\ CatGrows /\ cat'[base].st[new] = "active"
    BY <1>1, SetIs DEF Status
  <2>3. split \subseteq split' /\ split' \subseteq Sessions /\ (base = dir \/ new \in split')
    BY <1>1, <1>4 DEF StoreTyped
  <2> QED
    BY <2>1, <2>2, <2>3 DEF SeenNow
<1>6. hot[dir][new] = None /\ cold[dir][new] = None /\ (dir = First \/ switched)
  BY <1>1, <1>4 DEF Unused, Fresh, FilesInv
<1>7. /\ Grows /\ FilesInv' /\ known' \subseteq Files /\ f \in known' /\ f # None
      /\ f \in PlacesNow(new) /\ hot' \in [Dirs -> [Sessions -> Files \cup {None}]]
  BY <1>1, <1>2, <1>4, <1>5, <1>6, NewFileIs
<1>8. r = [pc |-> "copy", s |-> new, d |-> dir, file |-> f, items |-> R]
  BY <1>3 DEF Copying, At, Idle
<1>9. RecOK(r)
  BY <1>4, <1>7, <1>8, StorageIs DEF RecOK, ThreadRec, Pcs
<1>10. ProcNow(r)
  BY <1>1, <1>5, <1>6, <1>7, <1>8 DEF ProcNow
<1>11. ThreadsNow
  BY <1>2, <1>3, <1>4, <1>9, <1>10, ProcSet
<1>12. pool' \in [Sessions -> Files \cup {None}] /\ PoolsNow
  BY <1>2, <1>4, <1>7 DEF StoreTyped, PoolsNow
<1>13. StoreTyped'
  BY <1>1, <1>4, <1>5, <1>7, <1>12 DEF StoreTyped
<1> QED
  BY <1>1, <1>7, <1>11, <1>12, <1>13, UpNext

LEMMA DeleteSessionNext ==
  ASSUME PartsAssumption, StorageInv, NEW p \in Procs, NEW s \in Sessions, DeleteSession(p, s)
  PROVE  StorageInv'
<1>0. PICK r : r = At("delRow", s)
  OBVIOUS
<1> r = [pc |-> "delRow", s |-> s, d |-> dir, file |-> None, items |-> {}]
  BY <1>0 DEF At, Idle
<1>1. /\ boot.pc = "up" /\ ops < MaxOps /\ Listed(s) /\ ops' = ops + 1
      /\ pool' = [pool EXCEPT ![s] = None]
      /\ proc' = [proc EXCEPT ![p] =
                    [pc |-> "delRow", s |-> s, d |-> dir, file |-> None, items |-> {}]]
      /\ cat' = cat /\ hot' = hot /\ cold' = cold /\ rows' = rows /\ known' = known
      /\ SameDirs /\ boot' = boot /\ written' = written /\ broken' = broken
      /\ split' = split /\ removed' = removed /\ switched' = switched
  BY <1>0 DEF DeleteSession, Begin, files, history
<1>2. StoreTyped /\ FilesInv /\ Threads
  BY DEF StorageInv
<1>3. CatGrows /\ ops' \in 0..MaxOps
  BY <1>1, <1>2, CatRests, StorageIs DEF StoreTyped
<1>4. \A d \in Dirs, t \in Sessions : Seen(d, t) => SeenNow(d, t)
  BY <1>1 DEF Seen, SeenNow
<1>5. ThreadsNow
  BY <1>1, <1>2, <1>4, AtIs, ProcSet DEF Pcs
<1>6. PoolsNow /\ pool' \in [Sessions -> Files \cup {None}]
  BY <1>1, <1>2 DEF PoolsNow, StoreTyped
<1>7. \A f \in Files : f \notin known => rows'[f] = {}
  BY <1>1, <1>2 DEF FilesInv
<1> QED
  BY <1>1, <1>2, <1>3, <1>5, <1>6, <1>7, UpRest DEF StoreTyped

\* What a catalog loses counts as removed from then on.
LEMMA DeleteRowNext ==
  ASSUME PartsAssumption, StorageInv, NEW p \in Procs, DeleteRow(p), boot.pc = "up"
  PROVE  StorageInv'
<1>0. PICK gone : gone = {s \in Sessions : s = proc[p].s \/ (Parent[s] = proc[p].s /\ Listed(s))}
  OBVIOUS
<1>1. /\ proc[p].pc = "delRow"
      /\ cat' = [cat EXCEPT
          ![base].st = [s \in Sessions |-> IF s \in gone THEN "none" ELSE cat[base].st[s]],
          ![base].old = [s \in Sessions |-> IF s \in gone THEN {} ELSE cat[base].old[s]]]
      /\ proc' = [proc EXCEPT ![p].pc = "clean", ![p].d = dir]
      /\ written' = [s \in Sessions |-> IF s \in gone THEN {} ELSE written[s]]
      /\ removed' = removed \cup gone
      /\ hot' = hot /\ cold' = cold /\ rows' = rows /\ known' = known
      /\ pool' = pool /\ SameDirs /\ boot' = boot /\ broken' = broken
      /\ split' = split /\ switched' = switched /\ ops' = ops
  BY <1>0 DEF DeleteRow, files
<1>2. /\ StoreTyped /\ FilesInv /\ Threads /\ RecOK(proc[p]) /\ ProcOK(proc[p])
      /\ dir \in Dirs /\ base \in Dirs /\ cat \in [Dirs -> Catalog]
      /\ proc \in [Procs -> ThreadRec] /\ proc[p].s \in Sessions
  BY <1>1 DEF StorageInv, Threads, StoreTyped, RecOK, ThreadRec
<1>3. gone \subseteq Sessions /\ proc[p].s \in gone
  BY <1>0, <1>2
<1>4. /\ cat' \in [Dirs -> Catalog] /\ \A d \in Dirs : cat'[d].there = cat[d].there
      /\ \A d \in Dirs, s \in Sessions :
           cat'[d].st[s] = IF d = base /\ s \in gone THEN "none" ELSE cat[d].st[s]
  <2> DEFINE A == [s \in Sessions |-> IF s \in gone THEN "none" ELSE cat[base].st[s]]
             B == [s \in Sessions |-> IF s \in gone THEN {} ELSE cat[base].old[s]]
             c == [cat[base] EXCEPT !.st = A, !.old = B]
  <2>1. A \in [Sessions -> Status] /\ B \in [Sessions -> SUBSET Items]
    BY <1>2 DEF Catalog, Status
  <2>2. \A s \in Sessions : A[s] = IF s \in gone THEN "none" ELSE cat[base].st[s]
    OBVIOUS
  <2>3. cat' = [cat EXCEPT ![base].st = A, ![base].old = B]
    BY <1>1
  <2> HIDE DEF A, B
  <2>4. c \in Catalog /\ c.there = cat[base].there /\ c.st = A
    BY <1>2, <2>1 DEF Catalog
  <2>5. cat' = [cat EXCEPT ![base] = c]
    BY <1>2, <2>3
  <2> HIDE DEF c
  <2> QED
    BY <1>2, <2>2, <2>4, <2>5
<1>5. StoreTyped'
  BY <1>1, <1>2, <1>3, <1>4 DEF StoreTyped
<1>6. \A d \in Dirs, s \in Sessions : Seen(d, s) => SeenNow(d, s)
  BY <1>1, <1>4 DEF Seen, SeenNow
<1>7. Grows
  BY <1>1, <1>6 DEF Grows, PlacesOf, PlacesNow
<1>8. FilesInv'
  <2>1. ASSUME NEW d \in Dirs, NEW s \in Sessions
        PROVE  /\ hot'[d][s] \in known' \cup {None} /\ cold'[d][s] \in known' \cup {None}
               /\ s \notin split' => hot'[d][s] = None \/ cold'[d][s] = None
               /\ hot'[d][s] # None \/ cold'[d][s] # None => SeenNow(d, s) \/ s \in split'
               /\ ~cat'[d].there => cat'[d].st[s] = "none"
    BY <1>1, <1>2, <1>4, <1>6 DEF FilesInv
  <2>2. ~switched' => /\ dir' = First /\ base' = First /\ turning' = {}
                      /\ \A d \in Dirs \ {First}, s \in Sessions :
                           hot'[d][s] = None /\ cold'[d][s] = None
    BY <1>1, <1>2 DEF FilesInv
  <2>3. (\A e \in UsedNow : cat'[e].there) /\ \A f \in Files : f \notin known' => rows'[f] = {}
    BY <1>1, <1>2, <1>4 DEF FilesInv, StoreTyped
  <2> QED
    BY <2>1, <2>2, <2>3 DEF FilesInv, Seen, SeenNow
<1>9. ThreadsNow
  <2>1. PICK r : r = [proc[p] EXCEPT !.pc = "clean", !.d = dir]
    OBVIOUS
  <2>2. proc' = [proc EXCEPT ![p] = r]
    BY <1>1, <1>2, <2>1
  <2>3. r \in ThreadRec /\ r.pc = "clean" /\ r.s = proc[p].s /\ r.d = dir /\ r.file = proc[p].file
    BY <1>2, <2>1 DEF ThreadRec, Pcs
  <2>4. RecOK(r)
    BY <1>2, <2>3, StorageIs DEF RecOK
  <2>5. ProcNow(r)
    BY <1>1, <1>2, <1>3, <2>3 DEF ProcNow, ProcOK, SeenNow, FilesInv
  <2> QED
    BY <1>2, <2>2, <2>4, <2>5, ProcSet
<1>10. PoolsNow
  BY <1>1 DEF PoolsNow
<1>11. \A s : GoodNow(s) => written'[s] \subseteq written[s] \cup RowsOf(s)'
  BY <1>1 DEF GoodNow
<1> QED
  BY <1>1, <1>5, <1>7, <1>8, <1>9, <1>10, <1>11, UpNext

\* The status alone changes; the files follow in the background.
LEMMA SetStatusNext ==
  ASSUME PartsAssumption, StorageInv, NEW p \in Procs, NEW s \in Sessions,
         NEW st \in {"active", "archived"}, NEW pc \in {"move", "back"}, SetStatus(p, s, st, pc)
  PROVE  StorageInv'
<1>0. PICK r : r = At(pc, s)
  OBVIOUS
<1> r = [pc |-> pc, s |-> s, d |-> dir, file |-> None, items |-> {}]
  BY <1>0 DEF At, Idle
<1>1. /\ boot.pc = "up" /\ ops < MaxOps /\ Listed(s) /\ ops' = ops + 1
      /\ cat' = [cat EXCEPT ![base].st[s] = st]
      /\ proc' = [proc EXCEPT ![p] = [pc |-> pc, s |-> s, d |-> dir, file |-> None, items |-> {}]]
      /\ hot' = hot /\ cold' = cold /\ rows' = rows /\ known' = known
      /\ pool' = pool /\ SameDirs /\ boot' = boot /\ written' = written /\ broken' = broken
      /\ split' = split /\ removed' = removed /\ switched' = switched
  BY <1>0 DEF SetStatus, Begin, files, history
<1>2. StoreTyped /\ FilesInv /\ Threads
  BY DEF StorageInv
<1>3. ops' \in 0..MaxOps /\ cat' \in [Dirs -> Catalog] /\ CatGrows
  <2>1. ops' \in 0..MaxOps
    BY <1>1, <1>2, StorageIs DEF StoreTyped
  <2>2. cat' \in [Dirs -> Catalog] /\ CatGrows
    BY <1>1, SetIs DEF Status
  <2> QED
    BY <2>1, <2>2
<1>4. \A d \in Dirs, t \in Sessions : Seen(d, t) => SeenNow(d, t)
  BY <1>1, <1>3 DEF Seen, SeenNow, CatGrows
<1>5. ThreadsNow
  BY <1>1, <1>2, <1>4, AtIs, ProcSet DEF Pcs
<1>6. PoolsNow
  BY <1>1 DEF PoolsNow
<1>7. \A f \in Files : f \notin known => rows'[f] = {}
  BY <1>1, <1>2 DEF FilesInv
<1> QED
  BY <1>1, <1>2, <1>3, <1>5, <1>6, <1>7, UpRest DEF StoreTyped

\* The files of a session move, or are taken away when it was removed.
LEMMA MovesNext ==
  ASSUME PartsAssumption, StorageInv, NEW p \in Procs, proc[p].pc # "idle", Done(p),
         boot.pc = "up", NEW d, NEW s, d = proc[p].d, s = proc[p].s,
         NEW x \in {hot[d][s], cold[d][s], None}, NEW y \in {hot[d][s], cold[d][s], None},
         hot' = Put(hot, d, s, x), cold' = Put(cold, d, s, y),
         s \notin split => x = None \/ y = None,
         s \notin removed /\ s \notin split => {hot[d][s], cold[d][s]} \subseteq {x, y, None},
         cat' = cat, rows' = rows, known' = known, pool' = pool, SameDirs, boot' = boot,
         written' = written, broken' = broken, split' = split, removed' = removed,
         switched' = switched, ops' = ops
  PROVE  StorageInv'
<1>1. StoreTyped /\ FilesInv /\ RecOK(proc[p]) /\ ProcOK(proc[p])
  BY DEF StorageInv, Threads
<1>2. d \in Dirs /\ s \in Sessions
  BY <1>1 DEF RecOK, ThreadRec, ProcOK
<1>3. x \in Files \cup {None} /\ y \in Files \cup {None}
  BY <1>1, <1>2 DEF StoreTyped
<1>4. /\ hot' \in [Dirs -> [Sessions -> Files \cup {None}]] /\ hot'[d][s] = x
      /\ \A e \in Dirs, t \in Sessions : e # d \/ t # s => hot'[e][t] = hot[e][t]
  <2>1. hot \in [Dirs -> [Sessions -> Files \cup {None}]]
    BY <1>1 DEF StoreTyped
  <2> HIDE DEF Files
  <2> QED
    BY <1>2, <1>3, <2>1, PutIs
<1>5. /\ cold' \in [Dirs -> [Sessions -> Files \cup {None}]] /\ cold'[d][s] = y
      /\ \A e \in Dirs, t \in Sessions : e # d \/ t # s => cold'[e][t] = cold[e][t]
  <2>1. cold \in [Dirs -> [Sessions -> Files \cup {None}]]
    BY <1>1 DEF StoreTyped
  <2> HIDE DEF Files
  <2> QED
    BY <1>2, <1>3, <2>1, PutIs
<1>6. StoreTyped'
  BY <1>1, <1>4, <1>5 DEF StoreTyped
<1>7. ASSUME NEW t \in Sessions, t \notin removed, t \notin split
      PROVE  PlacesOf(t) \subseteq PlacesNow(t)
  <2>1. ASSUME NEW e \in Dirs, NEW f \in {hot[e][t], cold[e][t]}
        PROVE  f \in {hot'[e][t], cold'[e][t], None}
    <3>1. CASE e = d /\ t = s
      <4>1. f \in {x, y, None} /\ hot'[e][t] = x /\ cold'[e][t] = y
        BY <1>4, <1>5, <1>7, <2>1, <3>1
      <4> QED
        BY <4>1
    <3>2. CASE e # d \/ t # s
      <4>1. hot'[e][t] = hot[e][t] /\ cold'[e][t] = cold[e][t]
        BY <1>4, <1>5, <3>2
      <4> QED
        BY <2>1, <4>1
    <3> QED
      BY <3>1, <3>2
  <2> QED
    BY <2>1 DEF PlacesOf, PlacesNow
<1>8. Grows
  BY <1>7 DEF Grows, Seen, SeenNow
<1>9. FilesInv'
  <2>1. ASSUME NEW e \in Dirs, NEW t \in Sessions
        PROVE  /\ hot'[e][t] \in known' \cup {None} /\ cold'[e][t] \in known' \cup {None}
               /\ t \notin split' => hot'[e][t] = None \/ cold'[e][t] = None
               /\ hot'[e][t] # None \/ cold'[e][t] # None => SeenNow(e, t) \/ t \in split'
               /\ ~cat'[e].there => cat'[e].st[t] = "none"
    <3>1. CASE e = d /\ t = s
      <4>1. x \in known \cup {None} /\ y \in known \cup {None}
        BY <1>1, <1>2 DEF FilesInv
      <4>2. /\ x # None \/ y # None => SeenNow(d, s) \/ s \in split'
            /\ ~cat[e].there => cat[e].st[t] = "none"
        BY <1>1, <1>2 DEF Seen, SeenNow, FilesInv
      <4>3. hot'[e][t] = x /\ cold'[e][t] = y
        BY <1>4, <1>5, <3>1
      <4> QED
        BY <3>1, <4>1, <4>2, <4>3
    <3>2. CASE e # d \/ t # s
      BY <1>1, <1>4, <1>5, <3>2 DEF FilesInv, Seen, SeenNow
    <3> QED
      BY <3>1, <3>2
  <2>2. ~switched' => /\ dir' = First /\ base' = First /\ turning' = {}
                      /\ \A e \in Dirs \ {First}, t \in Sessions :
                           hot'[e][t] = None /\ cold'[e][t] = None
    <3>1. SUFFICES ASSUME ~switched, NEW e \in Dirs, e # First, NEW t \in Sessions
                   PROVE  hot'[e][t] = None /\ cold'[e][t] = None
      BY <1>1 DEF FilesInv
    <3>2. hot[e][t] = None /\ cold[e][t] = None
      BY <1>1, <3>1 DEF FilesInv
    <3>3. e = d /\ t = s => x = None /\ y = None
      BY <3>2
    <3> QED
      BY <1>4, <1>5, <3>2, <3>3
  <2>3. (\A e \in UsedNow : cat'[e].there) /\ \A f \in Files : f \notin known' => rows'[f] = {}
    BY <1>1 DEF FilesInv
  <2> QED
    BY <2>1, <2>2, <2>3 DEF FilesInv, Seen, SeenNow
<1>10. ThreadsNow
  BY <1>8, GotoIs
<1>11. PoolsNow
  BY DEF PoolsNow
<1> QED
  BY <1>6, <1>8, <1>9, <1>10, <1>11, UpNext

LEMMA CleanNext ==
  ASSUME PartsAssumption, StorageInv, NEW p \in Procs, Clean(p), boot.pc = "up"
  PROVE  StorageInv'
<1>0. PICK s, d : s = proc[p].s /\ d = proc[p].d
  OBVIOUS
<1>1. /\ proc[p].pc = "clean" /\ Done(p)
      /\ hot' = Put(hot, d, s, None) /\ cold' = Put(cold, d, s, None)
      /\ cat' = cat /\ rows' = rows /\ known' = known /\ pool' = pool /\ SameDirs
      /\ boot' = boot /\ written' = written /\ broken' = broken /\ split' = split
      /\ removed' = removed /\ switched' = switched /\ ops' = ops
  BY <1>0 DEF Clean, history
<1>2. s \in removed
  BY <1>0, <1>1 DEF StorageInv, Threads, ProcOK
<1> QED
  BY <1>0, <1>1, <1>2, MovesNext

\* Nothing of a thread but that it is through.
LEMMA DoneNext ==
  ASSUME PartsAssumption, StorageInv, NEW p \in Procs, proc[p].pc # "idle", Done(p),
         boot.pc = "up", hot' = hot, cold' = cold,
         cat' = cat, rows' = rows, known' = known, pool' = pool, SameDirs, boot' = boot,
         written' = written, broken' = broken, split' = split, removed' = removed,
         switched' = switched, ops' = ops
  PROVE  StorageInv'
<1>1. StoreTyped /\ FilesInv
  BY DEF StorageInv
<1>2. CatGrows
  BY <1>1, CatRests
<1>3. \A f \in Files : f \notin known => rows'[f] = {}
  BY <1>1 DEF FilesInv
<1>4. Grows
  BY <1>1, <1>2, <1>3, StoreRests
<1>5. ThreadsNow /\ PoolsNow
  BY <1>4, GotoIs DEF PoolsNow
<1> QED
  BY <1>1, <1>2, <1>3, <1>5, UpRest DEF StoreTyped

LEMMA MoveNext ==
  ASSUME PartsAssumption, StorageInv, NEW p \in Procs, Move(p), boot.pc = "up"
  PROVE  StorageInv'
<1>0. PICK s, d : s = proc[p].s /\ d = proc[p].d
  OBVIOUS
<1>1. /\ proc[p].pc = "move" /\ Done(p)
      /\ \/ hot' = hot /\ cold' = cold
         \/ /\ hot[d][s] # None
            /\ hot' = Put(hot, d, s, None) /\ cold' = Put(cold, d, s, hot[d][s])
      /\ cat' = cat /\ rows' = rows /\ known' = known /\ pool' = pool /\ SameDirs
      /\ boot' = boot /\ written' = written /\ broken' = broken /\ split' = split
      /\ removed' = removed /\ switched' = switched /\ ops' = ops
  BY <1>0 DEF Move, history
<1>2. s \in Sessions /\ d \in Dirs
  BY <1>0, <1>1 DEF StorageInv, Threads, RecOK, ThreadRec
<1>3. s \notin split => hot[d][s] = None \/ cold[d][s] = None
  BY <1>2 DEF StorageInv, FilesInv
<1>4. CASE hot' = hot /\ cold' = cold
  BY <1>1, <1>4, DoneNext
<1>5. CASE hot[d][s] # None /\ hot' = Put(hot, d, s, None) /\ cold' = Put(cold, d, s, hot[d][s])
  BY <1>0, <1>1, <1>3, <1>5, MovesNext
<1> QED
  BY <1>1, <1>4, <1>5

LEMMA BackNext ==
  ASSUME PartsAssumption, StorageInv, NEW p \in Procs, Back(p), boot.pc = "up"
  PROVE  StorageInv'
<1>0. PICK s, d : s = proc[p].s /\ d = proc[p].d
  OBVIOUS
<1>1. /\ proc[p].pc = "back" /\ Done(p)
      /\ \/ hot' = hot /\ cold' = cold
         \/ /\ cold[d][s] # None
            /\ hot' = Put(hot, d, s, cold[d][s]) /\ cold' = Put(cold, d, s, None)
      /\ cat' = cat /\ rows' = rows /\ known' = known /\ pool' = pool /\ SameDirs
      /\ boot' = boot /\ written' = written /\ broken' = broken /\ split' = split
      /\ removed' = removed /\ switched' = switched /\ ops' = ops
  BY <1>0 DEF Back, history
<1>2. s \in Sessions /\ d \in Dirs
  BY <1>0, <1>1 DEF StorageInv, Threads, RecOK, ThreadRec
<1>3. s \notin split => hot[d][s] = None \/ cold[d][s] = None
  BY <1>2 DEF StorageInv, FilesInv
<1>4. CASE hot' = hot /\ cold' = cold
  BY <1>1, <1>4, DoneNext
<1>5. CASE cold[d][s] # None /\ hot' = Put(hot, d, s, cold[d][s]) /\ cold' = Put(cold, d, s, None)
  BY <1>0, <1>1, <1>3, <1>5, MovesNext
<1> QED
  BY <1>1, <1>4, <1>5

\* The files stay where they are when the directory is switched.
LEMMA TurnRests ==
  ASSUME StoreTyped, FilesInv, CatGrows, hot' = hot, cold' = cold, known' = known, rows' = rows,
         split' = split, removed' = removed, broken' = broken, switched'
  PROVE  Grows /\ FilesInv'
<1>1. Grows
  BY DEF Grows, CatGrows, Seen, SeenNow, PlacesOf, PlacesNow
<1>2. ASSUME NEW d \in Dirs, NEW s \in Sessions
      PROVE  /\ hot'[d][s] \in known' \cup {None} /\ cold'[d][s] \in known' \cup {None}
             /\ s \notin split' => hot'[d][s] = None \/ cold'[d][s] = None
             /\ hot'[d][s] # None \/ cold'[d][s] # None => (Seen(d, s) \/ s \in split)'
             /\ ~cat'[d].there => cat'[d].st[s] = "none"
  BY DEF FilesInv, CatGrows, Seen
<1>3. (\A e \in UsedNow : cat'[e].there) /\ \A f \in Files : f \notin known' => rows'[f] = {}
  BY DEF CatGrows, FilesInv
<1> QED
  BY <1>1, <1>2, <1>3 DEF FilesInv

LEMMA SwitchCatalogNext ==
  ASSUME PartsAssumption, StorageInv, NEW d \in Dirs, SwitchCatalog(d)
  PROVE  StorageInv'
<1>1. /\ boot.pc = "up" /\ ops < MaxOps /\ ops' = ops + 1 /\ switched' = TRUE
      /\ dir' = dir /\ base' = d /\ turning' = turning \cup {d}
      /\ cat' = IF cat[d].there THEN cat ELSE [cat EXCEPT ![d] = cat[base]]
      /\ hot' = hot /\ cold' = cold /\ rows' = rows /\ known' = known /\ proc' = proc
      /\ pool' = pool /\ boot' = boot /\ written' = written /\ broken' = broken
      /\ split' = split /\ removed' = removed
  BY DEF SwitchCatalog, files
<1>2. StoreTyped /\ FilesInv /\ Threads /\ dir \in Dirs /\ base \in Dirs
  BY DEF StorageInv, StoreTyped
<1>3. /\ cat' \in [Dirs -> Catalog] /\ cat'[d].there
      /\ \A e \in Dirs : cat'[e] = cat[e] \/ (e = d /\ ~cat[d].there /\ cat'[e].there)
  BY <1>1, <1>2 DEF StoreTyped, FilesInv
<1>4. CatGrows
  BY <1>1, <1>2, <1>3 DEF CatGrows, StoreTyped, FilesInv
<1>5. StoreTyped'
  BY <1>1, <1>2, <1>3, StorageIs DEF StoreTyped
<1>6. Grows /\ FilesInv'
  BY <1>1, <1>2, <1>4, TurnRests
<1>7. ThreadsNow /\ PoolsNow
  BY <1>1, <1>2, ProcRest DEF PoolsNow
<1>8. \A s : GoodNow(s) => written'[s] \subseteq written[s] \cup RowsOf(s)'
  BY <1>1 DEF GoodNow
<1> QED
  BY <1>1, <1>5, <1>6, <1>7, <1>8, UpNext

LEMMA SwitchDirNext ==
  ASSUME PartsAssumption, StorageInv, NEW d \in Dirs, SwitchDir(d)
  PROVE  StorageInv'
<1>1. /\ d \in turning /\ dir' = d /\ base' = base /\ turning' = turning \ {d}
      /\ cat' = cat /\ hot' = hot /\ cold' = cold /\ rows' = rows /\ known' = known
      /\ proc' = proc /\ pool' = pool /\ boot' = boot /\ written' = written
      /\ broken' = broken /\ split' = split /\ removed' = removed /\ switched' = switched
      /\ ops' = ops
  BY DEF SwitchDir, files, history
<1>2. StoreTyped /\ FilesInv /\ Threads /\ boot.pc = "up" /\ switched
  BY <1>1 DEF StorageInv, FilesInv, Waking
<1>3. CatGrows
  BY <1>1, <1>2 DEF CatGrows, StoreTyped, FilesInv
<1>4. StoreTyped'
  BY <1>1, <1>2 DEF StoreTyped
<1>5. Grows /\ FilesInv'
  BY <1>1, <1>2, <1>3, TurnRests
<1>6. ThreadsNow /\ PoolsNow
  BY <1>1, <1>2, ProcRest DEF PoolsNow
<1>7. \A s : GoodNow(s) => written'[s] \subseteq written[s] \cup RowsOf(s)'
  BY <1>1 DEF GoodNow
<1> QED
  BY <1>1, <1>2, <1>4, <1>5, <1>6, <1>7, UpNext

LEMMA StorageStart ==
  ASSUME PartsAssumption, Init
  PROVE  StorageInv
<1>1. /\ cat = [d \in Dirs |->
           [there |-> d = First,
            st |-> [s \in Sessions |-> IF d = First /\ s \in Legacy THEN "active" ELSE "none"],
            old |-> [s \in Sessions |-> IF d = First /\ s \in Legacy THEN Items ELSE {}]]]
      /\ hot = NoFile /\ cold = NoFile /\ rows = [f \in Files |-> {}] /\ known = {}
      /\ pool = [s \in Sessions |-> None] /\ boot = Off
      /\ dir = First /\ base = First /\ turning = {}
      /\ proc = [p \in Procs |-> Idle]
      /\ written = [s \in Sessions |-> IF s \in Legacy THEN Items ELSE {}]
      /\ broken = {} /\ split = {} /\ removed = {} /\ switched = FALSE /\ ops = 0
  BY DEF Init
<1>2. /\ First \in Dirs /\ Legacy \subseteq Sessions /\ MaxOps \in Nat
  BY StorageIs
<1>3. /\ cat \in [Dirs -> Catalog] /\ \A d \in Dirs : cat[d].there = (d = First)
      /\ \A d \in Dirs, s \in Sessions :
           cat[d].st[s] = IF d = First /\ s \in Legacy THEN "active" ELSE "none"
      /\ \A s \in Sessions : cat[First].old[s] = IF s \in Legacy THEN Items ELSE {}
  BY <1>1, <1>2 DEF Catalog, Status
<1>4. /\ hot \in [Dirs -> [Sessions -> Files \cup {None}]]
      /\ cold \in [Dirs -> [Sessions -> Files \cup {None}]]
      /\ \A d \in Dirs, s \in Sessions : hot[d][s] = None /\ cold[d][s] = None
  BY <1>1 DEF NoFile
<1>5. StoreTyped
  <2>1. rows \in [Files -> SUBSET Items] /\ pool \in [Sessions -> Files \cup {None}]
    BY <1>1
  <2>2. written \in [Sessions -> SUBSET Items] /\ known \subseteq Files
    BY <1>1
  <2>3. broken \subseteq Sessions /\ split \subseteq Sessions /\ removed \subseteq Sessions
    BY <1>1
  <2>4. ops = 0 /\ dir \in Dirs /\ base \in Dirs /\ turning \subseteq Dirs /\ switched \in BOOLEAN
    BY <1>1, <1>2
  <2>5. ops \in 0..MaxOps
    BY <1>2, <2>4
  <2> QED
    BY <1>3, <1>4, <2>1, <2>2, <2>3, <2>4, <2>5 DEF StoreTyped
<1>6. FilesInv
  BY <1>1, <1>2, <1>3, <1>4 DEF FilesInv
<1>7. Pools
  BY <1>1 DEF Pools
<1>8. Threads
  <2>1. Idle \in ThreadRec
    BY DEF Idle, ThreadRec, Pcs
  <2>2. RecOK(Idle) /\ ProcOK(Idle)
    BY <2>1 DEF RecOK, ProcOK, Idle
  <2> QED
    BY <1>1, <2>1, <2>2 DEF Threads
<1>9. Waking
  BY <1>1 DEF Waking, Off, BootPcs, Idle
<1>10. ASSUME NEW s \in Sessions PROVE HeldOrWaits(s)
  <2>1. CASE s \in Legacy
    <3>1. boot.pc = "off" /\ Listed(s) /\ hot[dir][s] = None /\ written[s] = Items
          /\ cat[dir].old[s] = Items
      BY <1>1, <1>2, <1>3, <1>4, <2>1 DEF Off, Listed
    <3> QED
      BY <3>1 DEF HeldOrWaits, Waits
  <2>2. CASE s \notin Legacy
    BY <1>1, <2>2 DEF HeldOrWaits
  <2> QED
    BY <2>1, <2>2
<1> QED
  BY <1>5, <1>6, <1>7, <1>8, <1>9, <1>10 DEF StorageInv, RowsKept, Good

LEMMA StorageNext ==
  ASSUME PartsAssumption, StorageInv, Next
  PROVE  StorageInv'
<1>1. ASSUME NEW p \in Procs, Step(p) PROVE StorageInv'
  <2>1. CASE proc[p].pc = "idle"
    <3>1. \/ \E s \in Sessions, i \in Items : BeginWrite(p, s, i)
          \/ \E s, new \in Sessions : \E R \in SUBSET Items : ForkSession(p, s, new, R)
          \/ \E s \in Sessions :
               DeleteSession(p, s) \/ ArchiveSession(p, s) \/ UnarchiveSession(p, s)
      BY <1>1, <2>1 DEF Step, Route, Open, Insert, ForkCopy, DeleteRow, Clean, Move, Back
    <3>2. ASSUME NEW s \in Sessions, ArchiveSession(p, s) \/ UnarchiveSession(p, s)
          PROVE  StorageInv'
      BY <3>2, SetStatusNext DEF ArchiveSession, UnarchiveSession
    <3> QED
      BY <3>1, <3>2, BeginWriteNext, ForkSessionNext, DeleteSessionNext
  <2>2. CASE proc[p].pc # "idle"
    <3>1. boot.pc = "up"
      BY <2>2 DEF StorageInv, Waking
    <3>2. \/ Route(p) \/ Open(p) \/ Insert(p) \/ ForkCopy(p)
          \/ DeleteRow(p) \/ Clean(p) \/ Move(p) \/ Back(p)
      <4>1. /\ \A s, i : ~BeginWrite(p, s, i)
            /\ \A s : ~DeleteSession(p, s)
        BY <2>2 DEF BeginWrite, DeleteSession, Begin
      <4>2. \A s, new, R : ~ForkSession(p, s, new, R)
        BY <2>2 DEF ForkSession, Begin
      <4>3. \A s : ~ArchiveSession(p, s) /\ ~UnarchiveSession(p, s)
        BY <2>2 DEF ArchiveSession, UnarchiveSession, SetStatus, Begin
      <4> QED
        BY <1>1, <4>1, <4>2, <4>3 DEF Step
    <3> QED
      BY <3>1, <3>2, RouteNext, OpenNext, RowsNext, DeleteRowNext, CleanNext, MoveNext, BackNext
  <2> QED
    BY <2>1, <2>2
<1>2. CASE Boot
  BY <1>2, StartNext, ReconcileNext, NextSessionNext, CommitNext, PurgeOldNext, FinishMigrationNext
  DEF Boot
<1>3. CASE Crash
  BY <1>3, CrashNext
<1>4. ASSUME NEW s \in Sessions, CreateSession(s) PROVE StorageInv'
  BY <1>4, CreateSessionNext
<1>5. ASSUME NEW d \in Dirs, SwitchCatalog(d) \/ SwitchDir(d) PROVE StorageInv'
  BY <1>5, SwitchCatalogNext, SwitchDirNext
<1> QED
  BY <1>1, <1>2, <1>3, <1>4, <1>5 DEF Next

LEMMA StorageRests ==
  ASSUME StorageInv, UNCHANGED <<ofStorage, proc>>
  PROVE  StorageInv'
<1>1. /\ cat' = cat /\ hot' = hot /\ cold' = cold /\ rows' = rows /\ known' = known
      /\ pool' = pool /\ SameDirs /\ boot' = boot /\ written' = written /\ broken' = broken
      /\ split' = split /\ removed' = removed /\ switched' = switched /\ ops' = ops
      /\ proc' = proc
  BY DEF ofStorage
<1>2. StoreTyped' /\ FilesInv'
  BY <1>1 DEF StorageInv, StoreTyped, FilesInv, Seen
<1>3. Pools'
  BY <1>1 DEF StorageInv, Pools, PlacesOf
<1>4. Threads'
  BY <1>1 DEF StorageInv, Threads, RecOK, ProcOK, Seen, PlacesOf
<1>5. Waking'
  BY <1>1 DEF StorageInv, Waking, Listed
<1>6. RowsKept'
  BY <1>1
  DEF StorageInv, RowsKept, Good, HeldOrWaits, Waits, Moving, Listed, RowsOf, PlacesOf
<1> QED
  BY <1>2, <1>3, <1>4, <1>5, <1>6 DEF StorageInv

\* With one directory, the one file of a session is that which its reads go to.
LEMMA StorageReadable ==
  ASSUME PartsAssumption, StorageInv
  PROVE  RowsReadable
<1> SUFFICES ASSUME boot.pc = "up", ~switched, NEW s \in Sessions, Sound(s)
             PROVE  written[s] \subseteq Visible(s)
  BY DEF RowsReadable
<1>1. StoreTyped /\ FilesInv /\ Pools
  BY DEF StorageInv
<1>2. written[s] \subseteq RowsOf(s)
  BY DEF StorageInv, RowsKept, Good, Sound, HeldOrWaits, Waits, Moving
<1>3. /\ dir = First /\ s \notin split /\ s \notin removed
      /\ \A d \in Dirs \ {First} : hot[d][s] = None /\ cold[d][s] = None
  BY <1>1 DEF FilesInv, Sound
<1>4. PlacesOf(s) \subseteq {hot[dir][s], cold[dir][s]} /\ None \notin PlacesOf(s)
  BY <1>3 DEF PlacesOf
<1>5. hot[dir][s] = None \/ cold[dir][s] = None
  BY <1>1, <1>3 DEF FilesInv, StoreTyped
<1>6. pool[s] \in PlacesOf(s) \cup {None}
  BY <1>1, <1>3 DEF Pools
<1>7. \A f \in PlacesOf(s) : rows[f] \subseteq Visible(s)
  BY <1>4, <1>5, <1>6 DEF Visible
<1> HIDE DEF PlacesOf
<1> QED
  BY <1>2, <1>7 DEF RowsOf

LEMMA StorageHeld ==
  ASSUME PartsAssumption, StorageInv
  PROVE  RowsHeld
<1> SUFFICES ASSUME NEW s \in Sessions, Sound(s)
             PROVE  written[s] \subseteq Held(s)
  BY DEF RowsHeld
<1>1. dir \in Dirs
  BY DEF StorageInv, StoreTyped
<1>2. written[s] \subseteq RowsOf(s) \/ written[s] \subseteq cat[dir].old[s]
  BY DEF StorageInv, RowsKept, Good, Sound, HeldOrWaits, Waits, Moving
<1>3. cat[dir].old[s] \subseteq Held(s)
  BY <1>1 DEF Held
<1>4. ASSUME NEW d \in Dirs
      PROVE  /\ hot[d][s] # None => rows[hot[d][s]] \subseteq Held(s)
             /\ cold[d][s] # None => rows[cold[d][s]] \subseteq Held(s)
  BY DEF Held
<1>5. \A f \in PlacesOf(s) : rows[f] \subseteq Held(s)
  BY <1>4 DEF PlacesOf
<1>6. RowsOf(s) \subseteq Held(s)
  <2> HIDE DEF PlacesOf, Held
  <2> QED
    BY <1>5 DEF RowsOf
<1> QED
  BY <1>2, <1>3, <1>6

LEMMA StorageTypeOK ==
  ASSUME StorageInv
  PROVE  TypeOK
BY DEF StorageInv, StoreTyped, Threads, RecOK, ThreadRec, Waking, TypeOK

HIDE DEF where, InUse, UsedNow, SameDirs

(***************************************************************************)
(* Logins. A call that is on its way has a page; as long as its script is  *)
(* the page's last, the document that it navigates to gets what the file   *)
(* had. And a page with a navigation behind it has that.                   *)
(***************************************************************************)
LoginTyped ==
  /\ page \in [Visitors -> Login!Page \cup {None}]
  /\ file \in [Sites -> Login!State \cup {None, Torn}]
  /\ hand \in [Users -> Login!Work] /\ wanted \in [Visitors -> Tokens \cup {None}]

OnPage == {"inject", "reload", "go", "close", "clear"}
PageOK(p, w) ==
  /\ p = None => w = None
  /\ w # None => p.local[p.site] = w
WorkOK(w) ==
  /\ w.at \in OnPage => w.key \in Visitors /\ page[w.key] # None
  /\ w.sure => /\ w.at \in {"inject", "reload", "go"} /\ w.token # None /\ w.site \in Sites
               /\ page[w.key].scripts # << >> /\ Login!Last(page[w.key].scripts) = w.token
LoginInv ==
  /\ LoginTyped
  /\ \A k \in Visitors : PageOK(page[k], wanted[k])
  /\ \A h \in Users : WorkOK(hand[h])

WorkNow(w) ==
  /\ w \in Login!Work
  /\ w.at \in OnPage => w.key \in Visitors /\ page'[w.key] # None
  /\ w.sure => /\ w.at \in {"inject", "reload", "go"} /\ w.token # None /\ w.site \in Sites
               /\ page'[w.key].scripts # << >> /\ Login!Last(page'[w.key].scripts) = w.token

LEMMA LoginIs ==
  ASSUME PartsAssumption
  PROVE  /\ Blank \notin Sites /\ None \notin Tokens /\ None \notin Sites /\ None \notin Login!Page
         /\ Torn # None /\ Torn \notin Login!State /\ None \notin Login!State
BY DEF PartsAssumption, Login!BrowserStorageAssumption, Login!Places

LEMMA LastIs ==
  ASSUME NEW S, NEW q \in Seq(S), q # << >>
  PROVE  Login!Last(q) \in S
BY DEF Login!Last

LEMMA LoadedIs ==
  ASSUME PartsAssumption, NEW p \in Login!Page, NEW s \in Login!Places
  PROVE  /\ Login!Loaded(p, s) \in Login!Page /\ Login!Loaded(p, s).site = s
         /\ Login!Loaded(p, s).scripts = p.scripts
         /\ s # Blank /\ p.scripts # << >>
              => Login!Loaded(p, s).local[s] = Login!Last(p.scripts)
<1>1. /\ p.local \in [Sites -> Tokens \cup {None}] /\ p.scripts \in Seq(Tokens)
      /\ s # Blank => s \in Sites
  BY DEF Login!Page, Login!Places
<1>2. PICK l : l = IF s = Blank \/ p.scripts = << >> THEN p.local
                   ELSE [p.local EXCEPT ![s] = Login!Last(p.scripts)]
  OBVIOUS
<1>3. /\ l \in [Sites -> Tokens \cup {None}]
      /\ s # Blank /\ p.scripts # << >> => l[s] = Login!Last(p.scripts)
  <2>1. CASE s = Blank \/ p.scripts = << >>
    BY <1>1, <1>2, <2>1
  <2>2. CASE s # Blank /\ p.scripts # << >>
    <3>1. Login!Last(p.scripts) \in Tokens
      BY <1>1, <2>2, LastIs
    <3> QED
      BY <1>1, <1>2, <2>2, <3>1
  <2> QED
    BY <2>1, <2>2
<1>4. Login!Loaded(p, s) = [p EXCEPT !.site = s, !.local = l]
  BY <1>2 DEF Login!Loaded
<1> QED
  BY <1>3, <1>4 DEF Login!Page

\* What a page's document holds for its site is replaced.
LEMMA LocalIs ==
  ASSUME NEW p \in Login!Page, p.site # Blank, NEW t \in Tokens \cup {None}
  PROVE  /\ [p EXCEPT !.local[p.site] = t] \in Login!Page
         /\ [p EXCEPT !.local[p.site] = t].scripts = p.scripts
<1>1. PICK l : l = [p.local EXCEPT ![p.site] = t]
  OBVIOUS
<1>2. l \in [Sites -> Tokens \cup {None}]
  BY <1>1 DEF Login!Page, Login!Places
<1>3. [p EXCEPT !.local[p.site] = t] = [p EXCEPT !.local = l]
  BY <1>1
<1> QED
  BY <1>2, <1>3 DEF Login!Page

LEMMA InjectedIs ==
  ASSUME NEW p \in Login!Page, NEW t \in Tokens \cup {None}
  PROVE  Login!Injected(p, t) \in Login!Page /\ Login!Injected(p, t).scripts = p.scripts
<1>1. CASE p.site = Blank
  BY <1>1 DEF Login!Injected
<1>2. CASE p.site # Blank
  BY <1>2, LocalIs DEF Login!Injected
<1> QED
  BY <1>1, <1>2

LEMMA AddedIs ==
  ASSUME NEW p \in Login!Page, NEW t \in Tokens
  PROVE  LET q == Login!AddScript(p, t)
         IN  q \in Login!Page /\ q.scripts # << >> /\ Login!Last(q.scripts) = t
             /\ q.site = p.site /\ q.local = p.local
<1>1. p.scripts \in Seq(Tokens)
  BY DEF Login!Page
<1>2. PICK s : s = Append(p.scripts, t)
  OBVIOUS
<1>3. s \in Seq(Tokens) /\ s # << >> /\ Login!Last(s) = t
  BY <1>1, <1>2 DEF Login!Last
<1>4. PICK q : q = [p EXCEPT !.scripts = s]
  OBVIOUS
<1>5. Login!AddScript(p, t) = q
  BY <1>2, <1>4 DEF Login!AddScript
<1>6. q \in Login!Page /\ q.scripts = s /\ q.site = p.site /\ q.local = p.local
  BY <1>3, <1>4 DEF Login!Page
<1> QED
  BY <1>3, <1>5, <1>6

LEMMA IdleIs ==
  ASSUME PartsAssumption
  PROVE  Login!Idle \in Login!Work /\ WorkNow(Login!Idle)
<1>1. Login!Idle \in Login!Work
  BY DEF Login!Idle, Login!Task, Login!Work, Login!Places
<1> QED
  BY <1>1 DEF WorkNow, OnPage, Login!Idle, Login!Task

LEMMA TaskIs ==
  ASSUME NEW step \in {"write", "close", "clear"}, NEW k \in Visitors \cup {None},
         NEW s \in Login!Places, NEW t \in Tokens \cup {None}
  PROVE  LET w == Login!Task(step, k, s, t)
         IN  w \in Login!Work /\ w.at = step /\ w.key = k /\ ~w.sure
BY DEF Login!Task, Login!Work

LEMMA LoginStep ==
  ASSUME page' \in [Visitors -> Login!Page \cup {None}],
         file' \in [Sites -> Login!State \cup {None, Torn}],
         wanted' \in [Visitors -> Tokens \cup {None}], hand' \in [Users -> Login!Work],
         \A k \in Visitors : PageOK(page'[k], wanted'[k]),
         \A h \in Users : WorkNow(hand'[h])
  PROVE  LoginInv'
BY DEF LoginInv, LoginTyped, PageOK, WorkOK, WorkNow

LEMMA PageIs ==
  ASSUME LoginInv
  PROVE  /\ \A k \in Visitors : /\ page[k] \in Login!Page \cup {None}
                                /\ wanted[k] \in Tokens \cup {None} /\ PageOK(page[k], wanted[k])
                                /\ k \in Login!Open <=> page[k] # None
                                /\ k \in Login!Held => page[k] # None
         /\ \A h \in Users : hand[h] \in Login!Work /\ WorkOK(hand[h])
         /\ \A h \in Users, k \in Visitors, step \in OnPage :
              Login!At(h, k, step) => hand[h].key = k /\ page[k] # None
         /\ file \in [Sites -> Login!State \cup {None, Torn}]
BY DEF LoginInv, LoginTyped, WorkOK, Login!Open, Login!Held, Login!At

\* The scripts of the pages stay, and with them what the other calls rest on.
LEMMA WorkStays ==
  ASSUME LoginInv, NEW h \in Users,
         \A k \in Visitors : page[k] # None => page'[k] # None /\ page'[k].scripts = page[k].scripts
  PROVE  WorkNow(hand[h])
BY DEF LoginInv, LoginTyped, WorkOK, WorkNow, OnPage

\* A step on a page that is there.
LEMMA PageStep ==
  ASSUME LoginInv, NEW k \in Visitors, page[k] # None, NEW p \in Login!Page, None \notin Login!Page,
         p.scripts = page[k].scripts, page' = [page EXCEPT ![k] = p],
         NEW w \in Tokens \cup {None}, w # None => p.local[p.site] = w,
         wanted' = [wanted EXCEPT ![k] = w], file' = file,
         hand' \in [Users -> Login!Work],
         \A h \in Users : hand'[h] = hand[h] \/ WorkNow(hand'[h])
  PROVE  LoginInv'
<1>1. /\ page' \in [Visitors -> Login!Page \cup {None}] /\ page'[k] = p
      /\ \A j \in Visitors : j # k => page'[j] = page[j] /\ wanted'[j] = wanted[j]
      /\ wanted' \in [Visitors -> Tokens \cup {None}] /\ wanted'[k] = w
  BY DEF LoginInv, LoginTyped
<1>2. \A j \in Visitors : page[j] # None => page'[j] # None /\ page'[j].scripts = page[j].scripts
  BY <1>1
<1>3. \A h \in Users : WorkNow(hand'[h])
  BY <1>2, WorkStays
<1>4. PageOK(p, w)
  BY DEF PageOK
<1>5. \A j \in Visitors : PageOK(page'[j], wanted'[j])
  BY <1>1, <1>4 DEF LoginInv
<1>6. file' \in [Sites -> Login!State \cup {None, Torn}]
  BY DEF LoginInv, LoginTyped
<1> QED
  BY <1>1, <1>3, <1>5, <1>6, LoginStep

\* The pages are left alone.
LEMMA PagesRest ==
  ASSUME LoginInv, page' = page, wanted' = wanted,
         file' \in [Sites -> Login!State \cup {None, Torn}],
         hand' \in [Users -> Login!Work],
         \A h \in Users : hand'[h] = hand[h] \/ WorkNow(hand'[h])
  PROVE  LoginInv'
<1>1. \A h \in Users : WorkNow(hand'[h])
  BY WorkStays
<1>2. /\ page' \in [Visitors -> Login!Page \cup {None}] /\ wanted' \in [Visitors -> Tokens \cup {None}]
      /\ \A k \in Visitors : PageOK(page'[k], wanted'[k])
  BY DEF LoginInv, LoginTyped
<1> QED
  BY <1>1, <1>2, LoginStep

\* One call takes its next step.
LEMMA HandSet ==
  ASSUME LoginInv, NEW h \in Users, NEW w, WorkNow(w), hand' = [hand EXCEPT ![h] = w]
  PROVE  /\ hand' \in [Users -> Login!Work]
         /\ \A g \in Users : hand'[g] = hand[g] \/ WorkNow(hand'[g])
BY DEF LoginInv, LoginTyped, WorkNow

\* After the restore the navigation, or nothing.
LEMMA AfterIs ==
  ASSUME PartsAssumption, NEW w, WorkNow(w), w.key \in Visitors, page'[w.key] # None,
         w.at \in {"inject", "reload", "go"} \/ ~w.sure
  PROVE  WorkNow(Login!After(w))
<1>1. CASE w.goes
  <2>1. PICK r : r = [w EXCEPT !.at = "go"]
    OBVIOUS
  <2>2. r \in Login!Work
    BY <2>1 DEF WorkNow, Login!Work
  <2>3. r.at = "go" /\ r.key = w.key /\ r.sure = w.sure /\ r.token = w.token /\ r.site = w.site
    BY <2>1 DEF WorkNow, Login!Work
  <2>4. WorkNow(r)
    BY <2>2, <2>3 DEF WorkNow
  <2> QED
    BY <1>1, <2>1, <2>4 DEF Login!After
<1>2. CASE ~w.goes
  BY <1>2, IdleIs DEF Login!After
<1> QED
  BY <1>1, <1>2

LEMMA RestoringIs ==
  ASSUME NEW step \in {"idle", "inject", "reload"}, NEW k \in Visitors, NEW s \in Sites,
         NEW t \in Tokens \cup {None}, NEW goes \in BOOLEAN, NEW sure \in BOOLEAN
  PROVE  LET w == Login!Restoring(step, k, s, t, goes, sure)
         IN  w \in Login!Work /\ w.at = step /\ w.key = k /\ w.site = s /\ w.token = t /\ w.sure = sure
BY DEF Login!Restoring, Login!Work, Login!Places

LEMMA RestoreNext ==
  ASSUME PartsAssumption, LoginInv, NEW h \in Users, NEW k \in Visitors, NEW s \in Sites,
         NEW goes \in BOOLEAN, Login!Restore(h, k, s, goes)
  PROVE  LoginInv'
<1>1. /\ page[k] # None /\ page[k] \in Login!Page /\ file' = file /\ wanted' = wanted
      /\ file[s] \in Login!State \cup {None, Torn}
      /\ file \in [Sites -> Login!State \cup {None, Torn}]
  <2>1. k \in Login!Held /\ file' = file /\ wanted' = wanted
    BY DEF Login!Restore
  <2> QED
    BY <2>1, PageIs
<1>2. PICK idle : idle = Login!Restoring("idle", k, s, None, goes, FALSE)
  OBVIOUS
<1>3. PICK reload : reload = Login!Restoring("reload", k, s, None, goes, FALSE)
  OBVIOUS
<1>4. /\ idle \in Login!Work /\ idle.key = k /\ ~idle.sure /\ idle.at = "idle"
      /\ reload \in Login!Work /\ reload.key = k /\ ~reload.sure
  <2>1. idle \in Login!Work /\ idle.key = k /\ ~idle.sure /\ idle.at = "idle"
    BY <1>2 DEF Login!Restoring, Login!Work, Login!Places
  <2>2. reload \in Login!Work /\ reload.key = k /\ ~reload.sure
    BY <1>3 DEF Login!Restoring, Login!Work, Login!Places
  <2> QED
    BY <2>1, <2>2
<1>5. CASE hand' = [hand EXCEPT ![h] = Login!After(idle)] /\ page' = page
  <2>1. WorkNow(idle)
    BY <1>4 DEF WorkNow, OnPage
  <2>2. WorkNow(Login!After(idle))
    BY <1>1, <1>4, <1>5, <2>1, AfterIs
  <2> QED
    BY <1>1, <1>5, <2>2, HandSet, PagesRest
<1>6. CASE hand' = [hand EXCEPT ![h] = reload] /\ page' = page
  <2>1. WorkNow(reload)
    BY <1>1, <1>4, <1>6 DEF WorkNow
  <2> QED
    BY <1>1, <1>6, <2>1, HandSet, PagesRest
<1>7. ASSUME file[s] \notin {None, Torn} /\ file[s].local # None, NEW added \in BOOLEAN,
             page' = IF added THEN [page EXCEPT ![k] = Login!AddScript(page[k], file[s].local)]
                     ELSE page,
             hand' = [g \in Users |->
                  IF g = h THEN Login!Restoring("inject", k, s, file[s].local, goes, added)
                  ELSE IF added /\ hand[g].key = k THEN [hand[g] EXCEPT !.sure = FALSE]
                  ELSE hand[g]]
      PROVE  LoginInv'
  <2>2. PICK t, q : t = file[s].local /\ q = Login!AddScript(page[k], t)
    OBVIOUS
  <2>3. t \in Tokens /\ t # None
    BY <1>1, <1>7, <2>2 DEF Login!State
  <2>4. /\ q \in Login!Page /\ q.scripts # << >> /\ Login!Last(q.scripts) = t
        /\ q.site = page[k].site /\ q.local = page[k].local /\ q # None
    BY <1>1, <2>2, <2>3, AddedIs, LoginIs
  <2>5. /\ page' \in [Visitors -> Login!Page \cup {None}]
        /\ added => page'[k] = q
        /\ ~added => page'[k] = page[k]
        /\ \A j \in Visitors : j # k => page'[j] = page[j]
    BY <1>1, <1>7, <2>2, <2>4 DEF LoginInv, LoginTyped
  <2>6. \A j \in Visitors : /\ page'[j] # None <=> page[j] # None
                            /\ page[j] # None => /\ page'[j].site = page[j].site
                                                 /\ page'[j].local = page[j].local
    BY <1>1, <2>4, <2>5
  <2>7. \A j \in Visitors : PageOK(page'[j], wanted'[j])
    BY <1>1, <2>6 DEF LoginInv, PageOK
  <2>8. WorkNow(hand'[h])
    <3>1. PICK r : r = Login!Restoring("inject", k, s, t, goes, added)
      OBVIOUS
    <3>2. hand'[h] = r
      BY <1>7, <2>2, <3>1
    <3>3. /\ r \in Login!Work /\ r.key = k /\ r.sure = added /\ r.token = t /\ r.at = "inject"
          /\ r.site \in Sites
      BY <2>3, <3>1, RestoringIs
    <3> QED
      BY <1>1, <2>3, <2>4, <2>5, <2>6, <3>2, <3>3 DEF WorkNow
  <2>9. ASSUME NEW g \in Users, g # h PROVE WorkNow(hand'[g])
    <3>1. hand[g] \in Login!Work /\ WorkOK(hand[g])
      BY PageIs
    <3>2. CASE added /\ hand[g].key = k
      <4>1. PICK r : r = [hand[g] EXCEPT !.sure = FALSE]
        OBVIOUS
      <4>2. hand'[g] = r
        BY <1>7, <2>9, <3>2, <4>1
      <4>3. r \in Login!Work /\ r.key = k /\ ~r.sure
        BY <3>1, <3>2, <4>1 DEF Login!Work
      <4> QED
        BY <1>1, <2>6, <4>2, <4>3 DEF WorkNow
    <3>3. CASE ~(added /\ hand[g].key = k)
      <4>1. hand'[g] = hand[g]
        BY <1>7, <2>9, <3>3
      <4>2. hand[g].at \in OnPage => page'[hand[g].key] = page[hand[g].key]
        BY <2>5, <3>1, <3>3 DEF WorkOK
      <4> QED
        BY <3>1, <4>1, <4>2 DEF WorkOK, WorkNow, OnPage
    <3> QED
      BY <3>2, <3>3
  <2>10. hand' \in [Users -> Login!Work] /\ \A g \in Users : WorkNow(hand'[g])
    <3>1. \A g \in Users : WorkNow(hand'[g])
      BY <2>8, <2>9
    <3>2. \A g \in Users : hand'[g] \in Login!Work
      BY <3>1 DEF WorkNow
    <3> QED
      BY <1>7, <3>1, <3>2
  <2>11. wanted' \in [Visitors -> Tokens \cup {None}]
    BY <1>1 DEF LoginInv, LoginTyped
  <2> QED
    BY <1>1, <2>5, <2>7, <2>10, <2>11, LoginStep
<1> QED
  BY <1>2, <1>3, <1>5, <1>6, <1>7 DEF Login!Restore

\* The steps of a restore, a navigation and a clear on their page.
LEMMA OnPageNext ==
  ASSUME PartsAssumption, LoginInv, NEW h \in Users, NEW k \in Visitors,
         \/ Login!Inject(h, k) \/ Login!Reload(h, k) \/ Login!Navigate(h, k)
         \/ Login!ClearPage(h, k)
  PROVE  LoginInv'
<1>1. /\ page[k] # None /\ page[k] \in Login!Page /\ hand[h].key = k /\ file' = file
      /\ hand[h] \in Login!Work /\ WorkOK(hand[h]) /\ None \notin Login!Page
      /\ page[k].site \in Login!Places
  <2>1. page[k] # None /\ hand[h].key = k
    BY PageIs DEF Login!Inject, Login!Reload, Login!Navigate, Login!ClearPage, OnPage
  <2>2. page[k] \in Login!Page
    BY <2>1, PageIs
  <2> QED
    BY <2>1, <2>2, PageIs, LoginIs
    DEF Login!Inject, Login!Reload, Login!Navigate, Login!ClearPage, Login!Page
<1>2. PICK w : w = hand[h]
  OBVIOUS
<1>3. /\ w.site \in Login!Places /\ w.token \in Tokens \cup {None} /\ w.sure \in BOOLEAN
  BY <1>1, <1>2 DEF Login!Work
<1>4. ASSUME NEW p \in Login!Page, p.scripts = page[k].scripts, page' = [page EXCEPT ![k] = p]
      PROVE  WorkNow(w)
  <2>1. \A j \in Visitors : page[j] # None => page'[j] # None /\ page'[j].scripts = page[j].scripts
    BY <1>1, <1>4 DEF LoginInv, LoginTyped
  <2> QED
    BY <1>2, <2>1, WorkStays
<1>5. CASE Login!Inject(h, k)
  <2>1. PICK p \in {page[k], Login!Injected(page[k], w.token)} : page' = [page EXCEPT ![k] = p]
    BY <1>2, <1>5 DEF Login!Inject
  <2>2. p \in Login!Page /\ p.scripts = page[k].scripts
    BY <1>1, <1>3, <2>1, InjectedIs
  <2>3. WorkNow(w) /\ w.at = "inject"
    BY <1>2, <1>4, <1>5, <2>1, <2>2 DEF Login!Inject, Login!At
  <2>4. PICK r : r = [w EXCEPT !.at = "reload"]
    OBVIOUS
  <2>5. /\ r \in Login!Work /\ r.at = "reload" /\ r.key = w.key /\ r.sure = w.sure
        /\ r.token = w.token /\ r.site = w.site
    BY <1>1, <1>2, <2>4 DEF Login!Work
  <2>6. WorkNow(r)
    BY <2>3, <2>5 DEF WorkNow, OnPage
  <2>7. hand' = [hand EXCEPT ![h] = r] /\ wanted' = [wanted EXCEPT ![k] = None]
    BY <1>2, <1>5, <2>4 DEF Login!Inject
  <2> QED
    BY <1>1, <2>1, <2>2, <2>6, <2>7, HandSet, PageStep
<1>6. CASE Login!Reload(h, k)
  <2>1. PICK p \in Login!Reloads(page[k], w.site) : page' = [page EXCEPT ![k] = p]
    BY <1>2, <1>6 DEF Login!Reload
  <2>2. p \in Login!Page /\ p.scripts = page[k].scripts
    <3>1. p \in {page[k], Login!Loaded(page[k], page[k].site), Login!Loaded(page[k], w.site)}
      BY <2>1 DEF Login!Reloads
    <3> QED
      BY <1>1, <1>3, <3>1, LoadedIs
  <2>3. WorkNow(w) /\ w.at = "reload" /\ page'[w.key] # None /\ w.key \in Visitors
    <3>1. WorkNow(w) /\ w.at = "reload"
      BY <1>2, <1>4, <1>6, <2>1, <2>2 DEF Login!Reload, Login!At
    <3> QED
      BY <1>1, <1>2, <3>1 DEF WorkNow, OnPage
  <2>4. WorkNow(Login!After(w))
    BY <2>3, AfterIs
  <2>5. hand' = [hand EXCEPT ![h] = Login!After(w)] /\ wanted' = [wanted EXCEPT ![k] = None]
    BY <1>2, <1>6 DEF Login!Reload
  <2> QED
    BY <1>1, <2>1, <2>2, <2>4, <2>5, HandSet, PageStep
<1>7. CASE Login!Navigate(h, k)
  <2>1. PICK p : p = Login!Loaded(page[k], w.site)
    OBVIOUS
  <2>2. /\ p \in Login!Page /\ p.scripts = page[k].scripts /\ p.site = w.site
        /\ w.site # Blank /\ p.scripts # << >> => p.local[w.site] = Login!Last(p.scripts)
    BY <1>1, <1>3, <2>1, LoadedIs
  <2>3. PICK t : t = IF w.sure THEN w.token ELSE None
    OBVIOUS
  <2>4. t \in Tokens \cup {None}
    BY <1>3, <2>3
  <2>5. t # None => p.local[p.site] = t
    <3>1. t # None => w.sure /\ t = w.token /\ w.site # Blank
      BY <1>1, <1>2, <2>3, LoginIs DEF WorkOK
    <3> QED
      BY <1>1, <1>2, <2>2, <3>1 DEF WorkOK
  <2>6. /\ hand' = [hand EXCEPT ![h] = Login!Idle] /\ wanted' = [wanted EXCEPT ![k] = t]
        /\ page' = [page EXCEPT ![k] = p]
    BY <1>2, <1>7, <2>1, <2>3 DEF Login!Navigate
  <2> QED
    BY <1>1, <2>2, <2>4, <2>5, <2>6, IdleIs, HandSet, PageStep
<1>8. CASE Login!ClearPage(h, k)
  <2>1. PICK bare : bare = IF page[k].site = Blank THEN page[k]
                           ELSE [page[k] EXCEPT !.local[page[k].site] = None]
    OBVIOUS
  <2>2. bare \in Login!Page /\ bare.scripts = page[k].scripts
    <3>1. CASE page[k].site = Blank
      BY <1>1, <2>1, <3>1
    <3>2. CASE page[k].site # Blank
      BY <1>1, <2>1, <3>2, LocalIs
    <3> QED
      BY <3>1, <3>2
  <2>3. PICK p \in {page[k], bare} : \E q \in {p, Login!Loaded(p, p.site)} :
                                       page' = [page EXCEPT ![k] = q]
    BY <1>8, <2>1 DEF Login!ClearPage
  <2>4. PICK q \in {p, Login!Loaded(p, p.site)} : page' = [page EXCEPT ![k] = q]
    BY <2>3
  <2>5. p \in Login!Page /\ p.scripts = page[k].scripts /\ p.site \in Login!Places
    BY <1>1, <2>2, <2>3 DEF Login!Page
  <2>6. q \in Login!Page /\ q.scripts = page[k].scripts
    BY <2>4, <2>5, LoadedIs
  <2>7. hand' = [hand EXCEPT ![h] = Login!Idle] /\ wanted' = [wanted EXCEPT ![k] = None]
    BY <1>8 DEF Login!ClearPage
  <2> QED
    BY <1>1, <2>4, <2>6, <2>7, IdleIs, HandSet, PageStep
<1> QED
  BY <1>5, <1>6, <1>7, <1>8

\* The user and the site.
LEMMA VisitNext ==
  ASSUME PartsAssumption, LoginInv, NEW k \in Visitors,
         (\E t \in Tokens \cup {None} : Login!LogIn(k, t)) \/ (\E s \in Sites : Login!Follow(k, s))
  PROVE  LoginInv'
<1>1. /\ page[k] # None /\ page[k] \in Login!Page /\ None \notin Login!Page
      /\ wanted' = [wanted EXCEPT ![k] = None] /\ file' = file /\ hand' = hand
      /\ hand' \in [Users -> Login!Work]
  BY PageIs, LoginIs DEF Login!LogIn, Login!Follow, LoginInv, LoginTyped
<1>2. ASSUME NEW t \in Tokens \cup {None}, Login!LogIn(k, t) PROVE LoginInv'
  <2>1. PICK p : p = [page[k] EXCEPT !.local[page[k].site] = t]
    OBVIOUS
  <2>2. page[k].site # Blank /\ page' = [page EXCEPT ![k] = p]
    BY <1>1, <1>2, <2>1, PageIs DEF Login!LogIn, LoginInv, LoginTyped
  <2>3. p \in Login!Page /\ p.scripts = page[k].scripts
    BY <1>1, <2>1, <2>2, LocalIs
  <2> QED
    BY <1>1, <2>2, <2>3, PageStep
<1>3. ASSUME NEW s \in Sites, Login!Follow(k, s) PROVE LoginInv'
  <2>1. PICK p : p = Login!Loaded(page[k], s)
    OBVIOUS
  <2>2. page' = [page EXCEPT ![k] = p] /\ s \in Login!Places
    BY <1>3, <2>1 DEF Login!Follow, Login!Places
  <2>3. p \in Login!Page /\ p.scripts = page[k].scripts
    BY <1>1, <2>1, <2>2, LoadedIs
  <2> QED
    BY <1>1, <2>2, <2>3, PageStep
<1> QED
  BY <1>2, <1>3

\* A page goes, and what was on its way to it.
LEMMA GoneNext ==
  ASSUME PartsAssumption, LoginInv, NEW h \in Users, NEW k \in Visitors, Login!Gone(k, h),
         file' \in [Sites -> Login!State \cup {None, Torn}]
  PROVE  LoginInv'
<1>1. /\ page' = [page EXCEPT ![k] = None] /\ wanted' = [wanted EXCEPT ![k] = None]
      /\ hand' = [g \in Users |-> IF g = h \/ hand[g].key = k THEN Login!Idle ELSE hand[g]]
  BY DEF Login!Gone
<1>2. /\ page' \in [Visitors -> Login!Page \cup {None}]
      /\ wanted' \in [Visitors -> Tokens \cup {None}] /\ page'[k] = None /\ wanted'[k] = None
      /\ \A j \in Visitors : j # k => page'[j] = page[j] /\ wanted'[j] = wanted[j]
  BY <1>1 DEF LoginInv, LoginTyped
<1>3. \A j \in Visitors : PageOK(page'[j], wanted'[j])
  <2>1. PageOK(None, None)
    BY DEF PageOK
  <2> QED
    BY <1>2, <2>1 DEF LoginInv
<1>4. ASSUME NEW g \in Users PROVE WorkNow(hand'[g])
  <2>1. CASE hand'[g] = Login!Idle
    BY <2>1, IdleIs
  <2>2. CASE hand'[g] = hand[g] /\ hand[g].key # k
    BY <1>2, <2>2, PageIs DEF WorkOK, WorkNow, OnPage
  <2> QED
    BY <1>1, <2>1, <2>2
<1>5. hand' \in [Users -> Login!Work]
  <2>1. \A g \in Users : hand'[g] \in Login!Work
    BY <1>4 DEF WorkNow
  <2> QED
    BY <1>1, <2>1
<1> QED
  BY <1>2, <1>3, <1>4, <1>5, LoginStep

\* The files change, and calls begin and end.
LEMMA SaveNext ==
  ASSUME PartsAssumption, LoginInv, NEW h \in Users, NEW k \in Visitors,
         NEW step \in {"write", "close"}, Login!Save(h, k, step)
  PROVE  LoginInv'
<1>1. /\ page[k] # None /\ page[k] \in Login!Page /\ page[k].site # Blank
      /\ file' = [file EXCEPT ![page[k].site] = Torn] /\ page' = page /\ wanted' = wanted
  BY PageIs DEF Login!Save
<1>2. PICK s : s = page[k].site
  OBVIOUS
<1>3. s \in Sites /\ page[k].local[s] \in Tokens \cup {None}
  BY <1>1, <1>2 DEF Login!Page, Login!Places
<1>4. PICK t \in Tokens \cup {None} :
        hand' = [hand EXCEPT ![h] = Login!Task(step, IF step = "close" THEN k ELSE None, s, t)]
  BY <1>2, <1>3 DEF Login!Save
<1>5. PICK r : r = Login!Task(step, IF step = "close" THEN k ELSE None, s, t)
  OBVIOUS
<1>6. hand' = [hand EXCEPT ![h] = r]
  BY <1>4, <1>5
<1>7. r \in Login!Work /\ r.at = step /\ (step = "close" => r.key = k) /\ ~r.sure
  <2>1. (IF step = "close" THEN k ELSE None) \in Visitors \cup {None} /\ s \in Login!Places
    BY <1>3 DEF Login!Places
  <2> QED
    BY <1>5, <2>1, TaskIs
<1>8. WorkNow(r)
  BY <1>1, <1>7 DEF WorkNow, OnPage
<1>9. file' \in [Sites -> Login!State \cup {None, Torn}]
  BY <1>1 DEF LoginInv, LoginTyped
<1> QED
  BY <1>1, <1>6, <1>8, <1>9, HandSet, PagesRest

LEMMA WriteNext ==
  ASSUME PartsAssumption, LoginInv, NEW h \in Users, Login!Write(h)
  PROVE  LoginInv'
<1>1. hand[h] \in Login!Work /\ WorkOK(hand[h])
  BY PageIs
<1>2. file' \in [Sites -> Login!State \cup {None, Torn}]
  <2>1. hand[h].token \in Tokens \cup {None}
    BY <1>1 DEF Login!Work
  <2>2. [local |-> hand[h].token] \in Login!State
    BY <2>1 DEF Login!State
  <2> QED
    BY <2>2 DEF Login!Write, LoginInv, LoginTyped
<1>3. CASE hand' = [hand EXCEPT ![h] = Login!Idle] /\ page' = page /\ wanted' = wanted
  BY <1>2, <1>3, IdleIs, HandSet, PagesRest
<1>4. CASE hand[h].at = "close" /\ Login!Gone(hand[h].key, h)
  BY <1>1, <1>2, <1>4, GoneNext DEF WorkOK, OnPage
<1> QED
  BY <1>3, <1>4 DEF Login!Write

LEMMA RestNext ==
  ASSUME PartsAssumption, LoginInv, NEW h \in Users, Login!GiveUp(h) \/ Login!Clear(h)
  PROVE  LoginInv'
<1>1. /\ page' = page /\ wanted' = wanted /\ file' \in [Sites -> Login!State \cup {None, Torn}]
  BY DEF Login!GiveUp, Login!Clear, LoginInv, LoginTyped
<1>2. CASE hand' = [hand EXCEPT ![h] = Login!Idle]
  BY <1>1, <1>2, IdleIs, HandSet, PagesRest
<1>3. ASSUME NEW k \in Login!Held, hand' = [hand EXCEPT ![h] = Login!Task("clear", k, Blank, None)]
      PROVE  LoginInv'
  <2>1. k \in Visitors /\ page[k] # None
    BY PageIs DEF Login!Held, Login!Open
  <2>2. PICK r : r = Login!Task("clear", k, Blank, None)
    OBVIOUS
  <2>3. hand' = [hand EXCEPT ![h] = r]
    BY <1>3, <2>2
  <2>4. r \in Login!Work /\ r.key = k /\ ~r.sure
    BY <2>1, <2>2, TaskIs DEF Login!Places
  <2>5. WorkNow(r)
    BY <1>1, <2>1, <2>2, <2>4 DEF WorkNow
  <2> QED
    BY <1>1, <2>3, <2>5, HandSet, PagesRest
<1>4. CASE hand' = hand
  <2>1. hand' \in [Users -> Login!Work]
    BY <1>4 DEF LoginInv, LoginTyped
  <2> QED
    BY <1>1, <1>4, <2>1, PagesRest
<1> QED
  BY <1>2, <1>3, <1>4 DEF Login!GiveUp, Login!Clear

LEMMA NewPageNext ==
  ASSUME PartsAssumption, LoginInv, NEW k \in Visitors, Login!NewPageFor(k)
  PROVE  LoginInv'
<1>1. /\ page[k] = None /\ page' = [page EXCEPT ![k] = Login!NewPage]
      /\ file' = file /\ hand' = hand /\ wanted' = wanted
  BY DEF Login!NewPageFor
<1>2. PICK q : q = Login!NewPage
  OBVIOUS
<1>3. q \in Login!Page
  BY <1>2 DEF Login!Page, Login!NewPage, Login!Nothing, Login!Places
<1>4. /\ page' \in [Visitors -> Login!Page \cup {None}]
      /\ \A j \in Visitors : j # k => page'[j] = page[j]
  BY <1>1, <1>2, <1>3 DEF LoginInv, LoginTyped
<1>5. \A j \in Visitors : PageOK(page'[j], wanted'[j])
  <2>1. wanted[k] = None
    BY <1>1, PageIs DEF PageOK
  <2>2. PageOK(page'[k], wanted'[k])
    BY <1>1, <2>1 DEF PageOK
  <2> QED
    BY <1>1, <1>4, <2>2, PageIs
<1>6. ASSUME NEW h \in Users PROVE WorkNow(hand'[h])
  BY <1>1, <1>4, PageIs DEF WorkOK, WorkNow, OnPage
<1>7. /\ hand' \in [Users -> Login!Work] /\ wanted' \in [Visitors -> Tokens \cup {None}]
      /\ file' \in [Sites -> Login!State \cup {None, Torn}]
  BY <1>1 DEF LoginInv, LoginTyped
<1> QED
  BY <1>4, <1>5, <1>6, <1>7, LoginStep

LEMMA LoginNext ==
  ASSUME PartsAssumption, LoginInv, Login!Next
  PROVE  LoginInv'
<1>1. ASSUME NEW h \in Users, NEW k \in Visitors, Login!CloseUnsaved(h, k)
      PROVE  LoginInv'
  <2>1. Login!Gone(k, h) /\ file' \in [Sites -> Login!State \cup {None, Torn}]
    BY <1>1 DEF Login!CloseUnsaved, LoginInv, LoginTyped
  <2> QED
    BY <2>1, GoneNext
<1> QED
  BY <1>1, NewPageNext, VisitNext, WriteNext, RestNext, OnPageNext, RestoreNext, SaveNext
  DEF Login!Next

LEMMA LoginStart ==
  ASSUME PartsAssumption, Login!Init
  PROVE  LoginInv
<1>1. Login!Idle \in Login!Work
  BY IdleIs
<1>2. LoginTyped
  BY <1>1 DEF Login!Init, LoginTyped
<1>3. Login!Idle.at = "idle" /\ ~Login!Idle.sure
  BY DEF Login!Idle, Login!Task
<1> QED
  BY <1>2, <1>3 DEF Login!Init, LoginInv, PageOK, WorkOK, OnPage

LEMMA LoginRests ==
  ASSUME LoginInv, UNCHANGED <<ofState, page>>
  PROVE  LoginInv'
<1>1. page' = page /\ file' = file /\ hand' = hand /\ wanted' = wanted
  BY DEF ofState
<1> QED
  BY <1>1 DEF LoginInv, LoginTyped, PageOK, WorkOK

LEMMA LoginHolds ==
  ASSUME LoginInv
  PROVE  Login!NavigatedIsRestored /\ Login!TypeOK
<1>1. Login!NavigatedIsRestored
  BY DEF LoginInv, PageOK, Login!NavigatedIsRestored, Login!Open
<1>2. Login!TypeOK
  BY DEF LoginInv, LoginTyped, WorkOK, OnPage, Login!TypeOK, Login!Open
<1> QED
  BY <1>1, <1>2

(***************************************************************************)
(* All three parts.                                                        *)
(***************************************************************************)
Inv ==
  /\ part = "storage" => StorageInv
  /\ part = "login" => LoginInv
  /\ part = "plans" => PlanInv

LEMMA InvInit ==
  ASSUME PartsAssumption, PartsInit
  PROVE  Inv
BY StorageStart, LoginStart, PlanInitInv DEF PartsInit, Inv

LEMMA InvNext ==
  ASSUME PartsAssumption, Inv, [PartsNext]_partVars
  PROVE  Inv'
<1>1. part' = part
  BY DEF PartsNext, partVars
<1>2. CASE part = "plans"
  <2>1. (Plan!Next /\ PlanInv) \/ (PlanInv /\ UNCHANGED ofPlans)
    BY <1>2 DEF Inv, PartsNext, partVars
  <2> QED
    BY <1>1, <1>2, <2>1, PlanNext, PlanRests DEF Inv
<1>3. CASE part = "storage"
  <2>1. (Next /\ StorageInv) \/ (StorageInv /\ UNCHANGED <<ofStorage, proc>>)
    BY <1>3 DEF Inv, PartsNext, partVars
  <2> QED
    BY <1>1, <1>3, <2>1, StorageNext, StorageRests DEF Inv
<1>4. CASE part = "login"
  <2>1. (Login!Next /\ LoginInv) \/ (LoginInv /\ UNCHANGED <<ofState, page>>)
    BY <1>4 DEF Inv, PartsNext, partVars
  <2> QED
    BY <1>1, <1>4, <2>1, LoginNext, LoginRests DEF Inv
<1>5. CASE part \notin {"plans", "storage", "login"}
  BY <1>1, <1>5 DEF Inv
<1> QED
  BY <1>2, <1>3, <1>4, <1>5

LEMMA InvPlans ==
  ASSUME PartsAssumption, Inv
  PROVE  PlansHold
BY PlansIsolated, BoardClears DEF Inv, PlanInv, PlansHold

LEMMA InvSaved ==
  ASSUME PartsAssumption, Inv
  PROVE  SavedIsThere
BY StorageReadable, StorageHeld, LoginHolds DEF Inv, SavedIsThere

(* Whatever plans the agents create, update and switch to, the user switches *)
(* and ticks off, and messages withdraw, bring back and purge: a plan that a *)
(* session finds without naming one is its own or its parent's unless a      *)
(* session named or overwrote another's; of the plans of a session at most   *)
(* the active one is in progress as long as only agents create, switch and   *)
(* complete them; and a message of the user, sent while none is withdrawn,   *)
(* clears the board (plan.rs, tools/skills_memory_plan.rs, agent.rs,         *)
(* commands.rs). What a board shows after a revert is not part of it.        *)
THEOREM PlansOwn == PartsSpec => []PlansHold
BY PartsAssumption, InvInit, InvNext, InvPlans, PTL DEF PartsSpec

(* However sessions are migrated, written, archived and brought back,        *)
(* forked, deleted and cut short by crashes: as long as the data directory   *)
(* is not switched a listed session shows all that was written for it, and   *)
(* otherwise some file or catalog holds it, but for a session whose          *)
(* migration failed, that got a second file beside an archived one, or that  *)
(* a catalog has lost. And a page that was navigated finds the local storage *)
(* that was read from the site's file, unless its script was not taken or    *)
(* that of another call came in between (bundle.rs, migrate.rs, lib.rs,      *)
(* commands.rs, browser/storage.rs).                                         *)
THEOREM SavedAlways == PartsSpec => []SavedIsThere
BY PartsAssumption, InvInit, InvNext, InvSaved, PTL DEF PartsSpec
=============================================================================
