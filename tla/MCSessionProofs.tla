-------------------------- MODULE MCSessionProofs --------------------------
(* Theorems about MCSession, for any number of projects, threads and edits:  *)
(* what the user has in the projects of a temporary space is kept. And of    *)
(* messages, pieces, requests and events: what a window shows of a run is    *)
(* what the run has done; and whoever proposes compactions, none is applied  *)
(* that the user rejected. And of Locks: nobody waits for ever for a mutex.  *)
EXTENDS MCSession, Locks, SequenceTheorems, WellFoundedInduction, TLAPS

(***************************************************************************)
(* Edits. What a file holds was edited before. A file has the edits of the *)
(* user but for those at risk, and so has the original a merge shows to    *)
(* the model; what a copy was made of has none of those that came after.   *)
(***************************************************************************)
Files == {Absent} \cup SUBSET (1 .. edits)
MergeRec == [pc : {"idle", "on", "ask"}, at : Nat, sha : [Projects -> Nat],
             orig : File, temp : File]
Snap == [Projects -> File \cup {None}]

SpaceTyped ==
  /\ src \in [Projects -> File] /\ copy \in [Projects -> Copy \cup {None}]
  /\ sha \in [Projects -> Nat] /\ mem \in [Projects -> Nat]
  /\ snap \in Snap \cup {None} /\ merge \in [Mergers -> MergeRec]
  /\ run \in {"off", "ensure", "on"} /\ at \in Nat
  /\ edits \in 0 .. MaxEdits /\ builds \in 0 .. MaxBuilds
  /\ yours \in [Projects -> SUBSET Nat] /\ risked \in [Projects -> SUBSET Nat]
  /\ crossed \in BOOLEAN /\ root \in BOOLEAN /\ pending \in BOOLEAN

KnownEdits ==
  /\ \A p \in Projects :
       /\ src[p] \in Files /\ yours[p] \subseteq 1 .. edits
       /\ copy[p] # None => copy[p].file \in Files /\ copy[p].base \in Files
  /\ snap # None => \A p \in Projects : snap[p] # None => snap[p] \in Files
  /\ \A m \in Mergers : merge[m].orig \in Files /\ merge[m].temp \in Files
Kept(p, f) == yours[p] \ risked[p] \subseteq Lines(f)
EditsKept == \A p \in Projects : Kept(p, src[p])
EditsNew == \A p \in Projects : copy[p] # None => yours[p] \cap Lines(copy[p].base) = {}
AsksKept ==
  \A m \in Mergers : merge[m].pc = "ask" =>
    /\ merge[m].at \in Projects /\ merge[m].temp # Absent
    /\ Kept(merge[m].at, merge[m].orig)
EditsInv == SpaceTyped /\ KnownEdits /\ EditsKept /\ EditsNew /\ AsksKept

(***************************************************************************)
(* Baselines. The manifest, or the one ensure_space has in memory, names   *)
(* the build of every copy; an ensure_space past a project left a copy.    *)
(***************************************************************************)
Manifest == IF run = "ensure" THEN mem ELSE sha
BasesKnown ==
  \A p \in Projects \ halfway :
    copy[p] # None => copy[p].build # 0 /\ Manifest[p] = copy[p].build
CopiesThere ==
  ~crossed => \A p \in Projects : run = "on" \/ (run = "ensure" /\ p < at) => copy[p] # None
BasesInv == BasesKnown /\ CopiesThere

(***************************************************************************)
(* The space is there for what is merged, and for what merges.             *)
(***************************************************************************)
Merging == \E m \in Mergers : merge[m].pc # "idle"
RootInv == pending \/ Merging => root \/ crossed

SpaceInv == EditsInv /\ BasesInv /\ RootInv

LEMMA SpaceAre ==
  /\ N \in Nat /\ MaxEdits \in Nat /\ MaxBuilds \in Nat /\ Projects = 1 .. N
  /\ Touched \subseteq Projects /\ Agent \in Mergers /\ None \notin Copy
  /\ \A f \in SUBSET (1 .. MaxEdits) : f # Absent
BY PartsAssumption DEF SpaceAssumption, Projects, Mergers

LEMMA EditsAre ==
  ASSUME EditsInv
  PROVE  /\ edits \in Nat /\ Files \subseteq File
         /\ \A f \in Files : Lines(f) \subseteq 1 .. edits
         /\ \A p \in Projects : src[p] \in File
         /\ \A p \in Projects : copy[p] \in Copy \cup {None}
         /\ \A p \in Projects : copy[p] # None => copy[p] \in Copy
         /\ \A m \in Mergers : merge[m] \in MergeRec
BY SpaceAre DEF EditsInv, SpaceTyped, Files, File, Lines

EditsOK == KnownEdits /\ EditsKept /\ EditsNew /\ AsksKept

LEMMA EditsStay ==
  ASSUME EditsInv, UNCHANGED <<src, copy, snap, merge, yours, risked, edits>>
  PROVE  EditsOK'
BY DEF EditsInv, EditsOK, KnownEdits, EditsKept, EditsNew, AsksKept, Kept, Files

LEMMA BasesStay ==
  ASSUME BasesInv, UNCHANGED <<copy, run, at, mem, sha, halfway, crossed>>
  PROVE  BasesInv'
BY DEF BasesInv, BasesKnown, CopiesThere, Manifest

LEMMA RootStays ==
  ASSUME RootInv, UNCHANGED <<pending, merge, root, crossed>>
  PROVE  RootInv'
BY DEF RootInv, Merging

LEMMA SpaceIs ==
  ASSUME SpaceTyped', EditsOK', BasesInv', RootInv'
  PROVE  SpaceInv'
BY DEF EditsOK, EditsInv, SpaceInv

(***************************************************************************)
(* The user.                                                               *)
(***************************************************************************)
LEMMA UserEditNext ==
  ASSUME SpaceInv, NEW p \in Projects, UserEdit(p)
  PROVE  SpaceInv'
<1> DEFINE e == edits + 1
<1>1. /\ edits < MaxEdits /\ edits' = e
      /\ src' = [src EXCEPT ![p] = Edited(src[p], e)]
      /\ yours' = [yours EXCEPT ![p] = yours[p] \cup {e}]
      /\ risked' = IF Asking(p) THEN [risked EXCEPT ![p] = risked[p] \cup {e}] ELSE risked
      /\ UNCHANGED <<here, pending, merge, clears, builds, faults, halfway, crossed,
                     root, copy, sha, snap, run, at, mem>>
  BY DEF UserEdit, space, ensuring, SpaceInv, EditsInv, SpaceTyped
<1>2. /\ EditsInv /\ SpaceTyped /\ KnownEdits /\ EditsKept /\ EditsNew /\ AsksKept
      /\ BasesInv /\ RootInv
  BY DEF SpaceInv, EditsInv
<1>3. e \in 1 .. MaxEdits /\ edits \in Nat /\ e \in Nat /\ \A f \in Files : e \notin Lines(f)
  BY <1>1, <1>2, SpaceAre, EditsAre
<1>4. src[p] \in Files /\ src[p] \in File
  BY <1>2, EditsAre DEF KnownEdits
<1> HIDE DEF e
<1>5. /\ Edited(src[p], e) \in SUBSET (1 .. MaxEdits) /\ Edited(src[p], e) # Absent
      /\ Lines(Edited(src[p], e)) = Lines(src[p]) \cup {e}
  <2>1. Edited(src[p], e) = Lines(src[p]) \cup {e}
    BY DEF Edited, Lines
  <2>2. Lines(src[p]) \subseteq 1 .. MaxEdits
    BY <1>4, SpaceAre DEF Lines, File
  <2>3. Edited(src[p], e) \in SUBSET (1 .. MaxEdits)
    BY <1>3, <2>1, <2>2
  <2>4. Edited(src[p], e) # Absent
    BY <2>3, SpaceAre
  <2> QED
    BY <2>1, <2>3, <2>4 DEF Lines
<1>6. \A n \in 1 .. edits : n \in 1 .. edits'
  BY <1>1, <1>3 DEF e
<1>7. Files \subseteq Files'
  BY <1>6 DEF Files
<1>8. e \in 1 .. edits'
  BY <1>1, <1>3 DEF e
<1>9. Edited(src[p], e) \in Files'
  <2>1. Lines(src[p]) \subseteq 1 .. edits
    BY <1>2, <1>4, EditsAre
  <2>2. Edited(src[p], e) = Lines(src[p]) \cup {e}
    BY DEF Edited, Lines
  <2> QED
    BY <1>6, <1>8, <2>1, <2>2 DEF Files
<1>10. SpaceTyped'
  <2>1. src' \in [Projects -> File]
    BY <1>1, <1>2, <1>5 DEF SpaceTyped, File
  <2>2. yours' \in [Projects -> SUBSET Nat] /\ risked' \in [Projects -> SUBSET Nat]
    BY <1>1, <1>2, <1>3 DEF SpaceTyped
  <2>3. edits' \in 0 .. MaxEdits
    BY <1>1, <1>3
  <2> QED
    BY <1>1, <1>2, <2>1, <2>2, <2>3 DEF SpaceTyped
<1>11. /\ src'[p] = Edited(src[p], e) /\ yours'[p] = yours[p] \cup {e}
       /\ \A q \in Projects \ {p} : src'[q] = src[q] /\ yours'[q] = yours[q] /\ risked'[q] = risked[q]
       /\ risked[p] \subseteq risked'[p]
       /\ Asking(p) => e \in risked'[p]
  BY <1>1, <1>2 DEF SpaceTyped
<1>12. KnownEdits'
  <2>1. \A q \in Projects : src'[q] \in Files' /\ yours'[q] \subseteq 1 .. edits'
    BY <1>2, <1>6, <1>7, <1>8, <1>9, <1>11 DEF KnownEdits
  <2> QED
    BY <1>1, <1>2, <1>7, <2>1 DEF KnownEdits
<1>13. EditsKept'
  BY <1>2, <1>5, <1>11 DEF EditsKept, Kept
<1>14. EditsNew'
  <2>1. \A q \in Projects : copy[q] # None => e \notin Lines(copy[q].base)
    BY <1>2, <1>3 DEF KnownEdits
  <2> QED
    BY <1>1, <1>2, <1>11, <2>1 DEF EditsNew
<1>15. AsksKept'
  <2> SUFFICES ASSUME NEW m \in Mergers, merge[m].pc = "ask"
               PROVE  yours'[merge[m].at] \ risked'[merge[m].at] \subseteq Lines(merge[m].orig)
    BY <1>1, <1>2 DEF AsksKept, Kept
  <2>1. yours[merge[m].at] \ risked[merge[m].at] \subseteq Lines(merge[m].orig) /\ merge[m].at \in Projects
    BY <1>2 DEF AsksKept, Kept
  <2>2. merge[m].at = p => Asking(p)
    BY DEF Asking
  <2> QED
    BY <1>11, <2>1, <2>2
<1> QED
  BY <1>1, <1>2, <1>10, <1>12, <1>13, <1>14, <1>15, BasesStay, RootStays, SpaceIs DEF EditsOK

LEMMA UserDeleteNext ==
  ASSUME SpaceInv, NEW p \in Projects, UserDelete(p)
  PROVE  SpaceInv'
<1>1. /\ src' = [src EXCEPT ![p] = Absent] /\ yours' = [yours EXCEPT ![p] = {}]
      /\ UNCHANGED <<here, pending, merge, clears, edits, builds, faults, risked, halfway, crossed,
                     root, copy, sha, snap, run, at, mem>>
  BY DEF UserDelete, space, ensuring, counters
<1>2. /\ EditsInv /\ SpaceTyped /\ KnownEdits /\ EditsKept /\ EditsNew /\ AsksKept
      /\ BasesInv /\ RootInv
  BY DEF SpaceInv, EditsInv
<1>3. /\ src'[p] = Absent /\ yours'[p] = {}
      /\ \A q \in Projects \ {p} : src'[q] = src[q] /\ yours'[q] = yours[q]
  BY <1>1, <1>2 DEF SpaceTyped
<1>4. SpaceTyped'
  BY <1>1, <1>2 DEF SpaceTyped, File
<1>5. KnownEdits'
  BY <1>1, <1>2, <1>3 DEF KnownEdits, Files
<1>6. EditsKept' /\ EditsNew' /\ AsksKept'
  BY <1>1, <1>2, <1>3 DEF EditsKept, EditsNew, AsksKept, Kept
<1> QED
  BY <1>1, <1>2, <1>4, <1>5, <1>6, BasesStay, RootStays, SpaceIs DEF EditsOK

LEMMA BesideNext ==
  ASSUME SpaceInv, (\E p \in Projects : UserMoves(p)) \/ (\E t \in Clearers : ClearStart(t))
  PROVE  SpaceInv'
<1>1. UNCHANGED <<src, pending, merge, edits, builds, yours, risked, halfway, crossed,
                  root, copy, sha, snap, run, at, mem>>
  BY DEF UserMoves, ClearStart, space, ensuring, counters, history
<1>2. EditsInv /\ SpaceTyped /\ BasesInv /\ RootInv
  BY DEF SpaceInv, EditsInv
<1>3. SpaceTyped'
  BY <1>1, <1>2 DEF SpaceTyped
<1> QED
  BY <1>1, <1>2, <1>3, EditsStay, BasesStay, RootStays, SpaceIs

(***************************************************************************)
(* ensure_space, and the end of a run.                                     *)
(***************************************************************************)
LEMMA StartRunNext ==
  ASSUME SpaceInv, StartRun
  PROVE  SpaceInv'
<1>1. /\ run = "off" /\ run' = "ensure" /\ at' = 1 /\ mem' = sha /\ root' = TRUE
      /\ UNCHANGED <<src, copy, sha, snap, pending, merge, edits, builds,
                     yours, risked, halfway, crossed>>
  BY DEF StartRun, counters, history
<1>2. EditsInv /\ SpaceTyped /\ BasesInv
  BY DEF SpaceInv, EditsInv
<1>3. SpaceTyped'
  BY <1>1, <1>2 DEF SpaceTyped
<1>4. BasesInv'
  BY <1>1, <1>2, SpaceAre DEF BasesInv, BasesKnown, CopiesThere, Manifest
<1>5. RootInv'
  BY <1>1 DEF RootInv
<1> QED
  BY <1>1, <1>2, <1>3, <1>4, <1>5, EditsStay, SpaceIs

LEMMA EnsureSkipsNext ==
  ASSUME SpaceInv, EnsureSkips
  PROVE  SpaceInv'
<1>1. /\ run = "ensure" /\ at \in Projects /\ copy[at] # None /\ at' = at + 1
      /\ UNCHANGED <<src, root, copy, sha, snap, pending, run, mem, merge, edits, builds,
                     yours, risked, halfway, crossed>>
  BY DEF EnsureSkips, counters, history, space
<1>2. EditsInv /\ SpaceTyped /\ BasesInv /\ RootInv
  BY DEF SpaceInv, EditsInv
<1>3. SpaceTyped'
  BY <1>1, <1>2 DEF SpaceTyped
<1>4. BasesInv'
  <2>1. \A p \in Projects : p < at + 1 => p < at \/ p = at
    BY <1>1, SpaceAre
  <2> QED
    BY <1>1, <1>2, <2>1 DEF BasesInv, BasesKnown, CopiesThere, Manifest
<1> QED
  BY <1>1, <1>2, <1>3, <1>4, EditsStay, RootStays, SpaceIs

\* What an ensure_space built before it failed has no baseline in the manifest.
LEMMA FailsKeepBases ==
  ASSUME SpaceInv, NEW built, EnsureFails(built), sha' = sha,
         \A p \in Projects \ built : copy'[p] = copy[p]
  PROVE  BasesInv'
<1>1. /\ run' = "off" /\ halfway \subseteq halfway' /\ built \subseteq halfway'
      /\ \A p \in Projects \ halfway' : run = "ensure" => mem[p] = sha[p]
  BY DEF EnsureFails
<1>2. BasesKnown
  BY DEF SpaceInv, BasesInv
<1>3. BasesKnown'
  <2> SUFFICES ASSUME NEW p \in Projects, p \notin halfway', copy'[p] # None
               PROVE  copy'[p].build # 0 /\ sha[p] = copy'[p].build
    BY <1>1 DEF BasesKnown, Manifest
  <2>1. copy'[p] = copy[p] /\ p \notin halfway /\ (run = "ensure" => mem[p] = sha[p])
    BY <1>1
  <2> QED
    BY <1>2, <2>1 DEF BasesKnown, Manifest
<1> QED
  BY <1>1, <1>3 DEF BasesInv, CopiesThere

LEMMA EnsureMissesNext ==
  ASSUME SpaceInv, EnsureMisses
  PROVE  SpaceInv'
<1>1. /\ EnsureFails({}) /\ run' = "off" /\ at' = 0 /\ mem' = [p \in Projects |-> 0]
      /\ UNCHANGED <<src, root, copy, sha, snap, pending, merge, edits, builds, yours, risked, crossed>>
  BY DEF EnsureMisses, EnsureFails, counters, space
<1>2. EditsInv /\ SpaceTyped /\ RootInv
  BY DEF SpaceInv, EditsInv
<1>3. SpaceTyped'
  BY <1>1, <1>2 DEF SpaceTyped
<1>4. BasesInv'
  BY <1>1, FailsKeepBases
<1> QED
  BY <1>1, <1>2, <1>3, <1>4, EditsStay, RootStays, SpaceIs

\* A project's copy is made new: nothing the user did to it came after.
LEMMA CopyMade ==
  ASSUME EditsInv, NEW p \in Projects, NEW c \in Copy, c.file \in Files, c.base \in Files,
         copy' = [copy EXCEPT ![p] = c],
         yours' = [yours EXCEPT ![p] = {}], risked' = [risked EXCEPT ![p] = {}],
         UNCHANGED <<src, snap, merge, edits>>
  PROVE  /\ EditsOK' /\ copy' \in [Projects -> Copy \cup {None}]
         /\ yours' \in [Projects -> SUBSET Nat] /\ risked' \in [Projects -> SUBSET Nat]
<1>1. SpaceTyped /\ KnownEdits /\ EditsKept /\ EditsNew /\ AsksKept
  BY DEF EditsInv
<1>2. /\ copy' \in [Projects -> Copy \cup {None}] /\ copy'[p] = c
      /\ yours' \in [Projects -> SUBSET Nat] /\ risked' \in [Projects -> SUBSET Nat]
      /\ yours'[p] = {} /\ risked'[p] = {}
      /\ \A q \in Projects \ {p} : copy'[q] = copy[q] /\ yours'[q] = yours[q] /\ risked'[q] = risked[q]
  BY <1>1 DEF SpaceTyped
<1>3. KnownEdits'
  BY <1>1, <1>2 DEF KnownEdits, Files
<1>4. EditsKept' /\ EditsNew' /\ AsksKept'
  BY <1>1, <1>2 DEF EditsKept, EditsNew, AsksKept, Kept
<1> QED
  BY <1>2, <1>3, <1>4 DEF EditsOK

LEMMA EnsureBuildsNext ==
  ASSUME SpaceInv, EnsureBuilds
  PROVE  SpaceInv'
<1> DEFINE b == builds + 1
<1> DEFINE c == [file |-> src[at], base |-> src[at], build |-> b]
<1>1. /\ run = "ensure" /\ at \in Projects /\ copy[at] = None /\ builds < MaxBuilds
      /\ builds' = b /\ root' = TRUE /\ copy' = [copy EXCEPT ![at] = c]
      /\ mem' = [mem EXCEPT ![at] = b] /\ at' = at + 1
      /\ yours' = [yours EXCEPT ![at] = {}] /\ risked' = [risked EXCEPT ![at] = {}]
      /\ UNCHANGED <<src, sha, snap, pending, run, merge, edits, halfway, crossed>>
  BY DEF EnsureBuilds
<1>2. EditsInv /\ SpaceTyped /\ KnownEdits /\ BasesInv /\ RootInv
  BY DEF SpaceInv, EditsInv
<1>3. b \in 0 .. MaxBuilds /\ b # 0 /\ b \in Nat
  BY <1>1, <1>2, SpaceAre DEF SpaceTyped
<1> HIDE DEF b
<1>4. c \in Copy /\ c.file \in Files /\ c.base \in Files /\ c.build = b
  BY <1>1, <1>2, <1>3, EditsAre DEF Copy, KnownEdits
<1> HIDE DEF c
<1>5. /\ EditsOK' /\ copy' \in [Projects -> Copy \cup {None}]
      /\ yours' \in [Projects -> SUBSET Nat] /\ risked' \in [Projects -> SUBSET Nat]
  BY <1>1, <1>2, <1>4, CopyMade
<1>6. SpaceTyped'
  <2>1. at' \in Nat /\ mem' \in [Projects -> Nat]
    BY <1>1, <1>2, <1>3 DEF SpaceTyped
  <2> QED
    BY <1>1, <1>2, <1>3, <1>5, <2>1 DEF SpaceTyped
<1>7. /\ copy'[at] = c /\ mem'[at] = b /\ c # None
      /\ \A q \in Projects \ {at} : copy'[q] = copy[q] /\ mem'[q] = mem[q]
  BY <1>1, <1>2, <1>4, SpaceAre DEF SpaceTyped
<1>8. BasesKnown'
  BY <1>1, <1>2, <1>3, <1>4, <1>7 DEF BasesInv, BasesKnown, Manifest
<1>9. CopiesThere'
  <2>1. \A p \in Projects : p < at + 1 => p < at \/ p = at
    BY <1>1, SpaceAre
  <2> QED
    BY <1>1, <1>2, <1>7, <2>1 DEF BasesInv, CopiesThere
<1>10. RootInv'
  BY <1>1 DEF RootInv
<1> QED
  BY <1>5, <1>6, <1>8, <1>9, <1>10, SpaceIs DEF BasesInv

LEMMA EnsureBreaksNext ==
  ASSUME SpaceInv, EnsureBreaks
  PROVE  SpaceInv'
<1>1. PICK f \in {Absent, src[at]} :
        copy' = [copy EXCEPT ![at] = [file |-> f, base |-> Absent, build |-> 0]]
  BY DEF EnsureBreaks
<1> DEFINE c == [file |-> f, base |-> Absent, build |-> 0]
<1>2. /\ at \in Projects /\ root' = TRUE /\ EnsureFails({at})
      /\ run' = "off" /\ at' = 0 /\ mem' = [p \in Projects |-> 0]
      /\ yours' = [yours EXCEPT ![at] = {}] /\ risked' = [risked EXCEPT ![at] = {}]
      /\ UNCHANGED <<src, sha, snap, pending, merge, edits, builds, crossed>>
      /\ copy' = [copy EXCEPT ![at] = c]
  BY <1>1 DEF EnsureBreaks, EnsureFails
<1>3. EditsInv /\ SpaceTyped /\ KnownEdits
  BY DEF SpaceInv, EditsInv
<1>4. c \in Copy /\ c.file \in Files /\ c.base \in Files
  <2>1. f \in Files /\ Absent \in Files /\ 0 \in 0 .. MaxBuilds
    BY <1>2, <1>3, SpaceAre DEF KnownEdits, Files
  <2> QED
    BY <1>3, <2>1, EditsAre DEF Copy
<1> HIDE DEF c
<1>5. /\ EditsOK' /\ copy' \in [Projects -> Copy \cup {None}]
      /\ yours' \in [Projects -> SUBSET Nat] /\ risked' \in [Projects -> SUBSET Nat]
  BY <1>2, <1>3, <1>4, CopyMade
<1>6. SpaceTyped'
  BY <1>2, <1>3, <1>5 DEF SpaceTyped
<1>7. BasesInv'
  <2>1. \A p \in Projects \ {at} : copy'[p] = copy[p]
    BY <1>2, <1>3 DEF SpaceTyped
  <2> QED
    BY <1>2, <2>1, FailsKeepBases
<1>8. RootInv'
  BY <1>2 DEF RootInv
<1> QED
  BY <1>5, <1>6, <1>7, <1>8, SpaceIs

LEMMA EnsureEndsNext ==
  ASSUME SpaceInv, EnsureEnds
  PROVE  SpaceInv'
<1>1. /\ run = "ensure" /\ at = N + 1 /\ run' = "on" /\ at' = 0 /\ sha' = mem
      /\ mem' = [p \in Projects |-> 0]
      /\ UNCHANGED <<src, root, copy, snap, pending, merge, edits, builds,
                     yours, risked, halfway, crossed>>
  BY DEF EnsureEnds, SaveManifest, counters, history
<1>2. EditsInv /\ SpaceTyped /\ BasesInv /\ RootInv
  BY DEF SpaceInv, EditsInv
<1>3. SpaceTyped'
  BY <1>1, <1>2 DEF SpaceTyped
<1>4. BasesInv'
  <2>1. \A p \in Projects : p < at
    BY <1>1, SpaceAre
  <2> QED
    BY <1>1, <1>2, <2>1 DEF BasesInv, BasesKnown, CopiesThere, Manifest
<1> QED
  BY <1>1, <1>2, <1>3, <1>4, EditsStay, RootStays, SpaceIs

(***************************************************************************)
(* The agent: a copy's file changes, its build and its baseline do not.    *)
(***************************************************************************)
LEMMA FileSet ==
  ASSUME NEW c \in Copy, NEW f \in File
  PROVE  /\ [c EXCEPT !.file = f] \in Copy /\ [c EXCEPT !.file = f].file = f
         /\ [c EXCEPT !.file = f].base = c.base /\ [c EXCEPT !.file = f].build = c.build
BY DEF Copy

OnlyFiles ==
  \A p \in Projects :
    IF copy[p] = None THEN copy'[p] = None
    ELSE \E f \in Files' : copy'[p] = [copy[p] EXCEPT !.file = f]

LEMMA FilesMove ==
  ASSUME SpaceInv, OnlyFiles, edits' \in 0 .. MaxEdits, edits <= edits',
         copy' = [p \in Projects |-> copy'[p]],
         UNCHANGED <<src, root, sha, snap, pending, run, at, mem, merge, builds,
                     yours, risked, halfway, crossed>>
  PROVE  SpaceInv'
<1>1. EditsInv /\ SpaceTyped /\ KnownEdits /\ EditsKept /\ EditsNew /\ AsksKept /\ BasesInv /\ RootInv
  BY DEF SpaceInv, EditsInv
<1>2. Files \subseteq Files' /\ Files' \subseteq File
  BY <1>1, SpaceAre DEF Files, File, SpaceTyped
<1>3. \A p \in Projects : copy[p] # None =>
        /\ copy'[p] \in Copy /\ copy'[p].file \in Files'
        /\ copy'[p].base = copy[p].base /\ copy'[p].build = copy[p].build
  <2> SUFFICES ASSUME NEW p \in Projects, copy[p] # None
               PROVE  /\ copy'[p] \in Copy /\ copy'[p].file \in Files'
                      /\ copy'[p].base = copy[p].base /\ copy'[p].build = copy[p].build
    OBVIOUS
  <2>1. PICK f \in Files' : copy'[p] = [copy[p] EXCEPT !.file = f]
    BY DEF OnlyFiles
  <2>2. copy[p] \in Copy /\ f \in File
    BY <1>1, <1>2, <2>1, EditsAre
  <2> QED
    BY <2>1, <2>2, FileSet
<1>4. /\ \A p \in Projects : copy'[p] \in Copy \cup {None}
      /\ \A p \in Projects : (copy'[p] = None) <=> (copy[p] = None)
  BY <1>3, SpaceAre DEF OnlyFiles
<1>5. copy' \in [Projects -> Copy \cup {None}]
  BY <1>4
<1>6. SpaceTyped'
  BY <1>1, <1>5 DEF SpaceTyped
<1>7. 1 .. edits \subseteq 1 .. edits'
  BY <1>1 DEF SpaceTyped
<1>8. KnownEdits'
  BY <1>1, <1>2, <1>3, <1>4, <1>7 DEF KnownEdits
<1>9. EditsKept' /\ EditsNew' /\ AsksKept'
  BY <1>1, <1>3, <1>4 DEF EditsKept, EditsNew, AsksKept, Kept
<1>10. BasesInv'
  BY <1>1, <1>3, <1>4 DEF BasesInv, BasesKnown, CopiesThere, Manifest
<1> QED
  BY <1>1, <1>6, <1>8, <1>9, <1>10, RootStays, SpaceIs DEF EditsOK

\* What a file holds after an edit was edited.
LEMMA EditedIs ==
  ASSUME EditsInv, NEW f \in Files, edits < MaxEdits, edits' = edits + 1
  PROVE  Edited(f, edits') \in Files' /\ edits' \in 0 .. MaxEdits /\ edits <= edits'
<1>1. edits \in Nat /\ Lines(f) \subseteq 1 .. edits
  BY EditsAre
<1>2. Edited(f, edits') = Lines(f) \cup {edits'}
  BY DEF Edited, Lines
<1>3. Lines(f) \cup {edits'} \subseteq 1 .. edits'
  BY <1>1
<1> QED
  BY <1>1, <1>2, <1>3, SpaceAre DEF Files

\* What every copy holds, once one of them is given another file.
LEMMA OneFile ==
  ASSUME SpaceInv, NEW p \in Projects, NEW f \in Files', copy[p] # None,
         copy' = [copy EXCEPT ![p].file = f], edits' \in Nat, edits <= edits'
  PROVE  OnlyFiles /\ copy' = [q \in Projects |-> copy'[q]]
<1>1. EditsInv /\ SpaceTyped /\ KnownEdits
  BY DEF SpaceInv, EditsInv
<1>2. /\ copy'[p] = [copy[p] EXCEPT !.file = f]
      /\ \A q \in Projects \ {p} : copy'[q] = copy[q]
      /\ copy' = [q \in Projects |-> copy'[q]]
  BY <1>1 DEF SpaceTyped
<1>3. Files \subseteq Files'
  BY <1>1, EditsAre DEF Files
<1>4. \A q \in Projects \ {p} : copy[q] # None =>
        copy[q].file \in Files' /\ copy[q] = [copy[q] EXCEPT !.file = copy[q].file]
  BY <1>1, <1>3, EditsAre DEF KnownEdits, Copy
<1> QED
  BY <1>2, <1>4 DEF OnlyFiles

LEMMA AgentNext ==
  ASSUME SpaceInv, NEW p \in Projects, AgentEdit(p) \/ AgentDelete(p)
  PROVE  SpaceInv'
<1>1. EditsInv /\ SpaceTyped /\ KnownEdits
  BY DEF SpaceInv, EditsInv
<1>2. CASE AgentEdit(p)
  <2>1. /\ copy[p] # None /\ edits < MaxEdits /\ edits' = edits + 1
        /\ copy' = [copy EXCEPT ![p].file = Edited(copy[p].file, edits')]
        /\ UNCHANGED <<src, root, sha, snap, pending, run, at, mem, merge, builds,
                       yours, risked, halfway, crossed>>
    BY <1>1, <1>2 DEF AgentEdit, ensuring, history, SpaceTyped
  <2>2. Edited(copy[p].file, edits') \in Files' /\ edits' \in 0 .. MaxEdits /\ edits <= edits'
    BY <1>1, <2>1, EditedIs DEF KnownEdits
  <2>3. edits' \in Nat
    BY <2>2, SpaceAre
  <2>4. OnlyFiles /\ copy' = [q \in Projects |-> copy'[q]]
    BY <2>1, <2>2, <2>3, OneFile
  <2> QED
    BY <2>1, <2>2, <2>4, FilesMove
<1>3. CASE AgentDelete(p)
  <2>1. /\ copy[p] # None
        /\ copy' = [copy EXCEPT ![p].file = Absent]
        /\ UNCHANGED <<src, root, sha, snap, pending, run, at, mem, merge, builds, edits,
                       yours, risked, halfway, crossed>>
    BY <1>3 DEF AgentDelete, ensuring, history, counters
  <2>2. Absent \in Files' /\ edits' \in 0 .. MaxEdits /\ edits' \in Nat /\ edits <= edits'
    BY <1>1, <2>1, SpaceAre DEF Files, SpaceTyped
  <2>3. OnlyFiles /\ copy' = [q \in Projects |-> copy'[q]]
    BY <2>1, <2>2, OneFile
  <2> QED
    BY <2>1, <2>2, <2>3, FilesMove
<1> QED
  BY <1>2, <1>3

LEMMA SnapshotNext ==
  ASSUME SpaceInv, Snapshot
  PROVE  SpaceInv'
<1>1. /\ snap' = [p \in Projects |-> IF copy[p] = None THEN None ELSE copy[p].file]
      /\ UNCHANGED <<src, root, copy, sha, pending, run, at, mem, merge, edits, builds,
                     yours, risked, halfway, crossed>>
  BY DEF Snapshot, counters, history, ensuring
<1>2. /\ EditsInv /\ SpaceTyped /\ KnownEdits /\ EditsKept /\ EditsNew /\ AsksKept
      /\ BasesInv /\ RootInv
  BY DEF SpaceInv, EditsInv
<1>3. \A p \in Projects : copy[p] # None => copy[p].file \in File
  BY <1>2, EditsAre DEF KnownEdits
<1>4. snap' \in Snap
  BY <1>1, <1>3 DEF Snap
<1>5. SpaceTyped'
  BY <1>1, <1>2, <1>4 DEF SpaceTyped
<1>6. KnownEdits'
  <2>1. Files' = Files
    BY <1>1 DEF Files
  <2>2. \A p \in Projects : snap'[p] # None => snap'[p] \in Files
    BY <1>1, <1>2 DEF KnownEdits
  <2> QED
    BY <1>1, <1>2, <2>1, <2>2 DEF KnownEdits
<1>7. EditsKept' /\ EditsNew' /\ AsksKept'
  BY <1>1, <1>2 DEF EditsKept, EditsNew, AsksKept, Kept
<1> QED
  BY <1>1, <1>2, <1>5, <1>6, <1>7, BasesStay, RootStays, SpaceIs DEF EditsOK

LEMMA RestoreNext ==
  ASSUME SpaceInv, RestoreBaseline \/ RestoreSnapshot
  PROVE  SpaceInv'
<1>1. UNCHANGED <<src, root, sha, snap, pending, run, at, mem, merge, edits, builds,
                  yours, risked, halfway, crossed>>
  BY DEF RestoreBaseline, RestoreSnapshot, counters, history, ensuring
<1>2. EditsInv /\ SpaceTyped /\ KnownEdits
  BY DEF SpaceInv, EditsInv
<1>3. Files' = Files /\ edits' \in 0 .. MaxEdits /\ edits <= edits'
  BY <1>1, <1>2, SpaceAre DEF Files, SpaceTyped
<1>4. \A c \in Copy : c = [c EXCEPT !.file = c.file]
  BY DEF Copy
<1>5. CASE RestoreBaseline
  <2>1. copy' = [p \in Projects |->
          IF copy[p] # None /\ copy[p].build # 0 /\ sha[p] \in {0, copy[p].build}
            THEN [copy[p] EXCEPT !.file = copy[p].base] ELSE copy[p]]
    BY <1>5 DEF RestoreBaseline
  <2>2. copy' = [p \in Projects |-> copy'[p]]
    BY <2>1
  <2>3. OnlyFiles
    BY <1>2, <1>3, <1>4, <2>1, EditsAre DEF OnlyFiles, KnownEdits
  <2> QED
    BY <1>1, <1>3, <2>2, <2>3, FilesMove
<1>6. CASE RestoreSnapshot
  <2>1. /\ snap # None
        /\ copy' = [p \in Projects |->
             IF copy[p] # None /\ copy[p].build # 0 /\ snap[p] # None
               THEN [copy[p] EXCEPT !.file = snap[p]] ELSE copy[p]]
    BY <1>6 DEF RestoreSnapshot
  <2>2. copy' = [p \in Projects |-> copy'[p]]
    BY <2>1
  <2>3. OnlyFiles
    BY <1>2, <1>3, <1>4, <2>1, EditsAre DEF OnlyFiles, KnownEdits
  <2> QED
    BY <1>1, <1>3, <2>2, <2>3, FilesMove
<1> QED
  BY <1>5, <1>6

(***************************************************************************)
(* The merges.                                                             *)
(***************************************************************************)
\* Of the user's edits to p, what is not at risk after this step is in f.
KeptNow(p, f) == yours'[p] \ risked'[p] \subseteq Lines(f)
MoreRisked ==
  risked' \in [Projects -> SUBSET Nat] /\ \A p \in Projects : risked[p] \subseteq risked'[p]
FilesKept ==
  src' \in [Projects -> File] /\ \A p \in Projects : src'[p] \in Files /\ KeptNow(p, src'[p])

LEMMA KeptStays ==
  ASSUME NEW p \in Projects, NEW f, Kept(p, f), yours' = yours, MoreRisked
  PROVE  KeptNow(p, f)
BY DEF Kept, KeptNow, MoreRisked

\* One merge's record becomes r; of what a merge asks about, r keeps the edits.
LEMMA MergeMoves ==
  ASSUME EditsInv, NEW m \in Mergers, NEW r \in MergeRec,
         merge' = [merge EXCEPT ![m] = r], r.orig \in Files, r.temp \in Files,
         r.pc = "ask" => r.at \in Projects /\ r.temp # Absent /\ KeptNow(r.at, r.orig),
         UNCHANGED <<copy, sha, snap, at, mem, edits, builds, yours, crossed, root>>,
         run' \in {"off", "ensure", "on"}, pending' \in BOOLEAN, MoreRisked, FilesKept
  PROVE  SpaceTyped' /\ EditsOK'
<1>1. SpaceTyped /\ KnownEdits /\ EditsKept /\ EditsNew /\ AsksKept
  BY DEF EditsInv
<1>2. /\ merge' \in [Mergers -> MergeRec] /\ merge'[m] = r
      /\ \A n \in Mergers \ {m} : merge'[n] = merge[n]
  BY <1>1 DEF SpaceTyped
<1>3. SpaceTyped'
  BY <1>1, <1>2 DEF SpaceTyped, MergeRec, MoreRisked, FilesKept
<1>4. Files' = Files
  BY DEF Files
<1>5. KnownEdits'
  BY <1>1, <1>2, <1>4 DEF KnownEdits, FilesKept
<1>6. EditsKept' /\ EditsNew'
  BY <1>1 DEF EditsKept, EditsNew, Kept, KeptNow, FilesKept
<1>7. AsksKept'
  <2> SUFFICES ASSUME NEW n \in Mergers, merge'[n].pc = "ask"
               PROVE  /\ merge'[n].at \in Projects /\ merge'[n].temp # Absent
                      /\ KeptNow(merge'[n].at, merge'[n].orig)
    BY DEF AsksKept, Kept, KeptNow
  <2>1. CASE n = m
    BY <1>2, <2>1
  <2>2. CASE n # m
    BY <1>1, <1>2, <2>2, KeptStays DEF AsksKept
  <2> QED
    BY <2>1, <2>2
<1> QED
  BY <1>3, <1>5, <1>6, <1>7 DEF EditsOK

LEMMA IdleIs ==
  Idle \in MergeRec /\ Idle.pc = "idle" /\ Idle.orig = Absent /\ Idle.temp = Absent
BY DEF Idle, MergeRec, File

\* The files are as they were.
LEMMA FilesStay ==
  ASSUME SpaceInv, src' = src, yours' = yours, risked' = risked
  PROVE  MoreRisked /\ FilesKept
BY DEF SpaceInv, EditsInv, SpaceTyped, KnownEdits, EditsKept, Kept, KeptNow, MoreRisked, FilesKept

LEMMA FilesAre ==
  ASSUME SpaceInv
  PROVE  /\ \A p \in Projects : src[p] \in Files /\ Kept(p, src[p])
         /\ src \in [Projects -> File] /\ Absent \in Files
         /\ \A m \in Mergers : merge[m].orig \in Files /\ merge[m].temp \in Files
         /\ run \in {"off", "ensure", "on"} /\ pending \in BOOLEAN
BY DEF SpaceInv, EditsInv, SpaceTyped, KnownEdits, EditsKept, Files

LEMMA RunEndsNext ==
  ASSUME SpaceInv, RunEnds
  PROVE  SpaceInv'
<1>1. /\ run = "on" /\ run' = "off" /\ merge' = [merge EXCEPT ![Agent] = Idle]
      /\ UNCHANGED <<src, root, copy, sha, snap, pending, at, mem, edits, builds,
                     yours, risked, halfway, crossed>>
  BY DEF RunEnds, counters, history, space
<1>2. EditsInv /\ SpaceTyped /\ BasesInv /\ RootInv
  BY DEF SpaceInv, EditsInv
<1>3. SpaceTyped' /\ EditsOK'
  BY <1>1, <1>2, SpaceAre, IdleIs, FilesAre, FilesStay, MergeMoves
<1>4. BasesInv'
  BY <1>1, <1>2 DEF BasesInv, BasesKnown, CopiesThere, Manifest
<1>5. RootInv'
  <2>1. \A m \in Mergers : merge'[m].pc # "idle" => merge[m].pc # "idle"
    BY <1>1, <1>2, IdleIs DEF SpaceTyped
  <2> QED
    BY <1>1, <1>2, <2>1 DEF RootInv, Merging
<1> QED
  BY <1>3, <1>4, <1>5, SpaceIs

\* A merge goes on, with its record r.
LEMMA MergeGoes ==
  ASSUME SpaceInv, NEW m \in Mergers, NEW r \in MergeRec,
         merge' = [merge EXCEPT ![m] = r], r.orig \in Files, r.temp \in Files,
         r.pc = "ask" => r.at \in Projects /\ r.temp # Absent /\ KeptNow(r.at, r.orig),
         UNCHANGED <<copy, sha, snap, at, mem, edits, builds, yours, crossed, root, run, halfway>>,
         pending' \in BOOLEAN, merge[m].pc # "idle" \/ root, MoreRisked, FilesKept
  PROVE  SpaceInv'
<1>1. EditsInv /\ SpaceTyped /\ BasesInv /\ RootInv
  BY DEF SpaceInv, EditsInv
<1>2. SpaceTyped' /\ EditsOK'
  BY <1>1, FilesAre, MergeMoves
<1>3. root \/ crossed
  BY <1>1 DEF RootInv, Merging
<1>4. RootInv'
  BY <1>3 DEF RootInv
<1> QED
  BY <1>1, <1>2, <1>4, BasesStay, SpaceIs

LEMMA MergeStartNext ==
  ASSUME SpaceInv, NEW m \in Mergers, MergeStart(m)
  PROVE  SpaceInv'
<1> DEFINE r == [Idle EXCEPT !.pc = "on", !.at = 1, !.sha = sha]
<1>1. /\ root /\ merge' = [merge EXCEPT ![m] = r]
      /\ UNCHANGED <<src, pending, copy, sha, snap, at, mem, edits, builds, yours, risked,
                     crossed, root, run, halfway>>
  BY DEF MergeStart, counters, history, space, ensuring
<1>2. sha \in [Projects -> Nat]
  BY DEF SpaceInv, EditsInv, SpaceTyped
<1>3. r \in MergeRec /\ r.pc = "on" /\ r.orig = Absent /\ r.temp = Absent
  BY <1>2 DEF Idle, MergeRec, File
<1> HIDE DEF r
<1> QED
  BY <1>1, <1>3, FilesAre, FilesStay, MergeGoes

\* The record of a merge that goes on with the next project.
LEMMA ProceedIs ==
  ASSUME SpaceInv, NEW m \in Mergers
  PROVE  /\ [merge[m] EXCEPT !.at = merge[m].at + 1] \in MergeRec
         /\ [merge[m] EXCEPT !.at = merge[m].at + 1].pc = merge[m].pc
         /\ [merge[m] EXCEPT !.at = merge[m].at + 1].orig = merge[m].orig
         /\ [merge[m] EXCEPT !.at = merge[m].at + 1].temp = merge[m].temp
<1>1. merge[m] \in MergeRec
  BY EditsAre DEF SpaceInv
<1> QED
  BY <1>1 DEF MergeRec

LEMMA ProceedSets ==
  ASSUME SpaceInv, NEW m \in Mergers, Proceed(m)
  PROVE  merge' = [merge EXCEPT ![m] = [merge[m] EXCEPT !.at = merge[m].at + 1]]
BY DEF Proceed

\* What a merge could not read comes to the edits at risk.
LEMMA ReadsRisk ==
  ASSUME SpaceInv, NEW p \in Projects, NEW unread, Reads(p, unread)
  PROVE  MoreRisked /\ (unread => Lines(src[p]) \subseteq risked'[p])
<1>1. /\ EditsInv /\ risked \in [Projects -> SUBSET Nat] /\ src[p] \in Files /\ edits \in Nat
  BY FilesAre, EditsAre DEF SpaceInv, EditsInv, SpaceTyped
<1>2. CASE unread
  <2>1. src[p] # Absent /\ risked' = [risked EXCEPT ![p] = risked[p] \cup src[p]]
    BY <1>1, <1>2 DEF Reads
  <2>2. src[p] \subseteq Nat /\ Lines(src[p]) = src[p]
    <3>1. Lines(src[p]) \subseteq 1 .. edits
      BY <1>1, EditsAre
    <3> QED
      BY <1>1, <2>1, <3>1 DEF Lines
  <2> QED
    BY <1>1, <2>1, <2>2 DEF MoreRisked
<1>3. CASE ~unread
  BY <1>1, <1>3 DEF Reads, MoreRisked
<1> QED
  BY <1>2, <1>3

\* The files stay while more is at risk.
LEMMA FilesStayRisked ==
  ASSUME SpaceInv, src' = src, yours' = yours, MoreRisked
  PROVE  FilesKept
BY FilesAre, KeptStays DEF FilesKept

LEMMA MergeSkipsNext ==
  ASSUME SpaceInv, NEW m \in Mergers, NEW unread \in BOOLEAN, MergeSkips(m, unread)
  PROVE  SpaceInv'
<1>1. /\ merge[m].pc = "on" /\ merge[m].at \in Projects /\ Reads(merge[m].at, unread) /\ Proceed(m)
      /\ UNCHANGED <<src, pending, copy, sha, snap, at, mem, edits, builds, yours,
                     crossed, root, run, halfway>>
  BY DEF MergeSkips, besideMerge, space, ensuring
<1> DEFINE r == [merge[m] EXCEPT !.at = merge[m].at + 1]
<1>2. /\ r \in MergeRec /\ r.pc = "on" /\ r.orig = merge[m].orig /\ r.temp = merge[m].temp
      /\ merge' = [merge EXCEPT ![m] = r]
  BY <1>1, ProceedIs, ProceedSets
<1> HIDE DEF r
<1>3. MoreRisked
  BY <1>1, ReadsRisk
<1> QED
  BY <1>1, <1>2, <1>3, FilesAre, FilesStayRisked, MergeGoes

\* A merge that takes the copy's file finds the baseline in the project, so that
\* of what the user did since the copy was made only edits at risk can be
\* missing; or it could not read the file, and all of it is at risk.
LEMMA MergeAppliesNext ==
  ASSUME SpaceInv, NEW m \in Mergers, NEW unread \in BOOLEAN, MergeApplies(m, unread)
  PROVE  SpaceInv'
<1> DEFINE p == merge[m].at
<1> DEFINE r == [merge[m] EXCEPT !.at = merge[m].at + 1]
<1>1. /\ merge[m].pc = "on" /\ Proceed(m) /\ p \in Projects /\ Reads(p, unread)
      /\ copy[p] # None /\ (~unread => src[p] = copy[p].base)
      /\ src' = [src EXCEPT ![p] = copy[p].file]
      /\ UNCHANGED <<pending, copy, sha, snap, at, mem, edits, builds, yours,
                     crossed, root, run, halfway>>
  BY DEF MergeApplies, Merges, Changed, Conflict, Original, besideMerge, space, ensuring
<1>2. /\ r \in MergeRec /\ r.pc = "on" /\ r.orig = merge[m].orig /\ r.temp = merge[m].temp
      /\ merge' = [merge EXCEPT ![m] = r]
  BY <1>1, ProceedIs, ProceedSets
<1> HIDE DEF p, r
<1>3. /\ EditsInv /\ KnownEdits /\ EditsNew /\ src \in [Projects -> File]
      /\ \A q \in Projects : src[q] \in Files /\ Kept(q, src[q])
  BY FilesAre DEF SpaceInv, EditsInv
<1>4. copy[p].file \in Files /\ copy[p].file \in File
  BY <1>1, <1>3, EditsAre DEF KnownEdits
<1>5. MoreRisked /\ (unread => Lines(src[p]) \subseteq risked'[p])
  BY <1>1, ReadsRisk
<1>6. KeptNow(p, copy[p].file)
  <2>1. yours[p] \ risked[p] \subseteq Lines(src[p]) /\ risked[p] \subseteq risked'[p] /\ yours' = yours
    BY <1>1, <1>3, <1>5 DEF Kept, MoreRisked
  <2>2. CASE unread
    BY <1>5, <2>1, <2>2 DEF KeptNow
  <2>3. CASE ~unread
    <3>1. yours[p] \cap Lines(src[p]) = {}
      BY <1>1, <1>3, <2>3 DEF EditsNew
    <3> QED
      BY <2>1, <3>1 DEF KeptNow
  <2> QED
    BY <2>2, <2>3
<1>7. FilesKept
  <2>1. \A q \in Projects : KeptNow(q, src[q])
    BY <1>1, <1>3, <1>5, KeptStays
  <2> QED
    BY <1>1, <1>3, <1>4, <1>6, <2>1 DEF FilesKept
<1> QED
  BY <1>1, <1>2, <1>5, <1>7, FilesAre, MergeGoes

LEMMA MergeAsksNext ==
  ASSUME SpaceInv, NEW m \in Mergers, NEW unread \in BOOLEAN, MergeAsks(m, unread)
  PROVE  SpaceInv'
<1> DEFINE p == merge[m].at
<1> DEFINE o == Original(p, unread)
<1> DEFINE r == [merge[m] EXCEPT !.pc = "ask", !.orig = o, !.temp = copy[p].file]
<1>1. /\ merge[m].pc = "on" /\ p \in Projects /\ Reads(p, unread)
      /\ copy[p] # None /\ copy[p].file # Absent
      /\ merge' = [merge EXCEPT ![m].pc = "ask", ![m].orig = o, ![m].temp = copy[p].file]
      /\ UNCHANGED <<src, pending, copy, sha, snap, at, mem, edits, builds, yours,
                     crossed, root, run, halfway>>
  BY DEF MergeAsks, Merges, Changed, besideMerge, space, ensuring
<1>2. merge' = [merge EXCEPT ![m] = r]
  BY <1>1 DEF SpaceInv, EditsInv, SpaceTyped
<1>3. EditsInv /\ KnownEdits /\ merge[m] \in MergeRec
  BY EditsAre DEF SpaceInv, EditsInv
<1>4. MoreRisked /\ (unread => Lines(src[p]) \subseteq risked'[p])
  BY <1>1, ReadsRisk
<1>5. o = IF unread THEN Absent ELSE src[p]
  BY <1>1 DEF Original
<1>6. /\ copy[p].file \in Files /\ copy[p].file \in File /\ src[p] \in Files /\ src[p] \in File
      /\ Kept(p, src[p]) /\ Absent \in Files /\ Absent \in File
  BY <1>1, <1>3, EditsAre, FilesAre DEF KnownEdits
<1>7. o \in Files /\ o \in File
  BY <1>5, <1>6
<1>8. KeptNow(p, o)
  <2>1. CASE unread
    <3>1. yours[p] \ risked[p] \subseteq Lines(src[p]) /\ risked[p] \subseteq risked'[p]
      BY <1>1, <1>4, <1>6 DEF Kept, MoreRisked
    <3> QED
      BY <1>1, <1>4, <2>1, <3>1 DEF KeptNow
  <2>2. CASE ~unread
    BY <1>1, <1>4, <1>5, <1>6, <2>2, KeptStays
  <2> QED
    BY <2>1, <2>2
<1> HIDE DEF o
<1>9. r \in MergeRec /\ r.at = p /\ r.orig = o /\ r.temp = copy[p].file
  BY <1>3, <1>6, <1>7 DEF MergeRec
<1> HIDE DEF p, r
<1> QED
  BY <1>1, <1>2, <1>4, <1>6, <1>7, <1>8, <1>9, FilesAre, FilesStayRisked, MergeGoes

\* What the model was shown has all but the edits at risk, and what it leaves out
\* of that comes to them.
LEMMA AiMergeNext ==
  ASSUME SpaceInv, NEW m \in Mergers, AiMerge(m)
  PROVE  SpaceInv'
<1> DEFINE p == merge[m].at
<1> DEFINE orig == merge[m].orig
<1> DEFINE r == [merge[m] EXCEPT !.pc = "on", !.at = merge[m].at + 1,
                                 !.orig = Absent, !.temp = Absent]
<1>1. /\ merge[m].pc = "ask"
      /\ UNCHANGED <<pending, copy, sha, snap, at, mem, edits, builds, yours,
                     crossed, root, run, halfway>>
  BY DEF AiMerge, besideMerge, space, ensuring
<1>2. merge' = [merge EXCEPT ![m].pc = "on", ![m].at = @ + 1,
                           ![m].orig = Absent, ![m].temp = Absent]
  BY DEF AiMerge
<1>3. EditsInv /\ KnownEdits /\ AsksKept /\ merge[m] \in MergeRec
  BY EditsAre DEF SpaceInv, EditsInv
<1>4. /\ r \in MergeRec /\ r.pc = "on" /\ r.orig = Absent /\ r.temp = Absent
      /\ merge' = [merge EXCEPT ![m] = r]
  <2>1. merge[m].at + 1 \in Nat /\ Absent \in File
    BY <1>3 DEF MergeRec, File
  <2>2. merge' = [merge EXCEPT ![m] = r]
    <3>1. merge \in [Mergers -> MergeRec]
      BY <1>3 DEF EditsInv, SpaceTyped
    <3> QED
      BY <1>2, <3>1
  <2> QED
    BY <1>3, <2>1, <2>2 DEF MergeRec
<1>5. p \in Projects /\ Kept(p, orig) /\ orig \in Files /\ merge[m].temp \in Files
  BY <1>1, <1>3 DEF AsksKept, KnownEdits
<1>6. MoreRisked /\ FilesKept
  <2>1. CASE UNCHANGED <<src, risked>>
    BY <1>1, <2>1, FilesStay
  <2>2. CASE \E a \in Answers(orig, merge[m].temp) :
               /\ src' = [src EXCEPT ![p] = a]
               /\ risked' = [risked EXCEPT ![p] = risked[p] \cup (Lines(orig) \ a)]
    <3>1. PICK a \in Answers(orig, merge[m].temp) :
                 /\ src' = [src EXCEPT ![p] = a]
                 /\ risked' = [risked EXCEPT ![p] = risked[p] \cup (Lines(orig) \ a)]
      BY <2>2
    <3>2. /\ edits \in 0 .. MaxEdits /\ risked \in [Projects -> SUBSET Nat]
          /\ Lines(orig) \subseteq 1 .. edits /\ Lines(merge[m].temp) \subseteq 1 .. edits
      BY <1>3, <1>5, EditsAre DEF EditsInv, SpaceTyped
    <3>3. a \in SUBSET (1 .. edits) /\ a \in SUBSET (1 .. MaxEdits)
      <4>1. a \subseteq Lines(orig) \cup Lines(merge[m].temp)
        BY <3>1 DEF Answers
      <4>2. a \in SUBSET (1 .. edits)
        BY <3>2, <4>1
      <4> QED
        BY <3>2, <4>2, SpaceAre
    <3>4. a \in Files /\ a \in File /\ Lines(a) = a
      <4>1. a # Absent
        BY <3>3, SpaceAre
      <4> QED
        BY <1>3, <3>3, <4>1, EditsAre DEF Files, Lines
    <3>5. MoreRisked
      <4>1. Lines(orig) \ a \subseteq Nat
        BY <3>2
      <4> QED
        BY <1>5, <3>1, <3>2, <4>1 DEF MoreRisked
    <3>6. KeptNow(p, a)
      <4>1. yours[p] \ risked[p] \subseteq Lines(orig) /\ risked'[p] = risked[p] \cup (Lines(orig) \ a)
        BY <1>5, <3>1, <3>2 DEF Kept
      <4> QED
        BY <1>1, <3>4, <4>1 DEF KeptNow
    <3>7. \A q \in Projects : src[q] \in Files /\ KeptNow(q, src[q])
      BY <1>1, <3>5, FilesAre, KeptStays
    <3>8. src \in [Projects -> File]
      BY FilesAre
    <3>9. FilesKept
      BY <1>5, <3>1, <3>4, <3>6, <3>7, <3>8 DEF FilesKept
    <3> QED
      BY <3>5, <3>9
  <2> QED
    BY <2>1, <2>2 DEF AiMerge
<1> HIDE DEF p, orig, r
<1> QED
  BY <1>1, <1>4, <1>6, FilesAre, MergeGoes

LEMMA MergeEndsNext ==
  ASSUME SpaceInv, NEW m \in Mergers, MergeEnds(m)
  PROVE  SpaceInv'
<1>1. /\ merge[m].pc = "on" /\ merge' = [merge EXCEPT ![m] = Idle] /\ pending' = TRUE
      /\ UNCHANGED <<src, copy, sha, snap, at, mem, edits, builds, yours, risked,
                     crossed, root, run, halfway>>
  BY DEF MergeEnds, counters, history, space, ensuring
<1> QED
  BY <1>1, IdleIs, FilesAre, FilesStay, MergeGoes

(***************************************************************************)
(* A clear, and the end of the program.                                    *)
(***************************************************************************)
LEMMA ClearNext ==
  ASSUME SpaceInv, NEW t \in Clearers, Clear(t)
  PROVE  SpaceInv'
<1>1. /\ root' = FALSE /\ copy' = [p \in Projects |-> None] /\ snap' = None
      /\ pending' = FALSE /\ crossed' = (run # "off" \/ Merging)
      /\ UNCHANGED <<src, sha, merge, edits, builds, yours, risked, run, at, mem>>
  BY DEF Clear, Unpend, Merging, counters, ensuring
<1>2. SpaceTyped /\ KnownEdits /\ EditsKept /\ EditsNew /\ AsksKept
  BY DEF SpaceInv, EditsInv
<1>3. SpaceTyped'
  BY <1>1, <1>2 DEF SpaceTyped
<1>4. EditsOK'
  BY <1>1, <1>2 DEF EditsOK, KnownEdits, EditsKept, EditsNew, AsksKept, Kept, Files
<1>5. BasesInv'
  BY <1>1, <1>2 DEF BasesInv, BasesKnown, CopiesThere, SpaceTyped
<1>6. RootInv'
  BY <1>1 DEF RootInv, Merging
<1> QED
  BY <1>3, <1>4, <1>5, <1>6, SpaceIs

LEMMA CrashNext ==
  ASSUME SpaceInv, Crash
  PROVE  SpaceInv'
<1>1. /\ EnsureFails({}) /\ run' = "off" /\ at' = 0 /\ mem' = [p \in Projects |-> 0]
      /\ merge' = [m \in Mergers |-> Idle]
      /\ UNCHANGED <<src, root, copy, sha, snap, pending, edits, builds, yours, risked, crossed>>
  BY DEF Crash, EnsureFails, space
<1>2. SpaceTyped /\ KnownEdits /\ EditsKept /\ EditsNew /\ AsksKept /\ RootInv
  BY DEF SpaceInv, EditsInv
<1>3. SpaceTyped'
  <2>1. merge' \in [Mergers -> MergeRec] /\ mem' \in [Projects -> Nat]
    BY <1>1, IdleIs
  <2>2. run' \in {"off", "ensure", "on"} /\ at' \in Nat
    BY <1>1
  <2> QED
    BY <1>1, <1>2, <2>1, <2>2 DEF SpaceTyped
<1>4. EditsOK'
  BY <1>1, <1>2, IdleIs DEF EditsOK, KnownEdits, EditsKept, EditsNew, AsksKept, Kept, Files
<1>5. BasesInv'
  BY <1>1, FailsKeepBases
<1>6. RootInv'
  BY <1>1, <1>2, IdleIs DEF RootInv, Merging
<1> QED
  BY <1>3, <1>4, <1>5, <1>6, SpaceIs

LEMMA SpaceInit ==
  ASSUME Init
  PROVE  SpaceInv
<1>1. /\ src = [p \in Projects |-> {}] /\ root = FALSE /\ copy = [p \in Projects |-> None]
      /\ sha = [p \in Projects |-> 0] /\ snap = None /\ pending = FALSE
      /\ run = "off" /\ at = 0 /\ mem = [p \in Projects |-> 0]
      /\ merge = [m \in Mergers |-> Idle]
      /\ edits = 0 /\ builds = 0 /\ halfway = {} /\ crossed = FALSE
      /\ yours = [p \in Projects |-> {}] /\ risked = [p \in Projects |-> {}]
  BY DEF Init
<1>2. {} \in File /\ {} \in Files /\ Absent \in Files
  BY DEF File, Files
<1>3. SpaceTyped
  <2>1. src \in [Projects -> File] /\ copy \in [Projects -> Copy \cup {None}]
    BY <1>1, <1>2
  <2>2. /\ sha \in [Projects -> Nat] /\ mem \in [Projects -> Nat]
        /\ yours \in [Projects -> SUBSET Nat] /\ risked \in [Projects -> SUBSET Nat]
    BY <1>1
  <2>3. merge \in [Mergers -> MergeRec]
    BY <1>1, IdleIs
  <2>4. edits \in 0 .. MaxEdits /\ builds \in 0 .. MaxBuilds
    BY <1>1, SpaceAre
  <2> QED
    BY <1>1, <2>1, <2>2, <2>3, <2>4 DEF SpaceTyped
<1>4. KnownEdits /\ EditsKept /\ EditsNew /\ AsksKept
  BY <1>1, <1>2, IdleIs DEF KnownEdits, EditsKept, EditsNew, AsksKept, Kept
<1>5. BasesInv
  BY <1>1 DEF BasesInv, BasesKnown, CopiesThere
<1>6. RootInv
  BY <1>1, IdleIs DEF RootInv, Merging
<1> QED
  BY <1>3, <1>4, <1>5, <1>6 DEF EditsInv, SpaceInv

LEMMA SpaceNext ==
  ASSUME SpaceInv, Next
  PROVE  SpaceInv'
<1>1. CASE \E p \in Touched : UserEdit(p) \/ UserDelete(p)
  BY <1>1, SpaceAre, UserEditNext, UserDeleteNext
<1>2. CASE \/ \E p \in Projects : UserMoves(p)
           \/ \E t \in Clearers : ClearStart(t)
  BY <1>2, BesideNext
<1>3. CASE StartRun \/ EnsureSkips \/ EnsureMisses
  BY <1>3, StartRunNext, EnsureSkipsNext, EnsureMissesNext
<1>4. CASE EnsureBuilds \/ EnsureBreaks \/ EnsureEnds
  BY <1>4, EnsureBuildsNext, EnsureBreaksNext, EnsureEndsNext
<1>5. CASE \E p \in Touched : AgentEdit(p) \/ AgentDelete(p)
  BY <1>5, SpaceAre, AgentNext
<1>6. CASE Snapshot \/ RestoreBaseline \/ RestoreSnapshot \/ RunEnds
  BY <1>6, SnapshotNext, RestoreNext, RunEndsNext
<1>7. CASE \E m \in Mergers : MergeStart(m) \/ AiMerge(m) \/ MergeEnds(m)
  BY <1>7, MergeStartNext, AiMergeNext, MergeEndsNext
<1>8. CASE \E m \in Mergers, unread \in BOOLEAN :
             MergeApplies(m, unread) \/ MergeSkips(m, unread) \/ MergeAsks(m, unread)
  BY <1>8, MergeAppliesNext, MergeSkipsNext, MergeAsksNext
<1>9. CASE (\E t \in Clearers : Clear(t)) \/ Crash
  BY <1>9, ClearNext, CrashNext
<1> QED
  BY <1>1, <1>2, <1>3, <1>4, <1>5, <1>6, <1>7, <1>8, <1>9, Zenon DEF Next

LEMMA SpaceHolds ==
  ASSUME SpaceInv
  PROVE  UserEditsSurvive /\ CopiesHaveBaselines /\ MergedHasSpace
<1>1. UserEditsSurvive
  BY DEF SpaceInv, EditsInv, EditsKept, Kept, Lines, UserEditsSurvive
<1>2. CopiesHaveBaselines
  BY DEF SpaceInv, BasesInv, BasesKnown, CopiesThere, Manifest, CopiesHaveBaselines
<1>3. MergedHasSpace
  BY DEF SpaceInv, RootInv, MergedHasSpace
<1> QED
  BY <1>1, <1>2, <1>3

(***************************************************************************)
(* What a window shows of a run. Of the tasks those that stream matter: at *)
(* most the run and the tail of an aborted one, each with a message of its *)
(* own whose row is empty and whose end was not sent.                      *)
(***************************************************************************)
Piece == Nat \X Nat
Words == Seq(Piece)
TaskRec == [pc : View!Pcs, msg : Nat \cup {None}, try : Nat, text : Words, n : Nat,
            card : Nat \cup {None}, tail : BOOLEAN]
SnapRec == [running : BOOLEAN, msg : Nat \cup {None}, text : Words,
            tools : SUBSET (Nat \cup {None}), card : Nat \cup {None}]
EventData == Words \cup Piece \cup Nat \cup BOOLEAN \cup {None}
Kinds == {"run", "step", "delta", "reset", "final", "approval", "resolved"}
EventRec == [kind : Kinds, msg : Nat \cup {None}, data : EventData]

ViewTyped ==
  /\ run \in TaskRec /\ run.tail = FALSE
  /\ tail \in TaskRec \cup {None} /\ (tail # None => tail.tail = TRUE)
  /\ snap \in SnapRec /\ db \in Seq(Words \cup {None}) /\ Len(db) <= MaxMsgs
  /\ pipe \in Seq(EventRec) /\ (resp.at = "read" => resp.what \in SnapRec)
  /\ DOMAIN view = View!Msgs
  /\ counts \in [card : Nat, stops : Nat, beside : Nat]

Live(a, b) == {r \in {a} \cup ({b} \ {None}) : r.pc = "stream"}
Sent(q, kinds, m) == \E i \in DOMAIN q : q[i].kind \in kinds /\ q[i].msg = m
Adding == {"delta", "reset"}
Done(d, m) == m \in DOMAIN d /\ d[m] # None /\ d[m] # << >>

Alone(L) == \A p, r \in L : p # r => p.msg # r.msg
StreamFine(r, d, q) == r.msg \in DOMAIN d /\ d[r.msg] = << >> /\ ~Sent(q, {"final"}, r.msg)
StreamsFine(L, d, q) == Alone(L) /\ \A r \in L : StreamFine(r, d, q)

\* The pieces of the snapshot are in order, and none comes after the stream's.
UpTo(t, r) == \A i \in DOMAIN t : t[i][1] < r.try \/ (t[i][1] = r.try /\ t[i][2] <= r.n)
StepFine(s, L) ==
  View!Ordered(s.text) /\ \A r \in L : s.msg = r.msg => UpTo(s.text, r)

\* A snapshot's text is shorter than the message's, or the same: those that were
\* begun again, or have no event of their end, excepted.
Short(t, u) == Len(t) <= Len(u) /\ (Len(t) = Len(u) => t = u)
SnapFine(s, L, d, again) ==
  /\ s.msg \in DOMAIN d \cup {None}
  /\ s.msg \notin again =>
       /\ \A r \in L : r.msg = s.msg => Short(s.text, r.text)
       /\ Done(d, s.msg) => Short(s.text, d[s.msg])

\* A page of history has rows as they are, or as they were before they were filled.
PageFine(h, d) ==
  h.at = "read" =>
    /\ DOMAIN h.what \subseteq DOMAIN d
    /\ \A m \in DOMAIN h.what : h.what[m] = None \/ h.what[m] = << >> \/ h.what[m] = d[m]

\* The end of a message is its row, and nothing is added behind it.
PipeFine(q, d) ==
  /\ \A i \in DOMAIN q : q[i].kind = "final" => q[i].msg \in DOMAIN d /\ q[i].data = d[q[i].msg]
  /\ \A i, j \in DOMAIN q : i < j /\ q[i].kind = "final" =>
       ~(q[j].kind \in Adding /\ q[j].msg = q[i].msg)

\* A finished message has arrived, or its end is on its way.
Arrived(v, b, q, d, m) == v[m] = d[m] /\ (b = None \/ b.msg # m) /\ ~Sent(q, Adding, m)
ReadsFine(v, b, q, d, again) ==
  \A m \in DOMAIN d \ again :
    Done(d, m) => Arrived(v, b, q, d, m) \/ Sent(q, {"final"}, m)

\* The card the run waits for is shown, or on its way, and nothing on its way
\* takes it back.
Waits(r) == r.pc \in {"waits", "waitsSteps"}
Has(q, kind, c) == \E i \in DOMAIN q : q[i].kind = kind /\ q[i].data = c
CardFine(r, t, q, cards, c) ==
  c.stops = 0 =>
    /\ t = None
    /\ \A i \in DOMAIN q : q[i].kind = "resolved" => q[i].data \in Nat /\ q[i].data <= c.card
    /\ Waits(r) => /\ r.card = c.card
                   /\ r.card \in cards \/ Has(q, "approval", r.card)
                   /\ ~Has(q, "resolved", r.card)

StreamInv == StreamsFine(Live(run, tail), db, pipe)
SnapInv ==
  /\ StepFine(snap, Live(run, tail))
  /\ SnapFine(snap, Live(run, tail), db, loose)
  /\ resp.at = "read" => SnapFine(resp.what, Live(run, tail), db, loose)
ArrivalInv ==
  /\ PageFine(page, db) /\ PipeFine(pipe, db) /\ ReadsFine(view, buf, pipe, db, loose)
CardInv == CardFine(run, tail, pipe, shown, counts)
ViewInv == ViewTyped /\ StreamInv /\ SnapInv /\ ArrivalInv /\ CardInv

\* The same after a step.
StreamNow == StreamsFine(Live(run', tail'), db', pipe')
SnapNow ==
  /\ StepFine(snap', Live(run', tail'))
  /\ SnapFine(snap', Live(run', tail'), db', loose')
  /\ resp'.at = "read" => SnapFine(resp'.what, Live(run', tail'), db', loose')
ArrivalNow ==
  /\ PageFine(page', db') /\ PipeFine(pipe', db')
  /\ ReadsFine(view', buf', pipe', db', loose')
CardNow == CardFine(run', tail', pipe', shown', counts')
TypedNow ==
  /\ run' \in TaskRec /\ run'.tail = FALSE
  /\ tail' \in TaskRec \cup {None} /\ (tail' # None => tail'.tail = TRUE)
  /\ snap' \in SnapRec /\ db' \in Seq(Words \cup {None}) /\ Len(db') <= MaxMsgs
  /\ pipe' \in Seq(EventRec) /\ (resp'.at = "read" => resp'.what \in SnapRec)
  /\ DOMAIN view' = View!Msgs
  /\ counts' \in [card : Nat, stops : Nat, beside : Nat]
ViewNow == TypedNow /\ StreamNow /\ SnapNow /\ ArrivalNow /\ CardNow

LEMMA ViewIsNow ==
  ASSUME ViewNow
  PROVE  ViewInv'
<1>1. ViewTyped'
  BY DEF ViewNow, TypedNow, ViewTyped
<1>2. StreamInv'
  BY DEF ViewNow, StreamNow, StreamInv
<1>3. SnapInv'
  BY DEF ViewNow, SnapNow, SnapInv
<1>4. ArrivalInv'
  BY DEF ViewNow, ArrivalNow, ArrivalInv
<1>5. CardInv'
  BY DEF ViewNow, CardNow, CardInv
<1> QED
  BY <1>1, <1>2, <1>3, <1>4, <1>5 DEF ViewInv

LEMMA ViewIs ==
  ASSUME PartsAssumption
  PROVE  /\ MaxMsgs \in Nat /\ MaxChunks \in Nat /\ MaxTries \in Nat
         /\ MaxCards \in Nat /\ MaxBeside \in Nat /\ MaxPipe \in Nat
         /\ None \notin Nat
BY DEF PartsAssumption, View!RunViewAssumption

LEMMA DbIs ==
  ASSUME NEW S, NEW q \in Seq(S)
  PROVE  Len(q) \in Nat /\ DOMAIN q = 1 .. Len(q) /\ (\A i \in DOMAIN q : q[i] \in S)
BY LenProperties, ElementOfSeq

\* Queues only grow behind.
Sends(S) ==
  /\ pipe' \in Seq(EventRec) /\ DOMAIN pipe \subseteq DOMAIN pipe'
  /\ \A i \in DOMAIN pipe : pipe'[i] = pipe[i]
  /\ \A i \in DOMAIN pipe' \ DOMAIN pipe : pipe'[i] \in S /\ \A j \in DOMAIN pipe : j < i

LEMMA SendsNone ==
  ASSUME pipe \in Seq(EventRec), pipe' = pipe
  PROVE  Sends({})
BY DEF Sends

LEMMA SendsOne ==
  ASSUME pipe \in Seq(EventRec), NEW e \in EventRec, View!Emit(<<e>>)
  PROVE  Sends({e}) /\ \E i \in DOMAIN pipe' : i \notin DOMAIN pipe /\ pipe'[i] = e
<1>1. pipe' = Append(pipe, e)
  <2>1. pipe' = pipe \o <<e>>
    BY DEF View!Emit
  <2> QED
    BY <2>1, AppendIsConcat
<1>2. /\ pipe' \in Seq(EventRec) /\ Len(pipe') = Len(pipe) + 1
      /\ \A i \in 1 .. Len(pipe) : pipe'[i] = pipe[i]
      /\ pipe'[Len(pipe) + 1] = e
  BY <1>1, AppendProperties
<1>3. /\ DOMAIN pipe = 1 .. Len(pipe) /\ DOMAIN pipe' = 1 .. Len(pipe')
      /\ Len(pipe) \in Nat /\ Len(pipe') \in Nat
  BY <1>2, LenProperties
<1> QED
  BY <1>2, <1>3 DEF Sends

LEMMA SendsTwo ==
  ASSUME pipe \in Seq(EventRec), NEW e \in EventRec, NEW f \in EventRec, View!Emit(<<e, f>>)
  PROVE  Sends({e, f}) /\ \E i \in DOMAIN pipe' : i \notin DOMAIN pipe /\ pipe'[i] = f
<1>1. PICK q : q = <<e, f>>
  OBVIOUS
<1>2. q \in Seq(EventRec) /\ Len(q) = 2 /\ q[1] = e /\ q[2] = f
  BY <1>1
<1>3. pipe' = pipe \o q
  BY <1>1 DEF View!Emit
<1>4. /\ pipe' \in Seq(EventRec) /\ Len(pipe') = Len(pipe) + 2 /\ Len(pipe) \in Nat
      /\ \A i \in 1 .. Len(pipe) + 2 :
           pipe'[i] = IF i <= Len(pipe) THEN pipe[i] ELSE q[i - Len(pipe)]
  <2>1. /\ pipe \o q \in Seq(EventRec) /\ Len(pipe \o q) = Len(pipe) + Len(q)
        /\ \A i \in 1 .. Len(pipe) + Len(q) :
             (pipe \o q)[i] = IF i <= Len(pipe) THEN pipe[i] ELSE q[i - Len(pipe)]
    BY <1>2, ConcatProperties
  <2> QED
    BY <1>2, <1>3, <2>1, LenProperties
<1>5. /\ DOMAIN pipe = 1 .. Len(pipe) /\ DOMAIN pipe' = 1 .. Len(pipe')
      /\ Len(pipe) \in Nat /\ Len(pipe') \in Nat
  BY <1>4, LenProperties
<1> PICK n \in Nat : n = Len(pipe)
  BY <1>5
<1>6. pipe'[n + 1] = e /\ pipe'[n + 2] = f
  <2>1. n + 1 \in 1 .. n + 2 /\ ~(n + 1 <= n) /\ (n + 1) - n = 1
    OBVIOUS
  <2>2. n + 2 \in 1 .. n + 2 /\ ~(n + 2 <= n) /\ (n + 2) - n = 2
    OBVIOUS
  <2>3. pipe'[n + 1] = q[1]
    BY <1>4, <2>1
  <2>4. pipe'[n + 2] = q[2]
    BY <1>4, <2>2
  <2> QED
    BY <1>2, <2>3, <2>4
<1>7. /\ DOMAIN pipe = 1 .. n /\ DOMAIN pipe' = 1 .. (n + 2)
      /\ \A i \in 1 .. n : pipe'[i] = pipe[i]
  BY <1>4, <1>5
<1>8. \A i \in DOMAIN pipe' \ DOMAIN pipe : i = n + 1 \/ i = n + 2
  BY <1>7
<1>9. \A i \in DOMAIN pipe' \ DOMAIN pipe : pipe'[i] \in {e, f}
  BY <1>6, <1>8
<1>10. \A i \in DOMAIN pipe' \ DOMAIN pipe : \A j \in DOMAIN pipe : j < i
  BY <1>7, <1>8
<1>11. n + 2 \in DOMAIN pipe' /\ n + 2 \notin DOMAIN pipe /\ DOMAIN pipe \subseteq DOMAIN pipe'
  BY <1>7
<1> QED
  BY <1>4, <1>6, <1>7, <1>9, <1>10, <1>11 DEF Sends

-----------------------------------------------------------------------------
\* A step of a task sends events behind the others, about one message at most.
LEMMA ArrivalSteps ==
  ASSUME ViewTyped, ArrivalInv, db' \in Seq(Words \cup {None}), NEW S, Sends(S), NEW m0,
         view' = view, buf' = buf, page' = page, loose \subseteq loose',
         \A m \in DOMAIN db : m \in DOMAIN db' /\ (m # m0 => db'[m] = db[m]),
         \A m \in DOMAIN db' : m \in DOMAIN db \/ db'[m] = << >>,
         m0 \in DOMAIN db => db[m0] = << >> /\ ~Sent(pipe, {"final"}, m0),
         \A e \in S : e.kind \in Adding => e.msg = m0 /\ m0 \in DOMAIN db /\ db' = db,
         \A e \in S : e.kind = "final" =>
           e.msg = m0 /\ m0 \in DOMAIN db /\ e.data = db'[m0],
         m0 \in DOMAIN db /\ Done(db', m0) => m0 \in loose' \/ Sent(pipe', {"final"}, m0),
         \A e, f \in S : e.kind = "final" => f.kind \notin Adding
  PROVE  ArrivalNow
<1>1. PageFine(page', db')
  <2> SUFFICES ASSUME page.at = "read"
               PROVE  /\ DOMAIN page.what \subseteq DOMAIN db'
                      /\ \A m \in DOMAIN page.what :
                           page.what[m] = None \/ page.what[m] = << >> \/ page.what[m] = db'[m]
    BY DEF PageFine
  <2>1. PageFine(page, db)
    BY DEF ArrivalInv
  <2> QED
    BY <2>1 DEF PageFine
<1>2. PipeFine(pipe, db) /\ ReadsFine(view, buf, pipe, db, loose)
  BY DEF ArrivalInv
<1>3. PipeFine(pipe', db')
  <2>1. ASSUME NEW i \in DOMAIN pipe', pipe'[i].kind = "final"
        PROVE  pipe'[i].msg \in DOMAIN db' /\ pipe'[i].data = db'[pipe'[i].msg]
    <3>1. CASE i \in DOMAIN pipe
      <4>1. pipe'[i] = pipe[i] /\ pipe[i].msg \in DOMAIN db /\ pipe[i].data = db[pipe[i].msg]
        BY <1>2, <2>1, <3>1 DEF Sends, PipeFine
      <4>2. pipe[i].msg # m0
        BY <2>1, <3>1, <4>1 DEF Sent
      <4> QED
        BY <4>1, <4>2
    <3>2. CASE i \notin DOMAIN pipe
      BY <2>1, <3>2 DEF Sends
    <3> QED
      BY <3>1, <3>2
  <2>2. ASSUME NEW i \in DOMAIN pipe', NEW j \in DOMAIN pipe', i < j, pipe'[i].kind = "final",
               pipe'[j].kind \in Adding, pipe'[j].msg = pipe'[i].msg
        PROVE  FALSE
    <3>1. CASE i \in DOMAIN pipe /\ j \in DOMAIN pipe
      BY <1>2, <2>2, <3>1 DEF Sends, PipeFine
    <3>2. CASE i \in DOMAIN pipe /\ j \notin DOMAIN pipe
      <4>1. pipe'[j] \in S /\ pipe'[i] = pipe[i]
        BY <3>2 DEF Sends
      <4>2. pipe'[j].msg = m0 /\ m0 \in DOMAIN db
        BY <2>2, <4>1
      <4>3. Sent(pipe, {"final"}, m0)
        BY <2>2, <3>2, <4>1, <4>2 DEF Sent
      <4> QED
        BY <4>2, <4>3
    <3>3. CASE i \notin DOMAIN pipe /\ j \notin DOMAIN pipe
      BY <2>2, <3>3 DEF Sends
    <3>4. CASE i \notin DOMAIN pipe /\ j \in DOMAIN pipe
      <4>1. j < i
        BY <3>4 DEF Sends
      <4>2. i \in Nat /\ j \in Nat
        BY DbIs DEF Sends
      <4> QED
        BY <2>2, <4>1, <4>2
    <3> QED
      BY <3>1, <3>2, <3>3, <3>4
  <2> QED
    BY <2>1, <2>2 DEF PipeFine
<1>4. ReadsFine(view', buf', pipe', db', loose')
  <2> SUFFICES ASSUME NEW m \in DOMAIN db' \ loose', Done(db', m),
                      ~Sent(pipe', {"final"}, m)
               PROVE  Arrived(view', buf', pipe', db', m)
    BY DEF ReadsFine
  <2>1. m \in DOMAIN db
    BY DEF Done
  <2>2. m # m0 /\ db'[m] = db[m]
    BY <2>1
  <2>3. Done(db, m) /\ m \notin loose
    BY <2>1, <2>2 DEF Done
  <2>4. ~Sent(pipe, {"final"}, m)
    BY DEF Sent, Sends
  <2>5. Arrived(view, buf, pipe, db, m)
    BY <1>2, <2>1, <2>3, <2>4 DEF ReadsFine
  <2>6. ~Sent(pipe', Adding, m)
    <3> SUFFICES ASSUME NEW i \in DOMAIN pipe', pipe'[i].kind \in Adding, pipe'[i].msg = m
                 PROVE  FALSE
      BY DEF Sent
    <3>1. CASE i \in DOMAIN pipe
      BY <2>5, <3>1 DEF Arrived, Sent, Sends
    <3>2. CASE i \notin DOMAIN pipe
      BY <2>2, <3>2 DEF Sends
    <3> QED
      BY <3>1, <3>2
  <2> QED
    BY <2>2, <2>5, <2>6 DEF Arrived
<1> QED
  BY <1>1, <1>3, <1>4 DEF ArrivalNow

\* Who streams after a step streamed that message before, or its row is new.
LEMMA StreamSteps ==
  ASSUME StreamInv, PipeFine(pipe, db), NEW S, Sends(S), Alone(Live(run', tail')),
         \A p \in Live(run', tail') :
           /\ p.msg \in DOMAIN db' /\ db'[p.msg] = << >>
           /\ p.msg \in DOMAIN db => \E r \in Live(run, tail) : r.msg = p.msg
           /\ \A e \in S : e.kind = "final" => e.msg # p.msg
  PROVE  StreamNow
<1> SUFFICES ASSUME NEW p \in Live(run', tail'), NEW i \in DOMAIN pipe',
                    pipe'[i].kind = "final", pipe'[i].msg = p.msg
             PROVE  FALSE
  BY DEF StreamNow, StreamsFine, StreamFine, Sent
<1>1. i \in DOMAIN pipe /\ pipe[i].kind = "final" /\ pipe[i].msg = p.msg
  BY DEF Sends
<1>2. p.msg \in DOMAIN db
  BY <1>1 DEF PipeFine
<1>3. PICK r \in Live(run, tail) : r.msg = p.msg
  BY <1>2
<1>4. ~Sent(pipe, {"final"}, r.msg)
  BY DEF StreamInv, StreamsFine, StreamFine
<1> QED
  BY <1>1, <1>3, <1>4 DEF Sent

LEMMA EmptyFine ==
  ASSUME PartsAssumption, NEW s, s.text = << >>, NEW L \in SUBSET TaskRec,
         NEW d \in Seq(Words \cup {None}), NEW again, s.msg \in DOMAIN d \cup {None}
  PROVE  StepFine(s, L) /\ SnapFine(s, L, d, again)
<1>1. DOMAIN s.text = {}
  OBVIOUS
<1>2. \A u \in Words : Short(<< >>, u)
  <2> TAKE u \in Words
  <2>1. Len(u) \in Nat /\ Len(<< >>) = 0 /\ (Len(u) = 0 => u = << >>)
    BY EmptySeq, LenProperties DEF Words
  <2> QED
    BY <2>1 DEF Short
<1>3. \A r \in L : r.text \in Words
  BY DEF TaskRec
<1>4. Done(d, s.msg) => d[s.msg] \in Words
  BY DbIs DEF Done
<1>5. StepFine(s, L)
  BY <1>1 DEF StepFine, View!Ordered, UpTo
<1>6. SnapFine(s, L, d, again)
  BY <1>2, <1>3, <1>4 DEF SnapFine
<1> QED
  BY <1>5, <1>6

\* A snapshot that was taken stays right while rows are filled with the texts
\* that streamed, and texts grow.
Fills ==
  /\ loose \subseteq loose' /\ DOMAIN db \subseteq DOMAIN db'
  /\ \A m \in DOMAIN db \ loose' : Done(db', m) =>
       \/ Done(db, m) /\ db'[m] = db[m]
       \/ \E r \in Live(run, tail) : r.msg = m /\ r.text = db'[m]
Grows(r, p) == r.text = p.text \/ Len(r.text) < Len(p.text)
Follow ==
  \A p \in Live(run', tail') :
    /\ p.msg # None
    /\ p.msg \in DOMAIN db \ loose' =>
         \E r \in Live(run, tail) : r.msg = p.msg /\ Grows(r, p)

LEMMA ShortGrows ==
  ASSUME NEW t \in Words, NEW u \in Words, NEW w \in Words, Short(t, u),
         u = w \/ Len(u) < Len(w)
  PROVE  Short(t, w)
<1>1. Len(t) \in Nat /\ Len(u) \in Nat /\ Len(w) \in Nat
  BY LenProperties DEF Words
<1> QED
  BY <1>1 DEF Short

LEMMA SnapKept ==
  ASSUME PartsAssumption, ViewTyped, TypedNow, NEW s \in SnapRec,
         SnapFine(s, Live(run, tail), db, loose), Fills, Follow
  PROVE  SnapFine(s, Live(run', tail'), db', loose')
<1>1. s.msg \in DOMAIN db' \cup {None}
  BY DEF SnapFine, Fills
<1>2. ASSUME s.msg \notin loose'
      PROVE  /\ \A p \in Live(run', tail') : p.msg = s.msg => Short(s.text, p.text)
             /\ Done(db', s.msg) => Short(s.text, db'[s.msg])
  <2>1. /\ \A r \in Live(run, tail) : r.msg = s.msg => Short(s.text, r.text)
        /\ Done(db, s.msg) => Short(s.text, db[s.msg])
    BY <1>2 DEF Fills, SnapFine
  <2>2. ASSUME NEW p \in Live(run', tail'), p.msg = s.msg
        PROVE  Short(s.text, p.text)
    <3>1. p.msg \in DOMAIN db \ loose'
      BY <1>2, <2>2 DEF SnapFine, Follow
    <3>2. PICK r \in Live(run, tail) : r.msg = p.msg /\ Grows(r, p)
      BY <3>1 DEF Follow
    <3>3. s.text \in Words /\ r.text \in Words /\ p.text \in Words
      BY DEF SnapRec, TaskRec, Live, ViewTyped, TypedNow
    <3> QED
      BY <2>1, <2>2, <3>2, <3>3, ShortGrows DEF Grows
  <2>3. ASSUME Done(db', s.msg)
        PROVE  Short(s.text, db'[s.msg])
    <3>1. s.msg \in DOMAIN db
      <4>1. None \notin DOMAIN db'
        BY ViewIs, DbIs DEF TypedNow
      <4> QED
        BY <2>3, <4>1 DEF SnapFine, Done
    <3> QED
      BY <1>2, <2>1, <2>3, <3>1 DEF Fills
  <2> QED
    BY <2>2, <2>3
<1> QED
  BY <1>1, <1>2 DEF SnapFine

\* The snapshot keeps its text, or has none.
Later(r, p) == r.try < p.try \/ (r.try = p.try /\ r.n <= p.n)
LEMMA SnapSteps ==
  ASSUME PartsAssumption, ViewTyped, TypedNow, SnapInv, Fills, Follow, resp' = resp,
         \/ snap'.text = << >> /\ snap'.msg \in DOMAIN db' \cup {None}
         \/ /\ snap'.text = snap.text /\ snap'.msg = snap.msg
            /\ \A p \in Live(run', tail') :
                 \E r \in Live(run, tail) : r.msg = p.msg /\ Later(r, p)
  PROVE  SnapNow
<1>1. resp'.at = "read" => SnapFine(resp'.what, Live(run', tail'), db', loose')
  BY SnapKept DEF SnapInv, ViewTyped
<1>2. Live(run', tail') \subseteq TaskRec /\ Live(run, tail) \subseteq TaskRec
  BY DEF Live, TypedNow, ViewTyped
<1>3. CASE snap'.text = << >> /\ snap'.msg \in DOMAIN db' \cup {None}
  <2>1. StepFine(snap', Live(run', tail')) /\ SnapFine(snap', Live(run', tail'), db', loose')
    BY <1>2, <1>3, EmptyFine DEF TypedNow
  <2> QED
    BY <1>1, <2>1 DEF SnapNow
<1>4. CASE /\ snap'.text = snap.text /\ snap'.msg = snap.msg
           /\ \A p \in Live(run', tail') :
                \E r \in Live(run, tail) : r.msg = p.msg /\ Later(r, p)
  <2>1. SnapFine(snap, Live(run', tail'), db', loose')
    BY SnapKept DEF SnapInv, ViewTyped
  <2>2. SnapFine(snap', Live(run', tail'), db', loose')
    BY <1>4, <2>1 DEF SnapFine
  <2>3. ASSUME NEW p \in Live(run', tail'), snap.msg = p.msg
        PROVE  UpTo(snap.text, p)
    <3>1. PICK r \in Live(run, tail) : r.msg = p.msg /\ Later(r, p)
      BY <1>4
    <3>2. UpTo(snap.text, r)
      BY <2>3, <3>1 DEF SnapInv, StepFine
    <3>3. r.try \in Nat /\ r.n \in Nat /\ p.try \in Nat /\ p.n \in Nat
      BY <1>2 DEF TaskRec
    <3>4. \A i \in DOMAIN snap.text : snap.text[i][1] \in Nat /\ snap.text[i][2] \in Nat
      <4>1. snap.text \in Seq(Piece)
        BY DEF ViewTyped, SnapRec, Words
      <4>2. \A i \in DOMAIN snap.text : snap.text[i] \in Piece
        BY <4>1, DbIs
      <4> QED
        BY <4>2 DEF Piece
    <3> QED
      BY <3>1, <3>2, <3>3, <3>4 DEF UpTo, Later
  <2>4. StepFine(snap', Live(run', tail'))
    BY <1>4, <2>3 DEF StepFine, SnapInv
  <2> QED
    BY <1>1, <2>2, <2>4 DEF SnapNow
<1> QED
  BY <1>3, <1>4

\* The other task stays; the one that steps becomes q, or ends if it was aborted.
LEMMA BecomesIs ==
  ASSUME ViewTyped, NEW r, View!Task(r), NEW q \in TaskRec, ~r.tail => ~q.tail,
         View!Becomes(r, q)
  PROVE  /\ r \in TaskRec /\ run' \in TaskRec /\ run'.tail = FALSE
         /\ tail' \in TaskRec \cup {None} /\ (tail' # None => tail'.tail = TRUE)
         /\ \A p \in Live(run', tail') : p = q \/ (p \in Live(run, tail) /\ p # r)
         /\ r.pc = "stream" => r \in Live(run, tail)
<1>1. r \in {run, tail} /\ r # None /\ r \in TaskRec
  BY DEF View!Task, ViewTyped
<1>2. CASE r.tail = TRUE
  <2>1. tail' = None /\ run' = run /\ r = tail /\ run # r
    BY <1>1, <1>2 DEF View!Becomes, ViewTyped
  <2> QED
    BY <1>1, <2>1 DEF Live, ViewTyped
<1>3. CASE r.tail = FALSE
  <2>1. tail' = tail /\ run' = q /\ r = run /\ (tail # None => tail # r)
    BY <1>1, <1>3 DEF View!Becomes, ViewTyped
  <2>2. q.tail = FALSE
    BY <1>3 DEF TaskRec
  <2> QED
    BY <1>1, <2>1, <2>2 DEF Live, ViewTyped
<1> QED
  BY <1>1, <1>2, <1>3 DEF TaskRec

LEMMA EventIs ==
  ASSUME NEW k \in Kinds, NEW m \in Nat \cup {None}, NEW x \in EventData
  PROVE  /\ View!Event(k, m, x) \in EventRec /\ View!Event(k, m, x).kind = k
         /\ View!Event(k, m, x).msg = m /\ View!Event(k, m, x).data = x
BY DEF View!Event, EventRec

LEMMA NoWords == << >> \in Words
BY DEF Words

LEMMA SnapOps ==
  ASSUME NEW s \in SnapRec, NEW m \in Nat \cup {None}, NEW c \in Nat
  PROVE  /\ View!StartRun(s) \in SnapRec /\ View!StartRun(s).text = << >>
         /\ View!StartRun(s).msg = None
         /\ View!FinishRun(s) \in SnapRec /\ View!FinishRun(s).text = << >>
         /\ View!FinishRun(s).msg = None
         /\ View!TransitionToStep(s, m) \in SnapRec /\ View!TransitionToStep(s, m).text = << >>
         /\ View!TransitionToStep(s, m).msg = m
         /\ View!FinishStep(s) \in SnapRec /\ View!FinishStep(s).text = << >>
         /\ View!FinishStep(s).msg = s.msg
         /\ View!UpsertToolEvent(s, m) \in SnapRec /\ View!UpsertToolEvent(s, m).text = s.text
         /\ View!UpsertToolEvent(s, m).msg = s.msg
         /\ View!RemoveToolEvent(s, m) \in SnapRec /\ View!RemoveToolEvent(s, m).text = s.text
         /\ View!RemoveToolEvent(s, m).msg = s.msg
         /\ View!SetPendingApproval(s, c) \in SnapRec
         /\ View!SetPendingApproval(s, c).text = s.text
         /\ View!SetPendingApproval(s, c).msg = s.msg
<1> USE NoWords DEF SnapRec
<1>1. View!Fresh \in SnapRec
  BY DEF View!Fresh
<1>2. /\ View!StartRun(s) \in SnapRec /\ View!StartRun(s).text = << >>
      /\ View!StartRun(s).msg = None
  BY DEF View!StartRun, View!Fresh
<1>3. /\ View!FinishRun(s) \in SnapRec /\ View!FinishRun(s).text = << >>
      /\ View!FinishRun(s).msg = None
  BY <1>1 DEF View!FinishRun, View!Fresh
<1>4. /\ View!TransitionToStep(s, m) \in SnapRec /\ View!TransitionToStep(s, m).text = << >>
      /\ View!TransitionToStep(s, m).msg = m
  BY DEF View!TransitionToStep
<1>5. /\ View!FinishStep(s) \in SnapRec /\ View!FinishStep(s).text = << >>
      /\ View!FinishStep(s).msg = s.msg
  BY DEF View!FinishStep
<1>6. /\ View!UpsertToolEvent(s, m) \in SnapRec /\ View!UpsertToolEvent(s, m).text = s.text
      /\ View!UpsertToolEvent(s, m).msg = s.msg
  BY DEF View!UpsertToolEvent
<1>7. /\ View!RemoveToolEvent(s, m) \in SnapRec /\ View!RemoveToolEvent(s, m).text = s.text
      /\ View!RemoveToolEvent(s, m).msg = s.msg
  BY DEF View!RemoveToolEvent
<1>8. /\ View!SetPendingApproval(s, c) \in SnapRec
      /\ View!SetPendingApproval(s, c).text = s.text
      /\ View!SetPendingApproval(s, c).msg = s.msg
  BY DEF View!SetPendingApproval
<1> QED
  BY <1>2, <1>3, <1>4, <1>5, <1>6, <1>7, <1>8

-----------------------------------------------------------------------------
(* Steps by which nothing begins to stream and no row changes.               *)
SnapStays ==
  \/ snap'.text = << >> /\ (snap'.msg = None \/ snap'.msg = snap.msg)
  \/ snap'.text = snap.text /\ snap'.msg = snap.msg
StreamsStay ==
  /\ Alone(Live(run', tail'))
  /\ \A p \in Live(run', tail') : \E r \in Live(run, tail) :
       r.msg = p.msg /\ r.text = p.text /\ r.try = p.try /\ r.n = p.n
Notices == {"run", "step", "approval", "resolved"}
Calm ==
  /\ db' = db /\ loose' = loose /\ UNCHANGED <<page, resp, view, buf>>
  /\ \E S : Sends(S) /\ \A e \in S : e.kind \in Notices
  /\ SnapStays /\ StreamsStay

LEMMA LiveMsg ==
  ASSUME PartsAssumption, ViewTyped, StreamInv, NEW r \in Live(run, tail)
  PROVE  r \in TaskRec /\ r.msg \in DOMAIN db /\ r.msg \in Nat /\ r.msg # None
         /\ db[r.msg] = << >>
<1>1. r \in TaskRec /\ r.msg \in DOMAIN db /\ db[r.msg] = << >>
  BY DEF StreamInv, StreamsFine, StreamFine, Live, ViewTyped
<1>2. DOMAIN db = 1 .. Len(db) /\ Len(db) \in Nat
  BY DbIs DEF ViewTyped
<1> QED
  BY <1>1, <1>2, ViewIs

LEMMA CalmNext ==
  ASSUME PartsAssumption, ViewTyped, StreamInv, SnapInv, ArrivalInv, TypedNow, Calm
  PROVE  StreamNow /\ SnapNow /\ ArrivalNow
<1>1. PICK S : Sends(S) /\ \A e \in S : e.kind \in Notices
  BY DEF Calm
<1>2. \A e \in S : e.kind # "final" /\ e.kind \notin Adding
  BY <1>1 DEF Notices, Adding
<1>3. ASSUME NEW p \in Live(run', tail')
      PROVE  \E r \in Live(run, tail) : /\ r \in TaskRec /\ r.msg \in DOMAIN db
               /\ r.msg # None /\ db[r.msg] = << >>
               /\ r.msg = p.msg /\ r.text = p.text /\ r.try = p.try /\ r.n = p.n
  BY LiveMsg DEF Calm, StreamsStay
<1>4. StreamNow
  BY <1>1, <1>2, <1>3, StreamSteps DEF Calm, StreamsStay, ArrivalInv
<1>5. Fills /\ Follow
  BY <1>3 DEF Calm, Fills, Follow, Grows
<1>6. \A p \in Live(run', tail') :
        \E r \in Live(run, tail) : r.msg = p.msg /\ Later(r, p)
  <2> TAKE p \in Live(run', tail')
  <2>1. PICK r \in Live(run, tail) : r \in TaskRec /\ r.msg = p.msg /\ r.try = p.try /\ r.n = p.n
    BY <1>3
  <2>2. Later(r, p)
    BY <2>1 DEF Later, TaskRec
  <2> QED
    BY <2>1, <2>2
<1>7. snap.msg \in DOMAIN db' \cup {None}
  BY DEF SnapInv, SnapFine, Calm
<1>8. SnapNow
  BY <1>5, <1>6, <1>7, SnapSteps DEF Calm, SnapStays
<1>9. None \notin DOMAIN db
  BY ViewIs, DbIs DEF ViewTyped
<1>10. ArrivalNow
  BY <1>1, <1>2, <1>9, ArrivalSteps DEF Calm, ViewTyped
<1> QED
  BY <1>4, <1>8, <1>10

\* Of a task that does not stream after its step nothing is left that does.
LEMMA StreamsEnd ==
  ASSUME ViewTyped, StreamInv, NEW r, View!Task(r), NEW q \in TaskRec, ~r.tail => ~q.tail,
         View!Becomes(r, q), q.pc # "stream"
  PROVE  StreamsStay /\ Live(run', tail') \subseteq Live(run, tail) \ {r}
<1>1. ASSUME NEW p \in Live(run', tail')
      PROVE  p \in Live(run, tail) /\ p # r
  <2>1. p = q \/ (p \in Live(run, tail) /\ p # r)
    BY BecomesIs
  <2>2. p.pc = "stream"
    BY DEF Live
  <2> QED
    BY <2>1, <2>2
<1> QED
  BY <1>1 DEF StreamsStay, StreamInv, StreamsFine, Alone

\* The cards: a task that goes on without a request, or with a new one.
LEMMA CardTask ==
  ASSUME PartsAssumption, ViewTyped, TypedNow, CardInv, NEW r, View!Task(r), NEW q \in TaskRec,
         View!Becomes(r, q), shown' = shown, counts'.stops = counts.stops,
         NEW S, Sends(S), \A e \in S : e.kind # "resolved",
         \/ ~Waits(q) /\ counts'.card = counts.card
         \/ q.card = counts'.card /\ counts'.card = counts.card + 1 /\ Has(pipe', "approval", q.card)
  PROVE  CardNow
<1> SUFFICES ASSUME counts.stops = 0
             PROVE  CardNow
  BY DEF CardNow, CardFine
<1>1. /\ tail = None
      /\ \A i \in DOMAIN pipe : pipe[i].kind = "resolved" =>
           pipe[i].data \in Nat /\ pipe[i].data <= counts.card
  BY DEF CardInv, CardFine
<1>2. r = run /\ run' = q /\ tail' = None
  BY <1>1 DEF View!Task, View!Becomes, ViewTyped
<1>3. \A i \in DOMAIN pipe' : pipe'[i].kind = "resolved" =>
        pipe'[i].data \in Nat /\ pipe'[i].data <= counts.card
  BY <1>1 DEF Sends
<1>4. counts.card \in Nat /\ counts'.card \in Nat
  BY DEF ViewTyped, TypedNow
<1>5. CASE ~Waits(q) /\ counts'.card = counts.card
  BY <1>2, <1>3, <1>5 DEF CardNow, CardFine
<1>6. CASE q.card = counts'.card /\ counts'.card = counts.card + 1 /\ Has(pipe', "approval", q.card)
  <2>1. \A i \in DOMAIN pipe' : pipe'[i].kind = "resolved" =>
          /\ pipe'[i].data \in Nat /\ pipe'[i].data <= counts'.card /\ pipe'[i].data # q.card
    BY <1>3, <1>4, <1>6
  <2> QED
    BY <1>2, <1>6, <2>1 DEF CardNow, CardFine, Has
<1> QED
  BY <1>5, <1>6

-----------------------------------------------------------------------------
(* The actions of the task.                                                  *)
LEMMA CalmTask ==
  ASSUME PartsAssumption, ViewInv, NEW r, View!Task(r), NEW q \in TaskRec, ~r.tail => ~q.tail,
         View!Becomes(r, q), q.pc # "stream", View!TaskOnly,
         db' = db, loose' = loose, snap' \in SnapRec, SnapStays,
         counts' \in [card : Nat, stops : Nat, beside : Nat], counts'.stops = counts.stops,
         NEW S, Sends(S), \A e \in S : e.kind \in Notices \ {"resolved"},
         \/ ~Waits(q) /\ counts'.card = counts.card
         \/ q.card = counts'.card /\ counts'.card = counts.card + 1 /\ Has(pipe', "approval", q.card)
  PROVE  ViewNow
<1>1. ViewTyped /\ StreamInv /\ SnapInv /\ ArrivalInv /\ CardInv
  BY DEF ViewInv
<1>2. UNCHANGED <<here, page, resp, view, buf, shown>>
  BY DEF View!TaskOnly, View!window
<1>3. TypedNow
  <2>1. /\ run' \in TaskRec /\ run'.tail = FALSE
        /\ tail' \in TaskRec \cup {None} /\ (tail' # None => tail'.tail = TRUE)
    BY <1>1, BecomesIs
  <2> QED
    BY <1>1, <1>2, <2>1 DEF TypedNow, ViewTyped, Sends
<1>4. StreamsStay
  BY <1>1, StreamsEnd
<1>5. Calm
  BY <1>2, <1>4 DEF Calm, Notices
<1>6. CardNow
  BY <1>1, <1>2, <1>3, CardTask
<1> QED
  BY <1>1, <1>3, <1>5, <1>6, CalmNext DEF ViewNow

\* A record of a task with another position.
LEMMA AtPc ==
  ASSUME NEW r \in TaskRec, NEW pc \in View!Pcs, NEW q, q = [r EXCEPT !.pc = pc]
  PROVE  q \in TaskRec /\ q.pc = pc /\ q.tail = r.tail
BY DEF TaskRec

LEMMA NoRunIs == View!IdleRun \in TaskRec /\ View!IdleRun.pc = "idle" /\ View!IdleRun.tail = FALSE
BY NoWords DEF View!IdleRun, TaskRec, View!Pcs

LEMMA RunEvent ==
  ASSUME NEW b, b = TRUE \/ b = FALSE
  PROVE  View!Event("run", None, b) \in EventRec /\ View!Event("run", None, b).kind = "run"
<1>1. b \in EventData
  BY DEF EventData
<1>2. "run" \in Kinds /\ None \in Nat \cup {None}
  BY DEF Kinds
<1> QED
  BY <1>1, <1>2 DEF View!Event, EventRec

LEMMA CardEvent ==
  ASSUME NEW c, c \in Nat \cup {None}, NEW k \in {"approval", "resolved"}
  PROVE  /\ View!Event(k, None, c) \in EventRec
         /\ View!Event(k, None, c).kind = k /\ View!Event(k, None, c).data = c
<1>1. c \in EventData
  BY DEF EventData
<1>2. k \in Kinds /\ None \in Nat \cup {None}
  BY DEF Kinds
<1> QED
  BY <1>1, <1>2 DEF View!Event, EventRec

LEMMA BesideIs ==
  ASSUME NEW c \in [card : Nat, stops : Nat, beside : Nat], View!Beside(c)
  PROVE  /\ counts' \in [card : Nat, stops : Nat, beside : Nat]
         /\ counts'.card = c.card /\ counts'.stops = c.stops
BY DEF View!Beside

LEMMA ExecuteNext ==
  ASSUME PartsAssumption, ViewInv, NEW r, View!Task(r), View!Execute(r)
  PROVE  ViewNow
<1>1. ViewTyped /\ r \in TaskRec
  BY DEF ViewInv, View!Task, ViewTyped
<1>2. PICK q : q = [r EXCEPT !.pc = "runs"]
  OBVIOUS
<1>3. q \in TaskRec /\ q.pc = "runs" /\ q.tail = r.tail /\ View!Becomes(r, q)
  <2>1. "runs" \in View!Pcs
    BY DEF View!Pcs
  <2> QED
    BY <1>1, <1>2, <2>1, AtPc DEF View!Execute
<1>4. snap' \in SnapRec /\ SnapStays
  BY <1>1, SnapOps DEF View!Execute, SnapStays, ViewTyped, TaskRec
<1>5. Sends({})
  BY <1>1, SendsNone DEF View!Execute, ViewTyped
<1>6. View!TaskOnly /\ db' = db /\ loose' = loose /\ counts' = counts
  BY DEF View!Execute
<1> QED
  BY <1>1, <1>3, <1>4, <1>5, <1>6, CalmTask DEF Waits, ViewTyped

LEMMA FinishNext ==
  ASSUME PartsAssumption, ViewInv, NEW r, View!Task(r), View!Finish(r)
  PROVE  ViewNow
<1>1. ViewTyped /\ r \in TaskRec
  BY DEF ViewInv, View!Task, ViewTyped
<1> PICK pc : pc = IF Len(db) < MaxMsgs THEN "next" ELSE "end"
  OBVIOUS
<1>2. PICK q : q = [r EXCEPT !.pc = pc]
  OBVIOUS
<1>3. q \in TaskRec /\ q.pc \in {"next", "end"} /\ q.tail = r.tail /\ View!Becomes(r, q)
  <2>1. pc \in {"next", "end"} /\ pc \in View!Pcs
    BY DEF View!Pcs
  <2>2. View!Becomes(r, [r EXCEPT !.pc = pc])
    BY DEF View!Finish
  <2> QED
    BY <1>1, <1>2, <2>1, <2>2, AtPc
<1>4. snap' \in SnapRec /\ SnapStays
  BY <1>1, SnapOps DEF View!Finish, SnapStays, ViewTyped, TaskRec
<1>5. Sends({})
  BY <1>1, SendsNone DEF View!Finish, ViewTyped
<1>6. View!TaskOnly /\ db' = db /\ loose' = loose /\ counts' = counts
  BY DEF View!Finish
<1> QED
  BY <1>1, <1>3, <1>4, <1>5, <1>6, CalmTask DEF Waits, ViewTyped

LEMMA GrantedNext ==
  ASSUME PartsAssumption, ViewInv, NEW r, View!Task(r), View!Granted(r)
  PROVE  ViewNow
<1>1. ViewTyped /\ r \in TaskRec
  BY DEF ViewInv, View!Task, ViewTyped
<1>2. PICK q : q = [r EXCEPT !.pc = "next"]
  OBVIOUS
<1>3. q \in TaskRec /\ q.pc = "next" /\ q.tail = r.tail /\ View!Becomes(r, q)
  <2>1. "next" \in View!Pcs
    BY DEF View!Pcs
  <2> QED
    BY <1>1, <1>2, <2>1, AtPc DEF View!Granted
<1>4. snap' \in SnapRec /\ SnapStays
  BY <1>1, SnapOps DEF View!Granted, SnapStays, ViewTyped
<1>5. Sends({View!Event("run", None, TRUE)})
  BY <1>1, RunEvent, SendsOne DEF View!Granted, ViewTyped
<1>6. View!TaskOnly /\ db' = db /\ loose' = loose /\ counts' = counts
  BY DEF View!Granted
<1> QED
  BY <1>1, <1>3, <1>4, <1>5, <1>6, RunEvent, CalmTask DEF Waits, ViewTyped, Notices

LEMMA EndNext ==
  ASSUME PartsAssumption, ViewInv, NEW r, View!Task(r), View!End(r)
  PROVE  ViewNow
<1>1. ViewTyped /\ r \in TaskRec
  BY DEF ViewInv, View!Task, ViewTyped
<1>2. snap' \in SnapRec /\ SnapStays
  BY <1>1, SnapOps DEF View!End, SnapStays, ViewTyped
<1>3. Sends({View!Event("run", None, FALSE)})
  BY <1>1, RunEvent, SendsOne DEF View!End, ViewTyped
<1>4. View!TaskOnly /\ db' = db /\ loose' = loose /\ counts' = counts
      /\ View!Becomes(r, View!IdleRun)
  BY DEF View!End
<1> QED
  BY <1>1, <1>2, <1>3, <1>4, NoRunIs, RunEvent, CalmTask DEF Waits, ViewTyped, Notices

\* The new card of a request.
LEMMA NewCard ==
  ASSUME ViewTyped, NEW c, c = counts.card + 1, View!Beside([counts EXCEPT !.card = c])
  PROVE  /\ c \in Nat
         /\ counts' \in [card : Nat, stops : Nat, beside : Nat]
         /\ counts'.card = c /\ counts'.stops = counts.stops
<1>1. c \in Nat
  BY DEF ViewTyped
<1>2. PICK k : k = [counts EXCEPT !.card = c]
  OBVIOUS
<1>3. k \in [card : Nat, stops : Nat, beside : Nat] /\ k.card = c /\ k.stops = counts.stops
  BY <1>1, <1>2 DEF ViewTyped
<1> QED
  BY <1>1, <1>2, <1>3, BesideIs

LEMMA AskNext ==
  ASSUME PartsAssumption, ViewInv, NEW r, View!Task(r), View!Ask(r)
  PROVE  ViewNow
<1>1. ViewTyped /\ r \in TaskRec
  BY DEF ViewInv, View!Task, ViewTyped
<1>2. PICK c : /\ c = counts.card + 1 /\ View!Beside([counts EXCEPT !.card = c])
               /\ snap' = View!SetPendingApproval(View!UpsertToolEvent(snap, r.msg), c)
               /\ View!Emit(<<View!Event("approval", None, c)>>)
               /\ View!Becomes(r, [r EXCEPT !.pc = "waits", !.card = c])
  BY DEF View!Ask
<1>3. /\ c \in Nat /\ counts' \in [card : Nat, stops : Nat, beside : Nat]
      /\ counts'.card = c /\ counts'.stops = counts.stops
  BY <1>1, <1>2, NewCard
<1>4. PICK q : q = [r EXCEPT !.pc = "waits", !.card = c]
  OBVIOUS
<1>5. /\ q \in TaskRec /\ q.pc = "waits" /\ q.card = c /\ q.tail = r.tail
      /\ View!Becomes(r, q)
  <2>1. "waits" \in View!Pcs
    BY DEF View!Pcs
  <2>2. c \in Nat \cup {None}
    BY <1>3
  <2>3. q \in TaskRec /\ q.pc = "waits" /\ q.card = c /\ q.tail = r.tail
    BY <1>1, <1>4, <2>1, <2>2 DEF TaskRec
  <2>4. View!Becomes(r, q)
    BY <1>2, <1>4
  <2> QED
    BY <2>3, <2>4
<1>6. snap' \in SnapRec /\ SnapStays
  <2>1. PICK s : s = View!UpsertToolEvent(snap, r.msg)
    OBVIOUS
  <2>2. s \in SnapRec /\ s.text = snap.text /\ s.msg = snap.msg
    BY <1>1, <2>1, SnapOps DEF ViewTyped, TaskRec
  <2>3. snap' \in SnapRec /\ snap'.text = s.text /\ snap'.msg = s.msg
    BY <1>2, <1>3, <2>1, <2>2, SnapOps
  <2> QED
    BY <2>2, <2>3 DEF SnapStays
<1>7. /\ Sends({View!Event("approval", None, c)})
      /\ Has(pipe', "approval", c)
  <2>1. PICK e : e = View!Event("approval", None, c)
    OBVIOUS
  <2>2. e \in EventRec /\ e.kind = "approval" /\ e.data = c
    BY <1>3, <2>1, CardEvent
  <2> QED
    BY <1>1, <1>2, <2>1, <2>2, SendsOne DEF ViewTyped, Has
<1>8. View!TaskOnly /\ db' = db /\ loose' = loose
  BY DEF View!Ask
<1>9. View!Event("approval", None, c).kind = "approval"
  BY <1>3, CardEvent
<1> QED
  BY <1>1, <1>2, <1>3, <1>5, <1>6, <1>7, <1>8, <1>9, CalmTask DEF Notices

LEMMA AskStepsNext ==
  ASSUME PartsAssumption, ViewInv, NEW r, View!Task(r), View!AskSteps(r)
  PROVE  ViewNow
<1>1. ViewTyped /\ r \in TaskRec
  BY DEF ViewInv, View!Task, ViewTyped
<1>2. PICK c : /\ c = counts.card + 1 /\ View!Beside([counts EXCEPT !.card = c])
               /\ snap' = View!SetPendingApproval(View!FinishRun(snap), c)
               /\ View!Emit(<<View!Event("run", None, FALSE), View!Event("approval", None, c)>>)
               /\ View!Becomes(r, [r EXCEPT !.pc = "waitsSteps", !.card = c])
  BY DEF View!AskSteps
<1>3. /\ c \in Nat /\ counts' \in [card : Nat, stops : Nat, beside : Nat]
      /\ counts'.card = c /\ counts'.stops = counts.stops
  BY <1>1, <1>2, NewCard
<1>4. PICK q : q = [r EXCEPT !.pc = "waitsSteps", !.card = c]
  OBVIOUS
<1>5. /\ q \in TaskRec /\ q.pc = "waitsSteps" /\ q.card = c /\ q.tail = r.tail
      /\ View!Becomes(r, q)
  <2>1. "waitsSteps" \in View!Pcs
    BY DEF View!Pcs
  <2>2. c \in Nat \cup {None}
    BY <1>3
  <2>3. q \in TaskRec /\ q.pc = "waitsSteps" /\ q.card = c /\ q.tail = r.tail
    BY <1>1, <1>4, <2>1, <2>2 DEF TaskRec
  <2>4. View!Becomes(r, q)
    BY <1>2, <1>4
  <2> QED
    BY <2>3, <2>4
<1>6. snap' \in SnapRec /\ SnapStays
  <2>1. PICK s : s = View!FinishRun(snap)
    OBVIOUS
  <2>2. s \in SnapRec /\ s.text = << >> /\ s.msg = None
    BY <1>1, <2>1, SnapOps DEF ViewTyped
  <2>3. snap' = View!SetPendingApproval(s, c) /\ None \in Nat \cup {None}
    BY <1>2, <2>1
  <2>4. snap' \in SnapRec /\ snap'.text = s.text /\ snap'.msg = s.msg
    BY <1>3, <2>2, <2>3, SnapOps
  <2> QED
    BY <2>2, <2>4 DEF SnapStays
<1> PICK S : S = {View!Event("run", None, FALSE), View!Event("approval", None, c)}
  OBVIOUS
<1>7. Sends(S) /\ Has(pipe', "approval", c)
  <2>1. PICK e : e = View!Event("approval", None, c)
    OBVIOUS
  <2>2. e \in EventRec /\ e.kind = "approval" /\ e.data = c
    BY <1>3, <2>1, CardEvent
  <2>3. View!Event("run", None, FALSE) \in EventRec
    BY RunEvent
  <2> QED
    BY <1>1, <1>2, <2>1, <2>2, <2>3, SendsTwo DEF ViewTyped, Has
<1>8. View!TaskOnly /\ db' = db /\ loose' = loose
  BY DEF View!AskSteps
<1>9. \A e \in S : e.kind \in Notices \ {"resolved"}
  <2>1. View!Event("run", None, FALSE).kind = "run"
    BY RunEvent
  <2>2. View!Event("approval", None, c).kind = "approval"
    BY <1>3, CardEvent
  <2> QED
    BY <2>1, <2>2 DEF Notices
<1> QED
  BY <1>1, <1>2, <1>3, <1>5, <1>6, <1>7, <1>8, <1>9, CalmTask

-----------------------------------------------------------------------------
(* The start, the user, and a stop.                                          *)
LEMMA StreamsSub ==
  ASSUME StreamInv, Live(run', tail') \subseteq Live(run, tail)
  PROVE  StreamsStay
BY DEF StreamsStay, StreamInv, StreamsFine, Alone

\* The run waits for nobody after the step.
LEMMA CardFree ==
  ASSUME PartsAssumption, ViewTyped, CardInv, TypedNow, ~Waits(run'), tail' = tail,
         counts' = counts, NEW S, Sends(S),
         \A e \in S : e.kind = "resolved" /\ counts.stops = 0 => e.data = counts.card
  PROVE  CardNow
<1> SUFFICES ASSUME counts.stops = 0
             PROVE  CardNow
  BY DEF CardNow, CardFine
<1>1. /\ tail = None
      /\ \A i \in DOMAIN pipe : pipe[i].kind = "resolved" =>
           pipe[i].data \in Nat /\ pipe[i].data <= counts.card
  BY DEF CardInv, CardFine
<1>2. counts.card \in Nat
  BY DEF ViewTyped
<1>3. \A i \in DOMAIN pipe' : pipe'[i].kind = "resolved" =>
        pipe'[i].data \in Nat /\ pipe'[i].data <= counts.card
  BY <1>1, <1>2 DEF Sends
<1> QED
  BY <1>1, <1>3 DEF CardNow, CardFine

\* Nobody asks and nobody answers.
LEMMA CardSame ==
  ASSUME CardInv, run' = run, tail' = tail, counts' = counts, NEW S, Sends(S),
         \A e \in S : e.kind # "resolved", shown \ {run.card} \subseteq shown',
         Waits(run) /\ run.card \in shown => run.card \in shown'
  PROVE  CardNow
<1> SUFFICES ASSUME counts.stops = 0
             PROVE  CardNow
  BY DEF CardNow, CardFine
<1>1. CardFine(run, tail, pipe, shown, counts)
  BY DEF CardInv
<1>2. /\ tail = None
      /\ \A i \in DOMAIN pipe' : pipe'[i].kind = "resolved" =>
           i \in DOMAIN pipe /\ pipe'[i] = pipe[i]
      /\ \A i \in DOMAIN pipe : i \in DOMAIN pipe' /\ pipe'[i] = pipe[i]
  BY <1>1 DEF Sends, CardFine
<1>3. Has(pipe, "approval", run.card) => Has(pipe', "approval", run.card)
  BY <1>2 DEF Has
<1>4. Has(pipe', "resolved", run.card) => Has(pipe, "resolved", run.card)
  BY <1>2 DEF Has
<1>5. \A i \in DOMAIN pipe' : pipe'[i].kind = "resolved" =>
        pipe'[i].data \in Nat /\ pipe'[i].data <= counts.card
  BY <1>1, <1>2 DEF CardFine
<1> QED
  BY <1>1, <1>2, <1>3, <1>4, <1>5 DEF CardNow, CardFine

LEMMA StartNext ==
  ASSUME PartsAssumption, ViewInv, View!Start
  PROVE  ViewNow
<1>1. ViewTyped /\ StreamInv /\ SnapInv /\ ArrivalInv /\ CardInv
  BY DEF ViewInv
<1>2. /\ UNCHANGED <<here, page, resp, view, buf, shown, tail, db, loose, counts>>
      /\ snap' = View!StartRun(snap)
  BY DEF View!Start, View!TaskOnly, View!window
<1>3. run' \in TaskRec /\ run'.pc = "next" /\ run'.tail = FALSE
  <2>1. "next" \in View!Pcs
    BY DEF View!Pcs
  <2> QED
    BY <2>1, NoRunIs, AtPc DEF View!Start
<1>4. PICK S : S = {View!Event("run", None, TRUE)}
  OBVIOUS
<1>5. Sends(S) /\ \A e \in S : e.kind = "run"
  BY <1>1, <1>4, RunEvent, SendsOne DEF View!Start, ViewTyped
<1>6. snap' \in SnapRec /\ SnapStays
  BY <1>1, <1>2, SnapOps DEF ViewTyped, SnapStays
<1>7. TypedNow
  BY <1>1, <1>2, <1>3, <1>5, <1>6 DEF TypedNow, ViewTyped, Sends
<1>8. Live(run', tail') \subseteq Live(run, tail)
  BY <1>2, <1>3 DEF Live
<1>9. Calm
  BY <1>1, <1>2, <1>5, <1>6, <1>8, StreamsSub DEF Calm, Notices
<1>10. CardNow
  BY <1>1, <1>2, <1>3, <1>5, <1>7, CardFree DEF Waits
<1> QED
  BY <1>1, <1>7, <1>9, <1>10, CalmNext DEF ViewNow

LEMMA StopNext ==
  ASSUME PartsAssumption, ViewInv, View!Stop
  PROVE  ViewNow
<1>1. ViewTyped /\ StreamInv /\ SnapInv /\ ArrivalInv /\ CardInv
  BY DEF ViewInv
<1>2. /\ UNCHANGED <<here, page, resp, view, buf, shown, db, loose, snap, pipe>>
      /\ run' = View!IdleRun /\ tail' = [run EXCEPT !.tail = TRUE]
  BY DEF View!Stop, View!window
<1>3. /\ counts' \in [card : Nat, stops : Nat, beside : Nat] /\ counts'.stops = 1
  <2>1. PICK k : k = [counts EXCEPT !.stops = 1]
    OBVIOUS
  <2>2. k \in [card : Nat, stops : Nat, beside : Nat] /\ k.stops = 1
    BY <1>1, <2>1 DEF ViewTyped
  <2> QED
    BY <2>1, <2>2, BesideIs DEF View!Stop
<1>4. /\ tail' \in TaskRec /\ tail'.tail = TRUE /\ tail'.pc = run.pc /\ tail'.msg = run.msg
      /\ tail'.text = run.text /\ tail'.try = run.try /\ tail'.n = run.n
  BY <1>1, <1>2 DEF ViewTyped, TaskRec
<1>5. Sends({})
  BY <1>1, <1>2, SendsNone DEF ViewTyped
<1>6. TypedNow
  BY <1>1, <1>2, <1>3, <1>4, NoRunIs DEF TypedNow, ViewTyped
<1>7. \A p \in Live(run', tail') : p = tail' /\ tail'.pc = "stream"
  BY <1>2, NoRunIs DEF Live
<1>8. StreamsStay
  <2>1. ASSUME NEW p \in Live(run', tail')
        PROVE  \E r \in Live(run, tail) :
                 r.msg = p.msg /\ r.text = p.text /\ r.try = p.try /\ r.n = p.n
    <3>1. run \in Live(run, tail)
      BY <1>4, <1>7 DEF Live
    <3> QED
      BY <1>4, <1>7, <3>1
  <2> QED
    BY <1>7, <2>1 DEF StreamsStay, Alone
<1>9. Calm
  BY <1>1, <1>2, <1>5, <1>8 DEF Calm, SnapStays
<1>10. CardNow
  BY <1>3 DEF CardNow, CardFine
<1> QED
  BY <1>1, <1>6, <1>9, <1>10, CalmNext DEF ViewNow

LEMMA DropNext ==
  ASSUME PartsAssumption, ViewInv, View!Drop
  PROVE  ViewNow
<1>1. ViewTyped /\ StreamInv /\ SnapInv /\ ArrivalInv /\ CardInv
  BY DEF ViewInv
<1>2. /\ UNCHANGED <<here, page, resp, view, buf, shown, run, db, loose, snap, pipe, counts>>
      /\ tail # None /\ tail' = None
  BY DEF View!Drop, View!window
<1>3. Sends({})
  BY <1>1, <1>2, SendsNone DEF ViewTyped
<1>4. TypedNow
  BY <1>1, <1>2 DEF TypedNow, ViewTyped
<1>5. Live(run', tail') \subseteq Live(run, tail)
  BY <1>2 DEF Live
<1>6. Calm
  BY <1>1, <1>2, <1>3, <1>5, StreamsSub DEF Calm, SnapStays
<1>7. CardNow
  BY <1>1, <1>2 DEF CardInv, CardNow, CardFine
<1> QED
  BY <1>1, <1>4, <1>6, <1>7, CalmNext DEF ViewNow

LEMMA TellStoppedNext ==
  ASSUME PartsAssumption, ViewInv, View!TellStopped
  PROVE  ViewNow
<1>1. ViewTyped /\ StreamInv /\ SnapInv /\ ArrivalInv /\ CardInv
  BY DEF ViewInv
<1>2. /\ UNCHANGED <<here, page, resp, view, buf, shown, run, tail, db, loose, counts>>
      /\ snap' = View!FinishRun(snap)
  BY DEF View!TellStopped, View!window
<1>3. PICK S : S = {View!Event("run", None, FALSE)}
  OBVIOUS
<1>4. Sends(S) /\ \A e \in S : e.kind = "run"
  BY <1>1, <1>3, RunEvent, SendsOne DEF View!TellStopped, ViewTyped
<1>5. snap' \in SnapRec /\ SnapStays
  BY <1>1, <1>2, SnapOps DEF ViewTyped, SnapStays
<1>6. TypedNow
  BY <1>1, <1>2, <1>4, <1>5 DEF TypedNow, ViewTyped, Sends
<1>7. Calm
  BY <1>1, <1>2, <1>4, <1>5, StreamsSub DEF Calm, Notices
<1>8. CardNow
  BY <1>1, <1>2, <1>4, CardSame
<1> QED
  BY <1>1, <1>6, <1>7, <1>8, CalmNext DEF ViewNow

\* A run that gets its answer.
LEMMA AnswerIs ==
  ASSUME ViewTyped, NEW yes, View!Answer(yes), tail' = tail
  PROVE  /\ run' \in TaskRec /\ run'.tail = FALSE /\ ~Waits(run')
         /\ Live(run', tail') \subseteq Live(run, tail)
<1> PICK pc : pc = CASE run.pc = "waits" -> IF yes THEN "allowed" ELSE "denied"
                     [] OTHER -> IF yes THEN "granted" ELSE "end"
  OBVIOUS
<1>1. pc \in {"allowed", "denied", "granted", "end"} /\ pc \in View!Pcs
  BY DEF View!Pcs
<1>2. run' = [run EXCEPT !.pc = pc]
  BY DEF View!Answer
<1>3. run' \in TaskRec /\ run'.pc = pc /\ run'.tail = FALSE
  BY <1>1, <1>2, AtPc DEF ViewTyped
<1> QED
  BY <1>1, <1>3 DEF Waits, Live

LEMMA RespondNext ==
  ASSUME PartsAssumption, ViewInv, View!Respond
  PROVE  ViewNow
<1>1. ViewTyped /\ StreamInv /\ SnapInv /\ ArrivalInv /\ CardInv
  BY DEF ViewInv
<1>2. UNCHANGED <<here, page, resp, view, buf, tail, db, loose, snap, pipe, counts>>
  BY DEF View!Respond
<1>3. PICK c \in shown : \E yes \in BOOLEAN :
        /\ shown' = shown \ {c}
        /\ IF View!Waiting(c) THEN View!Answer(yes) ELSE UNCHANGED run
  BY DEF View!Respond
<1>4. Sends({})
  BY <1>1, <1>2, SendsNone DEF ViewTyped
<1>5. CASE View!Waiting(c)
  <2>1. /\ run' \in TaskRec /\ run'.tail = FALSE /\ ~Waits(run')
        /\ Live(run', tail') \subseteq Live(run, tail)
    BY <1>1, <1>2, <1>3, <1>5, AnswerIs
  <2>2. TypedNow
    BY <1>1, <1>2, <2>1 DEF TypedNow, ViewTyped
  <2>3. Calm
    BY <1>1, <1>2, <1>4, <2>1, StreamsSub DEF Calm, SnapStays
  <2>4. CardNow
    BY <1>1, <1>2, <1>4, <2>1, <2>2, CardFree
  <2> QED
    BY <1>1, <2>2, <2>3, <2>4, CalmNext DEF ViewNow
<1>6. CASE ~View!Waiting(c)
  <2>1. run' = run /\ shown' = shown \ {c}
    BY <1>3, <1>6
  <2>2. TypedNow
    BY <1>1, <1>2, <2>1 DEF TypedNow, ViewTyped
  <2>3. Calm
    BY <1>1, <1>2, <1>4, <2>1, StreamsSub DEF Calm, SnapStays
  <2>4. CardNow
    <3>1. CASE Waits(run)
      <4>1. run.card # c
        BY <1>6, <3>1 DEF View!Waiting, Waits
      <4> QED
        BY <1>1, <1>2, <2>1, <3>1, <4>1 DEF CardInv, CardNow, CardFine
    <3>2. CASE ~Waits(run)
      BY <1>1, <1>2, <1>4, <2>1, <2>2, <3>2, CardFree
    <3> QED
      BY <3>1, <3>2
  <2> QED
    BY <1>1, <2>2, <2>3, <2>4, CalmNext DEF ViewNow
<1> QED
  BY <1>5, <1>6

LEMMA ReleaseNext ==
  ASSUME PartsAssumption, ViewInv, View!Release
  PROVE  ViewNow
<1>1. ViewTyped /\ StreamInv /\ SnapInv /\ ArrivalInv /\ CardInv
  BY DEF ViewInv
<1>2. /\ UNCHANGED <<here, page, resp, view, buf, shown, tail, db, loose, snap, counts>>
      /\ Waits(run) /\ View!Answer(run.pc = "waits")
      /\ View!Emit(<<View!Event("resolved", None, run.card)>>)
  BY DEF View!Release, View!window, Waits
<1>3. PICK e : e = View!Event("resolved", None, run.card)
  OBVIOUS
<1>4. e \in EventRec /\ e.kind = "resolved" /\ e.data = run.card
  BY <1>1, <1>3, CardEvent DEF ViewTyped, TaskRec
<1>5. Sends({e})
  BY <1>1, <1>2, <1>3, <1>4, SendsOne DEF ViewTyped
<1>6. /\ run' \in TaskRec /\ run'.tail = FALSE /\ ~Waits(run')
      /\ Live(run', tail') \subseteq Live(run, tail)
  BY <1>1, <1>2, AnswerIs
<1>7. TypedNow
  BY <1>1, <1>2, <1>5, <1>6 DEF TypedNow, ViewTyped, Sends
<1>8. Calm
  BY <1>1, <1>2, <1>4, <1>5, <1>6, StreamsSub DEF Calm, Notices, SnapStays
<1>9. counts.stops = 0 => run.card = counts.card
  BY <1>1, <1>2 DEF CardInv, CardFine
<1>10. CardNow
  BY <1>1, <1>2, <1>4, <1>5, <1>6, <1>7, <1>9, CardFree
<1> QED
  BY <1>1, <1>7, <1>8, <1>10, CalmNext DEF ViewNow

LEMMA TimeOutNext ==
  ASSUME PartsAssumption, ViewInv, View!TimeOut
  PROVE  ViewNow
<1>1. ViewTyped /\ StreamInv /\ SnapInv /\ ArrivalInv /\ CardInv
  BY DEF ViewInv
<1>2. /\ UNCHANGED <<here, page, resp, view, buf, shown, tail, db, loose, snap, pipe, counts>>
      /\ View!Answer(FALSE)
  BY DEF View!TimeOut, View!window
<1>3. Sends({})
  BY <1>1, <1>2, SendsNone DEF ViewTyped
<1>4. /\ run' \in TaskRec /\ run'.tail = FALSE /\ ~Waits(run')
      /\ Live(run', tail') \subseteq Live(run, tail)
  BY <1>1, <1>2, AnswerIs
<1>5. TypedNow
  BY <1>1, <1>2, <1>4 DEF TypedNow, ViewTyped
<1>6. Calm
  BY <1>1, <1>2, <1>3, <1>4, StreamsSub DEF Calm, SnapStays
<1>7. CardNow
  BY <1>1, <1>2, <1>3, <1>4, <1>5, CardFree
<1> QED
  BY <1>1, <1>5, <1>6, <1>7, CalmNext DEF ViewNow

-----------------------------------------------------------------------------
(* The task, while it streams.                                              *)
\* What every step of a task leaves alone, and whom it moves.
LEMMA StreamTask ==
  ASSUME PartsAssumption, ViewInv, NEW r, View!Task(r), View!TaskOnly, NEW q \in TaskRec,
         q.tail = r.tail, View!Becomes(r, q)
  PROVE  /\ UNCHANGED <<here, page, resp, view, buf, shown>>
         /\ ViewTyped /\ StreamInv /\ SnapInv /\ ArrivalInv /\ CardInv
         /\ run' \in TaskRec /\ run'.tail = FALSE
         /\ tail' \in TaskRec \cup {None} /\ (tail' # None => tail'.tail = TRUE)
         /\ \A p \in Live(run', tail') : p = q \/ (p \in Live(run, tail) /\ p # r)
         /\ \A p \in Live(run, tail) : /\ p \in TaskRec /\ p.msg \in DOMAIN db /\ p.msg # None
                                       /\ db[p.msg] = << >> /\ ~Sent(pipe, {"final"}, p.msg)
         /\ r.pc = "stream" => /\ r \in Live(run, tail)
                               /\ \A p \in Live(run, tail) : p # r => p.msg # r.msg
<1>1. ViewTyped /\ StreamInv /\ SnapInv /\ ArrivalInv /\ CardInv
  BY DEF ViewInv
<1>2. UNCHANGED <<here, page, resp, view, buf, shown>>
  BY DEF View!TaskOnly, View!window
<1>3. \A p \in Live(run, tail) : /\ p \in TaskRec /\ p.msg \in DOMAIN db /\ p.msg # None
                                 /\ db[p.msg] = << >> /\ ~Sent(pipe, {"final"}, p.msg)
  BY <1>1, LiveMsg DEF StreamInv, StreamsFine, StreamFine
<1>4. \A p, o \in Live(run, tail) : p # o => p.msg # o.msg
  BY <1>1 DEF StreamInv, StreamsFine, Alone
<1>5. /\ run' \in TaskRec /\ run'.tail = FALSE
      /\ tail' \in TaskRec \cup {None} /\ (tail' # None => tail'.tail = TRUE)
      /\ \A p \in Live(run', tail') : p = q \/ (p \in Live(run, tail) /\ p # r)
      /\ r.pc = "stream" => r \in Live(run, tail)
  BY <1>1, BecomesIs
<1> QED
  BY <1>1, <1>2, <1>3, <1>4, <1>5

LEMMA StepEvent ==
  ASSUME NEW k \in {"step", "reset"}, NEW m \in Nat
  PROVE  /\ View!Event(k, m, None) \in EventRec
         /\ View!Event(k, m, None).kind = k /\ View!Event(k, m, None).msg = m
<1>1. None \in EventData /\ k \in Kinds /\ m \in Nat \cup {None}
  BY DEF EventData, Kinds
<1> QED
  BY <1>1 DEF View!Event, EventRec

LEMMA BeginStepNext ==
  ASSUME PartsAssumption, ViewInv, NEW r, View!Task(r), View!BeginStep(r)
  PROVE  ViewNow
<1>1. ViewTyped /\ r \in TaskRec /\ r.pc = "next" /\ Len(db) < MaxMsgs
  BY DEF ViewInv, View!Task, ViewTyped, View!BeginStep
<1>2. PICK m : /\ m = Len(db) + 1 /\ db' = Append(db, << >>)
               /\ snap' = View!TransitionToStep(snap, m)
               /\ View!Emit(<<View!Event("step", m, None)>>)
               /\ View!Becomes(r, [r EXCEPT !.pc = "stream", !.msg = m, !.try = 1,
                                            !.text = << >>, !.n = 0])
  BY DEF View!BeginStep
<1>3. /\ m \in Nat /\ db' \in Seq(Words \cup {None}) /\ Len(db') = m /\ m <= MaxMsgs
      /\ DOMAIN db' = DOMAIN db \cup {m} /\ m \notin DOMAIN db
      /\ db'[m] = << >> /\ \A i \in DOMAIN db : db'[i] = db[i]
  <2>1. db \in Seq(Words \cup {None}) /\ << >> \in Words \cup {None}
    BY <1>1, NoWords DEF ViewTyped
  <2>2. Len(db) \in Nat /\ DOMAIN db = 1 .. Len(db)
    BY <2>1, LenProperties
  <2>3. /\ Append(db, << >>) \in Seq(Words \cup {None})
        /\ Len(Append(db, << >>)) = Len(db) + 1
        /\ \A i \in 1 .. Len(db) : Append(db, << >>)[i] = db[i]
        /\ Append(db, << >>)[Len(db) + 1] = << >>
    BY <2>1, AppendProperties
  <2>4. DOMAIN db' = 1 .. m /\ m \in Nat /\ m <= MaxMsgs
    BY <1>1, <1>2, <2>2, <2>3, LenProperties, ViewIs
  <2> QED
    BY <1>2, <2>2, <2>3, <2>4
<1>4. PICK q : q = [r EXCEPT !.pc = "stream", !.msg = m, !.try = 1, !.text = << >>, !.n = 0]
  OBVIOUS
<1>5. q \in TaskRec /\ q.msg = m /\ q.pc = "stream" /\ q.tail = r.tail /\ View!Becomes(r, q)
  <2>1. "stream" \in View!Pcs
    BY DEF View!Pcs
  <2>2. q \in TaskRec /\ q.msg = m /\ q.pc = "stream" /\ q.tail = r.tail
    BY <1>1, <1>3, <1>4, <2>1, NoWords DEF TaskRec
  <2> QED
    BY <1>2, <1>4, <2>2
<1>6. View!TaskOnly /\ loose' = loose /\ counts' = counts
  BY DEF View!BeginStep
<1>7. /\ UNCHANGED <<here, page, resp, view, buf, shown>>
      /\ ViewTyped /\ StreamInv /\ SnapInv /\ ArrivalInv /\ CardInv
      /\ run' \in TaskRec /\ run'.tail = FALSE
      /\ tail' \in TaskRec \cup {None} /\ (tail' # None => tail'.tail = TRUE)
      /\ \A p \in Live(run', tail') : p = q \/ (p \in Live(run, tail) /\ p # r)
      /\ \A p \in Live(run, tail) : /\ p \in TaskRec /\ p.msg \in DOMAIN db /\ p.msg # None
                                    /\ db[p.msg] = << >> /\ ~Sent(pipe, {"final"}, p.msg)
  BY <1>5, <1>6, StreamTask
<1> PICK e : e = View!Event("step", m, None)
  OBVIOUS
<1>8. e.kind = "step" /\ Sends({e})
  <2>1. e \in EventRec /\ e.kind = "step"
    BY <1>3, StepEvent
  <2> QED
    BY <1>2, <1>7, <2>1, SendsOne DEF ViewTyped
<1>9. snap' \in SnapRec /\ snap'.text = << >> /\ snap'.msg = m
  <2>1. m \in Nat \cup {None}
    BY <1>3
  <2> QED
    BY <1>2, <1>7, <2>1, NoWords DEF ViewTyped, SnapRec, View!TransitionToStep
<1>10. TypedNow
  BY <1>3, <1>6, <1>7, <1>8, <1>9 DEF TypedNow, ViewTyped, Sends
<1>11. Alone(Live(run', tail'))
  BY <1>3, <1>5, <1>7 DEF Alone, StreamInv, StreamsFine
<1>12. StreamNow
  BY <1>3, <1>5, <1>7, <1>8, <1>11, StreamSteps DEF ArrivalInv
<1>13. Fills /\ Follow
  <2>1. Fills
    BY <1>3, <1>6 DEF Fills, Done
  <2>2. m # None
    BY <1>3, ViewIs
  <2>3. Follow
    BY <1>3, <1>5, <1>7, <2>2 DEF Follow, Grows
  <2> QED
    BY <2>1, <2>3
<1>14. SnapNow
  BY <1>3, <1>7, <1>9, <1>10, <1>13, SnapSteps
<1>15. None \notin DOMAIN db
  BY ViewIs, DbIs, <1>7 DEF ViewTyped
<1>16. ArrivalNow
  BY <1>3, <1>6, <1>7, <1>8, <1>15, ArrivalSteps DEF Adding
<1>17. CardNow
  BY <1>5, <1>6, <1>7, <1>8, <1>10, CardTask DEF Waits
<1> QED
  BY <1>10, <1>12, <1>14, <1>16, <1>17 DEF ViewNow

\* The row of a message is filled, or marked as failed, and its stream ends.
Fill(m, x) == db' = [db EXCEPT ![m] = x]
Filled(r, q, x, S) ==
  /\ View!Task(r) /\ r.pc = "stream" /\ View!TaskOnly
  /\ q \in TaskRec /\ q.tail = r.tail /\ q.pc # "stream" /\ ~Waits(q) /\ View!Becomes(r, q)
  /\ (x = None \/ x = r.text) /\ Fill(r.msg, x)
  /\ loose \subseteq loose' /\ \A n \in loose' \ loose : n = r.msg
  /\ snap' \in SnapRec /\ snap'.msg = snap.msg /\ (snap'.text = << >> \/ snap'.text = snap.text)
  /\ counts' \in [card : Nat, stops : Nat, beside : Nat]
  /\ counts'.card = counts.card /\ counts'.stops = counts.stops
  /\ Sends(S) /\ \A e \in S : e.kind = "final" /\ e.msg = r.msg /\ e.data = x
  /\ x = None \/ r.msg \in loose' \/ Sent(pipe', {"final"}, r.msg)

LEMMA RowFilled ==
  ASSUME PartsAssumption, ViewInv, NEW r, NEW q, NEW x, NEW S, Filled(r, q, x, S)
  PROVE  ViewNow
<1> USE DEF Filled
<1>1. /\ UNCHANGED <<here, page, resp, view, buf, shown>>
      /\ ViewTyped /\ StreamInv /\ SnapInv /\ ArrivalInv /\ CardInv
      /\ run' \in TaskRec /\ run'.tail = FALSE
      /\ tail' \in TaskRec \cup {None} /\ (tail' # None => tail'.tail = TRUE)
      /\ \A p \in Live(run, tail) : /\ p \in TaskRec /\ p.msg \in DOMAIN db /\ p.msg # None
                                    /\ db[p.msg] = << >> /\ ~Sent(pipe, {"final"}, p.msg)
      /\ r \in Live(run, tail)
      /\ \A p \in Live(run, tail) : p # r => p.msg # r.msg
  BY StreamTask
<1>2. StreamsStay /\ Live(run', tail') \subseteq Live(run, tail) \ {r}
  BY <1>1, StreamsEnd
<1> PICK m : m = r.msg
  OBVIOUS
<1>3. /\ m \in DOMAIN db /\ db[m] = << >> /\ m # None
      /\ x \in Words \cup {None}
  BY <1>1 DEF TaskRec
<1>4. /\ db' \in Seq(Words \cup {None}) /\ Len(db') = Len(db) /\ DOMAIN db' = DOMAIN db
      /\ db'[m] = x /\ \A i \in DOMAIN db : i # m => db'[i] = db[i]
  <2>1. db \in Seq(Words \cup {None}) /\ db' = [db EXCEPT ![m] = x]
    BY <1>1 DEF ViewTyped, Fill
  <2>2. DOMAIN db = 1 .. Len(db)
    BY <2>1, DbIs
  <2> QED
    BY <1>3, <2>1, <2>2, ExceptSeq
<1>5. TypedNow
  BY <1>1, <1>4 DEF TypedNow, ViewTyped, Sends
<1>6. \A p \in Live(run', tail') : p \in Live(run, tail) /\ p.msg # m
  BY <1>1, <1>2
<1>7. StreamNow
  BY <1>1, <1>2, <1>4, <1>6, StreamSteps DEF ArrivalInv, StreamsStay
<1>8. Fills /\ Follow
  <2>1. \A i \in DOMAIN db : Done(db', i) /\ i # m => Done(db, i) /\ db'[i] = db[i]
    BY <1>4 DEF Done
  <2>2. Done(db', m) => r.text = db'[m]
    BY <1>4 DEF Done
  <2>3. Fills
    BY <1>1, <1>4, <2>1, <2>2 DEF Fills
  <2>4. Follow
    BY <1>1, <1>6 DEF Follow, Grows
  <2> QED
    BY <2>3, <2>4
<1>9. SnapNow
  <2>1. snap.msg \in DOMAIN db' \cup {None}
    BY <1>1, <1>4 DEF SnapInv, SnapFine
  <2>2. \A p \in Live(run', tail') : Later(p, p)
    BY <1>1, <1>6 DEF Later, TaskRec
  <2>3. \A p \in Live(run', tail') : \E o \in Live(run, tail) : o.msg = p.msg /\ Later(o, p)
    BY <1>6, <2>2
  <2> QED
    BY <1>1, <1>5, <1>8, <2>1, <2>3, SnapSteps
<1>10. ArrivalNow
  <2>1. x # None => m \in loose' \/ Sent(pipe', {"final"}, m)
    OBVIOUS
  <2>2. Done(db', m) => m \in loose' \/ Sent(pipe', {"final"}, m)
    BY <1>4, <2>1 DEF Done
  <2>3. \A e \in S : e.msg = m /\ e.data = db'[m] /\ e.kind \notin Adding
    BY <1>4 DEF Adding
  <2>4. \A i \in DOMAIN db : i \in DOMAIN db' /\ (i # m => db'[i] = db[i])
    BY <1>4
  <2>5. ~Sent(pipe, {"final"}, m)
    BY <1>1
  <2> QED
    BY <1>1, <1>3, <1>4, <2>2, <2>3, <2>4, <2>5, ArrivalSteps
<1>11. CardNow
  BY <1>1, <1>5, CardTask
<1> QED
  BY <1>5, <1>7, <1>9, <1>10, <1>11 DEF ViewNow

LEMMA FailsNext ==
  ASSUME PartsAssumption, ViewInv, NEW r, View!Task(r), View!Fails(r)
  PROVE  ViewNow
<1>1. /\ ViewTyped /\ StreamInv /\ r \in TaskRec /\ r.pc = "stream" /\ View!TaskOnly
      /\ snap' = snap /\ pipe' = pipe /\ loose' = loose /\ View!Beside(counts)
  BY DEF ViewInv, View!Task, ViewTyped, View!Fails
<1>2. PICK q : q = [r EXCEPT !.pc = "end"]
  OBVIOUS
<1>3. q \in TaskRec /\ q.pc = "end" /\ q.tail = r.tail /\ View!Becomes(r, q)
  <2>1. "end" \in View!Pcs
    BY DEF View!Pcs
  <2> QED
    BY <1>1, <1>2, <2>1, AtPc DEF View!Fails
<1>4. Fill(r.msg, None)
  <2>1. r \in Live(run, tail)
    BY <1>1 DEF View!Task, Live
  <2>2. db[r.msg] = << >>
    BY <1>1, <2>1, LiveMsg
  <2> QED
    BY <2>2 DEF View!Fails, Fill
<1>5. Sends({})
  BY <1>1, SendsNone DEF ViewTyped
<1>6. /\ counts' \in [card : Nat, stops : Nat, beside : Nat]
      /\ counts'.card = counts.card /\ counts'.stops = counts.stops
  BY <1>1, BesideIs DEF ViewTyped
<1>7. /\ ~Waits(q) /\ snap' \in SnapRec /\ snap'.msg = snap.msg
      /\ (snap'.text = << >> \/ snap'.text = snap.text)
      /\ counts' \in [card : Nat, stops : Nat, beside : Nat]
      /\ counts'.card = counts.card /\ counts'.stops = counts.stops
  BY <1>1, <1>3, <1>6 DEF Waits, ViewTyped
<1>8. Filled(r, q, None, {})
  BY <1>1, <1>3, <1>4, <1>5, <1>7 DEF Filled
<1> QED
  BY <1>8, RowFilled

LEMMA FinalIs ==
  ASSUME PartsAssumption, ViewInv, NEW r \in TaskRec, View!Task(r), r.pc = "stream", View!Final(r)
  PROVE  \E S : /\ Sends(S) /\ Sent(pipe', {"final"}, r.msg)
                /\ \A e \in S : e.kind = "final" /\ e.msg = r.msg /\ e.data = r.text
<1>1. r.msg \in Nat \cup {None} /\ r.text \in EventData /\ "final" \in Kinds
  BY DEF TaskRec, EventData, Kinds
<1>2. PICK e : e = View!Event("final", r.msg, r.text)
  OBVIOUS
<1>3. e \in EventRec /\ e.kind = "final" /\ e.msg = r.msg /\ e.data = r.text
  BY <1>1, <1>2 DEF View!Event, EventRec
<1>4. Sends({e}) /\ \E i \in DOMAIN pipe' : i \notin DOMAIN pipe /\ pipe'[i] = e
  BY <1>2, <1>3, SendsOne DEF View!Final, ViewInv, ViewTyped
<1>5. Sent(pipe', {"final"}, r.msg)
  BY <1>3, <1>4 DEF Sent
<1> QED
  BY <1>3, <1>4, <1>5

LEMMA DeliverNext ==
  ASSUME PartsAssumption, ViewInv, NEW r, View!Task(r), View!Deliver(r)
  PROVE  ViewNow
<1>1. /\ ViewTyped /\ r \in TaskRec /\ r.pc = "stream" /\ View!TaskOnly
      /\ loose' = loose /\ counts' = counts
      /\ View!Final(r) /\ Fill(r.msg, r.text)
  BY DEF ViewInv, View!Task, ViewTyped, View!Deliver, View!Final, Fill
<1>2. PICK q : q = [r EXCEPT !.pc = "end"]
  OBVIOUS
<1>3. q \in TaskRec /\ q.pc = "end" /\ q.tail = r.tail /\ View!Becomes(r, q)
  <2>1. "end" \in View!Pcs
    BY DEF View!Pcs
  <2> QED
    BY <1>1, <1>2, <2>1, AtPc DEF View!Deliver
<1>4. PICK S : /\ Sends(S) /\ Sent(pipe', {"final"}, r.msg)
               /\ \A e \in S : e.kind = "final" /\ e.msg = r.msg /\ e.data = r.text
  BY <1>1, FinalIs
<1>5. snap' \in SnapRec /\ snap'.text = << >> /\ snap'.msg = snap.msg
  <2>1. snap' = View!FinishStep(snap)
    BY DEF View!Deliver
  <2> QED
    BY <1>1, <2>1, NoWords DEF ViewTyped, SnapRec, View!FinishStep
<1>6. /\ ~Waits(q) /\ snap' \in SnapRec /\ snap'.msg = snap.msg
      /\ (snap'.text = << >> \/ snap'.text = snap.text)
      /\ counts' \in [card : Nat, stops : Nat, beside : Nat]
      /\ counts'.card = counts.card /\ counts'.stops = counts.stops
  BY <1>1, <1>3, <1>5 DEF Waits, ViewTyped
<1>7. Filled(r, q, r.text, S)
  BY <1>1, <1>3, <1>4, <1>6 DEF Filled
<1> QED
  BY <1>7, RowFilled

LEMMA SopFailsNext ==
  ASSUME PartsAssumption, ViewInv, NEW r, View!Task(r), View!SopFails(r)
  PROVE  ViewNow
<1>1. /\ ViewTyped /\ r \in TaskRec /\ r.pc = "stream" /\ View!TaskOnly
      /\ snap' = snap /\ pipe' = pipe /\ loose' = loose \cup {r.msg} /\ counts' = counts
      /\ Fill(r.msg, r.text)
  BY DEF ViewInv, View!Task, ViewTyped, View!SopFails, Fill
<1>2. PICK pc \in {"next", "end"} : View!Becomes(r, [r EXCEPT !.pc = pc])
  BY DEF View!SopFails
<1>3. PICK q : q = [r EXCEPT !.pc = pc]
  OBVIOUS
<1>4. q \in TaskRec /\ q.pc = pc /\ q.tail = r.tail /\ View!Becomes(r, q)
  <2>1. pc \in View!Pcs
    BY DEF View!Pcs
  <2> QED
    BY <1>1, <1>2, <1>3, <2>1, AtPc
<1>5. Sends({})
  BY <1>1, SendsNone DEF ViewTyped
<1>6. /\ q.pc # "stream" /\ ~Waits(q) /\ snap' \in SnapRec /\ snap'.msg = snap.msg
      /\ (snap'.text = << >> \/ snap'.text = snap.text)
      /\ counts' \in [card : Nat, stops : Nat, beside : Nat]
      /\ counts'.card = counts.card /\ counts'.stops = counts.stops
  BY <1>1, <1>4 DEF Waits, ViewTyped
<1>7. Filled(r, q, r.text, {})
  BY <1>1, <1>4, <1>5, <1>6 DEF Filled
<1> QED
  BY <1>7, RowFilled

LEMMA CallToolNext ==
  ASSUME PartsAssumption, ViewInv, NEW r, View!Task(r), View!CallTool(r)
  PROVE  ViewNow
<1>1. /\ ViewTyped /\ r \in TaskRec /\ r.pc = "stream" /\ View!TaskOnly
      /\ snap' = snap /\ loose' = loose /\ counts' = counts
      /\ View!Final(r) /\ Fill(r.msg, r.text)
  BY DEF ViewInv, View!Task, ViewTyped, View!CallTool, View!Final, Fill
<1>2. PICK q : q = [r EXCEPT !.pc = "call"]
  OBVIOUS
<1>3. q \in TaskRec /\ q.pc = "call" /\ q.tail = r.tail /\ View!Becomes(r, q)
  <2>1. "call" \in View!Pcs
    BY DEF View!Pcs
  <2> QED
    BY <1>1, <1>2, <2>1, AtPc DEF View!CallTool
<1>4. PICK S : /\ Sends(S) /\ Sent(pipe', {"final"}, r.msg)
               /\ \A e \in S : e.kind = "final" /\ e.msg = r.msg /\ e.data = r.text
  BY <1>1, FinalIs
<1>5. /\ ~Waits(q) /\ snap' \in SnapRec /\ snap'.msg = snap.msg
      /\ (snap'.text = << >> \/ snap'.text = snap.text)
      /\ counts' \in [card : Nat, stops : Nat, beside : Nat]
      /\ counts'.card = counts.card /\ counts'.stops = counts.stops
  BY <1>1, <1>3 DEF Waits, ViewTyped
<1>6. Filled(r, q, r.text, S)
  BY <1>1, <1>3, <1>4, <1>5 DEF Filled
<1> QED
  BY <1>6, RowFilled

LEMMA RetryNext ==
  ASSUME PartsAssumption, ViewInv, NEW r, View!Task(r), View!Retry(r)
  PROVE  ViewNow
<1>1. /\ r \in TaskRec /\ r.pc = "stream" /\ View!TaskOnly
      /\ snap' = snap /\ db' = db /\ loose' = loose \cup {r.msg} /\ View!Beside(counts)
      /\ View!Emit(<<View!Event("reset", r.msg, None)>>)
  BY DEF ViewInv, View!Task, ViewTyped, View!Retry
<1> PICK k \in Nat : k = r.try + 1
  BY <1>1 DEF TaskRec
<1>2. PICK q : q = [r EXCEPT !.try = k, !.text = << >>, !.n = 0]
  OBVIOUS
<1>3. /\ q \in TaskRec /\ q.pc = "stream" /\ q.tail = r.tail /\ q.msg = r.msg
      /\ q.try = r.try + 1 /\ View!Becomes(r, q)
  <2>1. /\ q \in TaskRec /\ q.pc = "stream" /\ q.tail = r.tail /\ q.msg = r.msg
        /\ q.try = r.try + 1
    BY <1>1, <1>2, NoWords DEF TaskRec
  <2>2. View!Becomes(r, q)
    BY <1>2 DEF View!Retry
  <2> QED
    BY <2>1, <2>2
<1>4. /\ UNCHANGED <<here, page, resp, view, buf, shown>>
      /\ ViewTyped /\ StreamInv /\ SnapInv /\ ArrivalInv /\ CardInv
      /\ run' \in TaskRec /\ run'.tail = FALSE
      /\ tail' \in TaskRec \cup {None} /\ (tail' # None => tail'.tail = TRUE)
      /\ \A p \in Live(run', tail') : p = q \/ (p \in Live(run, tail) /\ p # r)
      /\ \A p \in Live(run, tail) : /\ p \in TaskRec /\ p.msg \in DOMAIN db /\ p.msg # None
                                    /\ db[p.msg] = << >> /\ ~Sent(pipe, {"final"}, p.msg)
      /\ r \in Live(run, tail)
      /\ \A p \in Live(run, tail) : p # r => p.msg # r.msg
  BY <1>1, <1>3, StreamTask
<1> PICK m : m = r.msg
  OBVIOUS
<1>5. m \in Nat /\ m \in DOMAIN db /\ db[m] = << >> /\ m # None
  BY <1>4, LiveMsg
<1> PICK e : e = View!Event("reset", m, None)
  OBVIOUS
<1>6. e.kind = "reset" /\ e.msg = m /\ Sends({e})
  <2>1. e \in EventRec /\ e.kind = "reset" /\ e.msg = m
    BY <1>5, StepEvent
  <2> QED
    BY <1>1, <1>4, <2>1, SendsOne DEF ViewTyped
<1>7. /\ counts' \in [card : Nat, stops : Nat, beside : Nat]
      /\ counts'.card = counts.card /\ counts'.stops = counts.stops
  BY <1>1, <1>4, BesideIs DEF ViewTyped
<1>8. TypedNow
  BY <1>1, <1>4, <1>6, <1>7 DEF TypedNow, ViewTyped, Sends
<1>9. \A p \in Live(run', tail') : \E o \in Live(run, tail) : o.msg = p.msg /\ Later(o, p)
  <2> TAKE p \in Live(run', tail')
  <2>1. CASE p = q
    <3>1. r.try \in Nat
      BY <1>1 DEF TaskRec
    <3>2. Later(r, q)
      BY <1>3, <3>1 DEF Later
    <3> QED
      BY <1>3, <1>4, <2>1, <3>2
  <2>2. CASE p # q
    <3>1. p \in Live(run, tail)
      BY <1>4, <2>2
    <3>2. Later(p, p)
      BY <1>4, <3>1 DEF Later, TaskRec
    <3> QED
      BY <3>1, <3>2
  <2> QED
    BY <2>1, <2>2
<1>10. Alone(Live(run', tail'))
  BY <1>3, <1>4 DEF Alone, StreamInv, StreamsFine
<1>11. StreamNow
  <2>1. \A p \in Live(run', tail') : p.msg \in DOMAIN db' /\ db'[p.msg] = << >>
    BY <1>1, <1>4, <1>9
  <2> QED
    BY <1>4, <1>6, <1>9, <1>10, <2>1, StreamSteps DEF ArrivalInv
<1>12. Fills /\ Follow
  <2>1. Fills
    BY <1>1 DEF Fills
  <2>2. Follow
    BY <1>1, <1>3, <1>4 DEF Follow, Grows
  <2> QED
    BY <2>1, <2>2
<1>13. SnapNow
  BY <1>1, <1>4, <1>8, <1>9, <1>12, SnapSteps
<1>14. ArrivalNow
  <2>1. ~Done(db', m)
    BY <1>1, <1>5 DEF Done
  <2>2. \A f \in {e} : f.kind # "final" /\ f.msg = m
    BY <1>6
  <2>3. ~Sent(pipe, {"final"}, m)
    BY <1>4
  <2>4. loose \subseteq loose' /\ db' \in Seq(Words \cup {None})
    BY <1>1, <1>4 DEF ViewTyped
  <2> QED
    BY <1>1, <1>4, <1>5, <1>6, <2>1, <2>2, <2>3, <2>4, ArrivalSteps
<1>15. CardNow
  <2>1. ~Waits(q)
    BY <1>3 DEF Waits
  <2> QED
    BY <1>3, <1>4, <1>6, <1>7, <1>8, <2>1, CardTask
<1> QED
  BY <1>8, <1>11, <1>13, <1>14, <1>15 DEF ViewNow

-----------------------------------------------------------------------------
(* A piece of text.                                                          *)
LEMMA PieceIs ==
  ASSUME NEW a \in Nat, NEW b \in Nat
  PROVE  <<a, b>> \in Piece /\ <<a, b>>[1] = a /\ <<a, b>>[2] = b
BY DEF Piece

LEMMA PiecesAre ==
  ASSUME NEW t \in Words
  PROVE  /\ Len(t) \in Nat /\ DOMAIN t = 1 .. Len(t)
         /\ \A i \in DOMAIN t : t[i][1] \in Nat /\ t[i][2] \in Nat
<1>1. Len(t) \in Nat /\ DOMAIN t = 1 .. Len(t) /\ \A i \in DOMAIN t : t[i] \in Piece
  BY DbIs DEF Words
<1> QED
  BY <1>1 DEF Piece

\* A text with a piece behind it.
LEMMA PieceAdded ==
  ASSUME NEW t \in Words, NEW d \in Piece, NEW u, u = Append(t, d)
  PROVE  /\ u \in Words /\ Len(u) = Len(t) + 1 /\ DOMAIN t = 1 .. Len(t)
         /\ DOMAIN u = 1 .. (Len(t) + 1)
         /\ \A i \in DOMAIN t : u[i] = t[i]
         /\ u[Len(t) + 1] = d
<1>1. /\ u \in Words /\ Len(u) = Len(t) + 1
      /\ \A i \in 1 .. Len(t) : u[i] = t[i]
      /\ u[Len(t) + 1] = d
  BY AppendProperties DEF Words
<1>2. DOMAIN t = 1 .. Len(t) /\ DOMAIN u = 1 .. Len(u)
  BY <1>1, PiecesAre
<1> QED
  BY <1>1, <1>2

\* Behind pieces that came before it in the stream, it is in order.
LEMMA OrderAdded ==
  ASSUME NEW t \in Words, NEW d \in Piece, NEW u, u = Append(t, d), NEW r \in TaskRec,
         View!Ordered(t), UpTo(t, r), NEW q \in TaskRec, q.try = r.try, q.n = r.n + 1,
         d[1] = r.try, d[2] = r.n + 1
  PROVE  View!Ordered(u) /\ UpTo(u, q)
<1> PICK n \in Nat : n = Len(t)
  BY PiecesAre
<1>1. /\ DOMAIN t = 1 .. n /\ DOMAIN u = 1 .. (n + 1)
      /\ \A i \in 1 .. n : u[i] = t[i]
      /\ u[n + 1] = d
  BY PieceAdded
<1>2. \A i \in 1 .. n : t[i][1] \in Nat /\ t[i][2] \in Nat
  BY <1>1, PiecesAre
<1>3. r.try \in Nat /\ r.n \in Nat
  BY DEF TaskRec
<1>4. \A i \in 1 .. n : u[i][1] < r.try \/ (u[i][1] = r.try /\ u[i][2] <= r.n)
  BY <1>1 DEF UpTo
<1>5. UpTo(u, q)
  <2> SUFFICES ASSUME NEW i \in 1 .. (n + 1)
               PROVE  u[i][1] < q.try \/ (u[i][1] = q.try /\ u[i][2] <= q.n)
    BY <1>1 DEF UpTo
  <2>1. CASE i = n + 1
    BY <1>1, <1>3, <2>1
  <2>2. CASE i # n + 1
    <3>1. i \in 1 .. n
      BY <2>2
    <3> QED
      BY <1>1, <1>2, <1>3, <1>4, <3>1
  <2> QED
    BY <2>1, <2>2
<1>6. View!Ordered(u)
  <2> SUFFICES ASSUME NEW i \in 1 .. (n + 1), NEW j \in 1 .. (n + 1), i < j
               PROVE  u[i][1] < u[j][1] \/ (u[i][1] = u[j][1] /\ u[i][2] < u[j][2])
    BY <1>1 DEF View!Ordered
  <2>1. i \in 1 .. n
    OBVIOUS
  <2>2. CASE j = n + 1
    BY <1>1, <1>2, <1>3, <1>4, <2>1, <2>2
  <2>3. CASE j # n + 1
    <3>1. j \in 1 .. n
      BY <2>3
    <3> QED
      BY <1>1, <2>1, <3>1 DEF View!Ordered
  <2> QED
    BY <2>2, <2>3
<1> QED
  BY <1>5, <1>6

LEMMA ShortAdded ==
  ASSUME NEW t \in Words, NEW u \in Words, NEW d \in Piece, Short(t, u)
  PROVE  Short(Append(t, d), Append(u, d))
<1>1. Len(t) \in Nat /\ Len(u) \in Nat
  BY PiecesAre
<1>2. Len(Append(t, d)) = Len(t) + 1 /\ Len(Append(u, d)) = Len(u) + 1
  BY PieceAdded
<1> QED
  BY <1>1, <1>2 DEF Short

LEMMA OnePiece ==
  ASSUME NEW d \in Piece
  PROVE  << >> \in Words /\ <<d>> = Append(<< >>, d) /\ View!Ordered(<< >>)
         /\ \A r : UpTo(<< >>, r)
BY NoWords DEF View!Ordered, UpTo

LEMMA ShortEmpty ==
  ASSUME NEW u \in Words
  PROVE  Short(<< >>, u)
<1>1. Len(u) \in Nat /\ Len(<< >>) = 0 /\ (Len(u) = 0 => u = << >>)
  BY EmptySeq, LenProperties DEF Words
<1> QED
  BY <1>1 DEF Short

LEMMA DeltaNext ==
  ASSUME PartsAssumption, ViewInv, NEW r, View!Task(r), View!Delta(r)
  PROVE  ViewNow
<1>1. /\ r \in TaskRec /\ r.pc = "stream" /\ View!TaskOnly
      /\ db' = db /\ loose' = loose /\ counts' = counts
  BY DEF ViewInv, View!Task, ViewTyped, View!Delta
<1>2. PICK d : /\ d = <<r.try, r.n + 1>>
               /\ snap' = View!AppendContentDelta(snap, r.msg, d)
               /\ View!Emit(<<View!Event("delta", r.msg, d)>>)
               /\ View!Becomes(r, [r EXCEPT !.n = @ + 1, !.text = Append(@, d)])
  BY DEF View!Delta
<1>3. d \in Piece /\ d[1] = r.try /\ d[2] = r.n + 1 /\ r.text \in Words
  BY <1>1, <1>2, PieceIs DEF TaskRec
<1> PICK k \in Nat : k = r.n + 1
  BY <1>1 DEF TaskRec
<1> PICK w : w = Append(r.text, d)
  OBVIOUS
<1>4. PICK q : q = [r EXCEPT !.n = k, !.text = w]
  OBVIOUS
<1>5. /\ q \in TaskRec /\ q.pc = "stream" /\ q.tail = r.tail /\ q.msg = r.msg
      /\ q.try = r.try /\ q.n = r.n + 1 /\ q.text = Append(r.text, d) /\ View!Becomes(r, q)
  <2>1. w \in Words
    BY <1>3, PieceAdded
  <2>2. /\ q \in TaskRec /\ q.pc = "stream" /\ q.tail = r.tail /\ q.msg = r.msg
        /\ q.try = r.try /\ q.n = r.n + 1 /\ q.text = Append(r.text, d)
    BY <1>1, <1>4, <2>1 DEF TaskRec
  <2>3. View!Becomes(r, q)
    BY <1>2, <1>4
  <2> QED
    BY <2>2, <2>3
<1>6. /\ UNCHANGED <<here, page, resp, view, buf, shown>>
      /\ ViewTyped /\ StreamInv /\ SnapInv /\ ArrivalInv /\ CardInv
      /\ run' \in TaskRec /\ run'.tail = FALSE
      /\ tail' \in TaskRec \cup {None} /\ (tail' # None => tail'.tail = TRUE)
      /\ \A p \in Live(run', tail') : p = q \/ (p \in Live(run, tail) /\ p # r)
      /\ \A p \in Live(run, tail) : /\ p \in TaskRec /\ p.msg \in DOMAIN db /\ p.msg # None
                                    /\ db[p.msg] = << >> /\ ~Sent(pipe, {"final"}, p.msg)
      /\ r \in Live(run, tail)
      /\ \A p \in Live(run, tail) : p # r => p.msg # r.msg
  BY <1>1, <1>5, StreamTask
<1> PICK m : m = r.msg
  OBVIOUS
<1>7. m \in Nat /\ m \in DOMAIN db /\ db[m] = << >> /\ m # None
  BY <1>6, LiveMsg
<1> PICK e : e = View!Event("delta", m, d)
  OBVIOUS
<1>8. e.kind = "delta" /\ e.msg = m /\ Sends({e})
  <2>1. m \in Nat \cup {None} /\ d \in EventData /\ "delta" \in Kinds
    BY <1>3, <1>7 DEF EventData, Kinds
  <2>2. e \in EventRec /\ e.kind = "delta" /\ e.msg = m
    BY <2>1 DEF View!Event, EventRec
  <2> QED
    BY <1>2, <1>6, <2>2, SendsOne DEF ViewTyped
<1>9. PICK t \in Words :
        /\ snap' \in SnapRec /\ snap'.msg = m /\ snap'.text = Append(t, d)
        /\ t = IF snap.msg = m THEN snap.text ELSE << >>
  <2>1. snap \in SnapRec /\ snap.text \in Words /\ m \in Nat \cup {None}
    BY <1>6, <1>7 DEF ViewTyped, SnapRec
  <2> PICK t : t = IF snap.msg = m THEN snap.text ELSE << >>
    OBVIOUS
  <2>2. t \in Words /\ Append(t, d) \in Words
    BY <1>3, <2>1, NoWords, PieceAdded
  <2> PICK x : x = IF snap.msg = m THEN Append(snap.text, d) ELSE <<d>>
    OBVIOUS
  <2>3. x = Append(t, d)
    BY <1>3, OnePiece
  <2>4. snap' = [snap EXCEPT !.msg = m, !.text = x]
    BY <1>2 DEF View!AppendContentDelta
  <2>5. snap' \in SnapRec /\ snap'.msg = m /\ snap'.text = x
    BY <2>1, <2>2, <2>3, <2>4 DEF SnapRec
  <2> QED
    BY <2>2, <2>3, <2>5
<1>10. TypedNow
  BY <1>1, <1>6, <1>8, <1>9 DEF TypedNow, ViewTyped, Sends
<1>11. Alone(Live(run', tail'))
  BY <1>5, <1>6 DEF Alone, StreamInv, StreamsFine
<1>12. StreamNow
  <2>1. \A p \in Live(run', tail') :
          p.msg \in DOMAIN db' /\ db'[p.msg] = << >> /\ \E o \in Live(run, tail) : o.msg = p.msg
    BY <1>1, <1>5, <1>6
  <2> QED
    BY <1>6, <1>8, <1>11, <2>1, StreamSteps DEF ArrivalInv
<1>13. Fills /\ Follow
  <2>1. Fills
    BY <1>1 DEF Fills
  <2>2. Grows(r, q)
    <3>1. Len(q.text) = Len(r.text) + 1 /\ Len(r.text) \in Nat
      BY <1>3, <1>5, PieceAdded, PiecesAre
    <3> QED
      BY <3>1 DEF Grows
  <2>3. \A p \in Live(run, tail) : Grows(p, p)
    BY DEF Grows
  <2>4. Follow
    BY <1>1, <1>5, <1>6, <2>2, <2>3 DEF Follow
  <2> QED
    BY <2>1, <2>4
<1>14. SnapNow
  <2>1. resp'.at = "read" => SnapFine(resp'.what, Live(run', tail'), db', loose')
    BY <1>6, <1>10, <1>13, SnapKept DEF SnapInv, ViewTyped
  <2>2. View!Ordered(t) /\ UpTo(t, r)
    BY <1>3, <1>6, <1>9, OnePiece DEF SnapInv, StepFine
  <2>3. View!Ordered(snap'.text) /\ UpTo(snap'.text, q)
    BY <1>1, <1>3, <1>5, <1>9, <2>2, OrderAdded
  <2>4. StepFine(snap', Live(run', tail'))
    BY <1>6, <1>9, <2>3 DEF StepFine
  <2>5. m \notin loose => Short(t, r.text)
    BY <1>3, <1>6, <1>9, ShortEmpty DEF SnapInv, SnapFine
  <2>6. m \notin loose' => Short(snap'.text, q.text)
    BY <1>1, <1>3, <1>5, <1>9, <2>5, ShortAdded
  <2>7. ~Done(db', m)
    BY <1>1, <1>7 DEF Done
  <2>8. SnapFine(snap', Live(run', tail'), db', loose')
    BY <1>1, <1>6, <1>7, <1>9, <2>6, <2>7 DEF SnapFine
  <2> QED
    BY <2>1, <2>4, <2>8 DEF SnapNow
<1>15. ArrivalNow
  <2>1. ~Done(db', m)
    BY <1>1, <1>7 DEF Done
  <2>2. \A f \in {e} : f.kind # "final" /\ f.msg = m
    BY <1>8
  <2>3. ~Sent(pipe, {"final"}, m)
    BY <1>6
  <2>4. loose \subseteq loose' /\ db' \in Seq(Words \cup {None})
    BY <1>1, <1>6 DEF ViewTyped
  <2> QED
    BY <1>1, <1>6, <1>7, <1>8, <2>1, <2>2, <2>3, <2>4, ArrivalSteps
<1>16. CardNow
  <2>1. ~Waits(q)
    BY <1>5 DEF Waits
  <2> QED
    BY <1>1, <1>5, <1>6, <1>8, <1>10, <2>1, CardTask
<1> QED
  BY <1>10, <1>12, <1>14, <1>15, <1>16 DEF ViewNow

LEMMA TaskNext ==
  ASSUME PartsAssumption, ViewInv, NEW r, View!TaskStep(r)
  PROVE  ViewNow
<1>1. View!Task(r)
  BY DEF View!TaskStep
<1>2. CASE View!BeginStep(r)
  BY <1>1, <1>2, BeginStepNext
<1>3. CASE View!Delta(r)
  BY <1>1, <1>3, DeltaNext
<1>4. CASE View!Retry(r)
  BY <1>1, <1>4, RetryNext
<1>5. CASE View!Fails(r)
  BY <1>1, <1>5, FailsNext
<1>6. CASE View!Deliver(r)
  BY <1>1, <1>6, DeliverNext
<1>7. CASE View!CallTool(r)
  BY <1>1, <1>7, CallToolNext
<1>8. CASE View!Ask(r)
  BY <1>1, <1>8, AskNext
<1>9. CASE View!Execute(r)
  BY <1>1, <1>9, ExecuteNext
<1>10. CASE View!Finish(r)
  BY <1>1, <1>10, FinishNext
<1>11. CASE View!AskSteps(r)
  BY <1>1, <1>11, AskStepsNext
<1>12. CASE View!Granted(r)
  BY <1>1, <1>12, GrantedNext
<1>13. CASE View!End(r)
  BY <1>1, <1>13, EndNext
<1>14. CASE View!SopFails(r)
  BY <1>1, <1>14, SopFailsNext
<1> QED
  BY <1>2, <1>3, <1>4, <1>5, <1>6, <1>7, <1>8, <1>9, <1>10, <1>11, <1>12, <1>13, <1>14
  DEF View!TaskStep

-----------------------------------------------------------------------------
(* The window. It takes at most the first of the events.                     *)
Takes(k) ==
  /\ pipe' \in Seq(EventRec) /\ k \in {0, 1}
  /\ \A i \in DOMAIN pipe' : i + k \in DOMAIN pipe /\ pipe'[i] = pipe[i + k]
  /\ \A i \in DOMAIN pipe : i > k => i - k \in DOMAIN pipe' /\ pipe'[i - k] = pipe[i]

LEMMA TakesNone ==
  ASSUME ViewInv, pipe' = pipe
  PROVE  Takes(0)
<1>1. pipe \in Seq(EventRec)
  BY DEF ViewInv, ViewTyped
<1>2. Len(pipe) \in Nat /\ DOMAIN pipe = 1 .. Len(pipe)
  BY <1>1, LenProperties
<1>3. \A i \in 1 .. Len(pipe) : i + 0 = i /\ i - 0 = i
  BY <1>2
<1> QED
  BY <1>1, <1>2, <1>3 DEF Takes

LEMMA TakesOne ==
  ASSUME ViewInv, NEW kind, View!Next1(kind)
  PROVE  /\ Takes(1) /\ 1 \in DOMAIN pipe /\ pipe[1] = View!E
         /\ View!E \in EventRec /\ View!E.kind = kind
<1>1. pipe \in Seq(EventRec) /\ pipe # << >> /\ pipe' = Tail(pipe) /\ View!E.kind = kind
  BY DEF ViewInv, ViewTyped, View!Next1, View!E
<1>2. /\ View!E \in EventRec /\ Tail(pipe) \in Seq(EventRec) /\ View!E = pipe[1]
      /\ Len(pipe) \in Nat /\ Len(Tail(pipe)) = Len(pipe) - 1
      /\ \A i \in 1 .. Len(Tail(pipe)) : Tail(pipe)[i] = pipe[i + 1]
  BY <1>1, HeadTailProperties, LenProperties DEF View!E
<1>3. Len(pipe) # 0
  BY <1>1, EmptySeq
<1> PICK n \in Nat : n = Len(Tail(pipe))
  BY <1>2, LenProperties
<1>4. DOMAIN pipe = 1 .. (n + 1) /\ DOMAIN pipe' = 1 .. n
  BY <1>1, <1>2, LenProperties
<1>5. \A i \in 1 .. n : i + 1 \in 1 .. (n + 1) /\ pipe'[i] = pipe[i + 1]
  BY <1>1, <1>2
<1>6. ASSUME NEW i \in 1 .. (n + 1), i > 1
      PROVE  i - 1 \in 1 .. n /\ pipe'[i - 1] = pipe[i]
  <2>1. i - 1 \in 1 .. n /\ (i - 1) + 1 = i
    BY <1>6
  <2>2. pipe'[i - 1] = pipe[(i - 1) + 1]
    BY <1>5, <2>1
  <2> QED
    BY <2>1, <2>2
<1> QED
  BY <1>1, <1>2, <1>4, <1>5, <1>6 DEF Takes

LEMMA TakenWas ==
  ASSUME NEW k, Takes(k), NEW kinds, NEW m, Sent(pipe', kinds, m)
  PROVE  Sent(pipe, kinds, m)
BY DEF Takes, Sent

LEMMA RestIs ==
  ASSUME ViewInv, NEW k, Takes(k), NEW kinds, NEW m, Sent(pipe, kinds, m),
         k = 1 => ~(pipe[1].kind \in kinds /\ pipe[1].msg = m)
  PROVE  Sent(pipe', kinds, m)
<1>1. PICK i \in DOMAIN pipe : pipe[i].kind \in kinds /\ pipe[i].msg = m
  BY DEF Sent
<1>2. i \in Nat /\ i >= 1
  BY DbIs DEF ViewInv, ViewTyped
<1>3. i > k
  BY <1>1, <1>2 DEF Takes
<1> QED
  BY <1>1, <1>3 DEF Sent, Takes

LEMMA PipeTaken ==
  ASSUME ViewInv, NEW k, Takes(k)
  PROVE  PipeFine(pipe', db)
<1>1. PipeFine(pipe, db)
  BY DEF ViewInv, ArrivalInv
<1>2. \A i \in DOMAIN pipe' :
        /\ i \in Nat /\ i + k \in DOMAIN pipe /\ pipe'[i] = pipe[i + k]
  BY DbIs DEF Takes
<1>3. \A i, j \in DOMAIN pipe' : i < j => i + k < j + k
  <2>1. k \in Nat
    BY DEF Takes
  <2> QED
    BY <1>2, <2>1
<1> QED
  BY <1>1, <1>2, <1>3 DEF PipeFine

\* A finished message that has arrived stays, one that comes is taken as it is.
LEMMA ReadsNext ==
  ASSUME ViewInv, NEW k, Takes(k),
         \A m \in DOMAIN db \ loose :
           Done(db, m) /\ Arrived(view, buf, pipe, db, m) =>
             view'[m] = view[m] /\ (buf' = None \/ buf'.msg # m),
         \A m \in DOMAIN db \ loose :
           Done(db, m) /\ Sent(pipe, {"final"}, m) =>
             Sent(pipe', {"final"}, m) \/ Arrived(view', buf', pipe', db, m)
  PROVE  ReadsFine(view', buf', pipe', db, loose)
<1> SUFFICES ASSUME NEW m \in DOMAIN db \ loose, Done(db, m), ~Sent(pipe', {"final"}, m)
             PROVE  Arrived(view', buf', pipe', db, m)
  BY DEF ReadsFine
<1>1. CASE Sent(pipe, {"final"}, m)
  BY <1>1
<1>2. CASE ~Sent(pipe, {"final"}, m)
  <2>1. Arrived(view, buf, pipe, db, m)
    BY <1>2 DEF ViewInv, ArrivalInv, ReadsFine
  <2>2. ~Sent(pipe', Adding, m)
    BY <2>1, TakenWas DEF Arrived
  <2> QED
    BY <2>1, <2>2 DEF Arrived
<1> QED
  BY <1>1, <1>2

\* Nothing about the messages happens.
LEMMA ReadsSame ==
  ASSUME ViewInv, NEW k, Takes(k), k = 1 => pipe[1].kind # "final",
         \A m \in DOMAIN db \ loose :
           Done(db, m) /\ Arrived(view, buf, pipe, db, m) =>
             view'[m] = view[m] /\ (buf' = None \/ buf'.msg # m)
  PROVE  ReadsFine(view', buf', pipe', db, loose)
<1>1. \A m \in DOMAIN db \ loose :
        Done(db, m) /\ Sent(pipe, {"final"}, m) => Sent(pipe', {"final"}, m)
  BY RestIs
<1> QED
  BY <1>1, ReadsNext

\* The cards: what the window takes from the queue it shows, and it hides none
\* that is waited for.
CardsTaken(k) ==
  /\ counts'.card = counts.card /\ counts'.stops = counts.stops
  /\ Waits(run) /\ run.card \in shown /\ ~Has(pipe, "resolved", run.card) => run.card \in shown'
  /\ k = 1 /\ pipe[1].kind = "approval" => pipe[1].data \in shown'

LEMMA CardWindow ==
  ASSUME ViewInv, View!WindowOnly, NEW k, Takes(k), CardsTaken(k)
  PROVE  CardNow
<1>1. run' = run /\ tail' = tail
  BY DEF View!WindowOnly, View!backend
<1> SUFFICES ASSUME counts.stops = 0
             PROVE  CardNow
  BY DEF CardNow, CardFine, CardsTaken
<1>2. /\ tail = None
      /\ \A i \in DOMAIN pipe : pipe[i].kind = "resolved" =>
           pipe[i].data \in Nat /\ pipe[i].data <= counts.card
      /\ Waits(run) => /\ run.card = counts.card
                       /\ run.card \in shown \/ Has(pipe, "approval", run.card)
                       /\ ~Has(pipe, "resolved", run.card)
  BY DEF ViewInv, CardInv, CardFine
<1>3. /\ counts'.card = counts.card
      /\ \A i \in DOMAIN pipe' : pipe'[i].kind = "resolved" =>
           pipe'[i].data \in Nat /\ pipe'[i].data <= counts.card
  BY <1>2 DEF Takes, CardsTaken
<1>4. ASSUME Waits(run)
      PROVE  /\ run.card = counts.card
             /\ run.card \in shown' \/ Has(pipe', "approval", run.card)
             /\ ~Has(pipe', "resolved", run.card)
  <2>1. ~Has(pipe', "resolved", run.card)
    BY <1>2, <1>4 DEF Has, Takes
  <2>2. ASSUME Has(pipe, "approval", run.card)
        PROVE  run.card \in shown' \/ Has(pipe', "approval", run.card)
    <3>1. PICK i \in DOMAIN pipe : pipe[i].kind = "approval" /\ pipe[i].data = run.card
      BY <2>2 DEF Has
    <3>2. i \in Nat /\ i >= 1
      BY DbIs DEF ViewInv, ViewTyped
    <3>3. CASE i > k
      BY <3>1, <3>3 DEF Has, Takes
    <3>4. CASE ~(i > k)
      <4>1. k = 1 /\ i = 1
        BY <3>2, <3>4 DEF Takes
      <4> QED
        BY <3>1, <4>1 DEF CardsTaken
    <3> QED
      BY <3>3, <3>4
  <2>3. run.card \in shown => run.card \in shown'
    BY <1>2, <1>4 DEF CardsTaken
  <2> QED
    BY <1>2, <1>4, <2>1, <2>2, <2>3
<1> QED
  BY <1>1, <1>2, <1>3, <1>4 DEF CardNow, CardFine

\* A step of the window, from what is left to show of it.
LEMMA WindowNext ==
  ASSUME PartsAssumption, ViewInv, View!WindowOnly, NEW k, Takes(k), CardsTaken(k),
         counts' \in [card : Nat, stops : Nat, beside : Nat], DOMAIN view' = View!Msgs,
         PageFine(page', db), ReadsFine(view', buf', pipe', db, loose),
         resp' = resp \/ resp'.at # "read" \/ resp'.what = snap
  PROVE  ViewNow
<1>1. /\ run' = run /\ tail' = tail /\ snap' = snap /\ db' = db /\ loose' = loose
      /\ ViewTyped /\ StreamInv /\ SnapInv
  BY DEF View!WindowOnly, View!backend, ViewInv
<1>2. TypedNow
  BY <1>1 DEF TypedNow, ViewTyped, Takes
<1>3. Live(run', tail') = Live(run, tail)
  BY <1>1
<1>4. StreamNow
  BY <1>1, <1>3, TakenWas DEF StreamInv, StreamNow, StreamsFine, StreamFine
<1>5. SnapNow
  BY <1>1, <1>3 DEF SnapInv, SnapNow
<1>6. ArrivalNow
  BY <1>1, PipeTaken DEF ArrivalNow
<1>7. CardNow
  BY CardWindow
<1> QED
  BY <1>2, <1>4, <1>5, <1>6, <1>7 DEF ViewNow

LEMMA NoAnswers ==
  /\ View!NoAnswer.at = "none" /\ View!Asked.at = "asked"
  /\ \A x : View!Read(x).at = "read" /\ View!Read(x).what = x
BY DEF View!NoAnswer, View!Asked, View!Read

\* What the window has when it does nothing about messages, cards and answers.
LEMMA WindowHas ==
  ASSUME PartsAssumption, ViewInv
  PROVE  /\ ViewTyped /\ PageFine(page, db) /\ PipeFine(pipe, db)
         /\ ReadsFine(view, buf, pipe, db, loose)
         /\ counts \in [card : Nat, stops : Nat, beside : Nat] /\ DOMAIN view = View!Msgs
         /\ Len(db) \in Nat /\ DOMAIN db = 1 .. Len(db) /\ DOMAIN db \subseteq View!Msgs
         /\ \A m \in DOMAIN db : Done(db, m) => db[m] \in Words /\ db[m] # None
         /\ \A m \in DOMAIN db \ loose :
              Done(db, m) /\ Arrived(view, buf, pipe, db, m) => buf = None \/ buf.msg # m
<1>1. ViewTyped /\ ArrivalInv
  BY DEF ViewInv
<1>2. /\ Len(db) \in Nat /\ DOMAIN db = 1 .. Len(db) /\ Len(db) <= MaxMsgs
      /\ \A m \in DOMAIN db : db[m] \in Words \cup {None}
  BY <1>1, DbIs DEF ViewTyped
<1>3. DOMAIN db \subseteq View!Msgs
  BY <1>2, ViewIs DEF View!Msgs
<1>4. \A m \in DOMAIN db : Done(db, m) => db[m] \in Words /\ db[m] # None
  BY <1>2 DEF Done
<1> QED
  BY <1>1, <1>2, <1>3, <1>4 DEF ArrivalInv, Arrived, ViewTyped

LEMMA LeaveNext ==
  ASSUME PartsAssumption, ViewInv, View!Leave
  PROVE  ViewNow
<1>1. /\ View!WindowOnly /\ UNCHANGED <<pipe, resp, view, buf, shown, counts>>
      /\ page' = View!NoAnswer
  BY DEF View!Leave
<1>2. Takes(0) /\ CardsTaken(0)
  BY <1>1, TakesNone DEF CardsTaken
<1>3. PageFine(page', db)
  BY <1>1, NoAnswers DEF PageFine
<1> QED
  BY <1>1, <1>2, <1>3, WindowHas, WindowNext

LEMMA SelectNext ==
  ASSUME PartsAssumption, ViewInv, View!Select
  PROVE  ViewNow
<1>1. /\ View!WindowOnly /\ UNCHANGED <<pipe, resp, view, buf, shown>>
      /\ page' = View!Asked /\ View!Beside(counts)
  BY DEF View!Select
<1>2. /\ counts' \in [card : Nat, stops : Nat, beside : Nat]
      /\ counts'.card = counts.card /\ counts'.stops = counts.stops
  BY <1>1, WindowHas, BesideIs
<1>3. Takes(0) /\ CardsTaken(0)
  BY <1>1, <1>2, TakesNone DEF CardsTaken
<1>4. PageFine(page', db)
  BY <1>1, NoAnswers DEF PageFine
<1> QED
  BY <1>1, <1>2, <1>3, <1>4, WindowHas, WindowNext

LEMMA ReadPageNext ==
  ASSUME PartsAssumption, ViewInv, View!ReadPage
  PROVE  ViewNow
<1>1. /\ View!WindowOnly /\ UNCHANGED <<pipe, resp, view, buf, shown, counts>>
      /\ page' = View!Read(db)
  BY DEF View!ReadPage
<1>2. Takes(0) /\ CardsTaken(0)
  BY <1>1, TakesNone DEF CardsTaken
<1>3. PageFine(page', db)
  BY <1>1, NoAnswers DEF PageFine
<1> QED
  BY <1>1, <1>2, <1>3, WindowHas, WindowNext

LEMMA GetSnapshotNext ==
  ASSUME PartsAssumption, ViewInv, View!GetSnapshot
  PROVE  ViewNow
<1>1. /\ View!WindowOnly /\ UNCHANGED <<pipe, page, view, buf, shown, counts>>
      /\ resp' = View!Read(snap)
  BY DEF View!GetSnapshot
<1>2. Takes(0) /\ CardsTaken(0)
  BY <1>1, TakesNone DEF CardsTaken
<1>3. resp'.what = snap
  BY <1>1, NoAnswers
<1> QED
  BY <1>1, <1>2, <1>3, WindowHas, WindowNext

\* A row that was read does not take the place of what is finished.
LEMMA LongerIs ==
  ASSUME NEW v \in Words, v # None
  PROVE  View!Longer(v, v) = v /\ View!Longer(v, << >>) = v
<1>1. Len(v) \in Nat /\ Len(<< >>) = 0
  BY PiecesAre, EmptySeq
<1> QED
  BY <1>1 DEF View!Longer

LEMMA ApplyPageNext ==
  ASSUME PartsAssumption, ViewInv, View!ApplyPage
  PROVE  ViewNow
<1>1. /\ View!WindowOnly /\ UNCHANGED <<pipe, buf, shown, counts>>
      /\ page.at = "read" /\ page' = View!NoAnswer /\ resp' = View!Asked
      /\ view' = [m \in View!Msgs |->
                    IF m \in DOMAIN page.what /\ page.what[m] # None
                      THEN View!Longer(view[m], page.what[m]) ELSE view[m]]
  BY DEF View!ApplyPage
<1>2. Takes(0) /\ CardsTaken(0)
  BY <1>1, TakesNone DEF CardsTaken
<1>3. PageFine(page', db) /\ resp'.at # "read"
  BY <1>1, NoAnswers DEF PageFine
<1>4. DOMAIN view' = View!Msgs
  BY <1>1
<1>5. ASSUME NEW m \in DOMAIN db \ loose, Done(db, m), Arrived(view, buf, pipe, db, m)
      PROVE  view'[m] = view[m]
  <2>1. m \in View!Msgs /\ db[m] \in Words /\ view[m] = db[m] /\ db[m] # None
    BY <1>5, WindowHas DEF Arrived
  <2>2. CASE m \in DOMAIN page.what /\ page.what[m] # None
    <3>1. page.what[m] = << >> \/ page.what[m] = db[m]
      BY <1>1, <2>2, WindowHas DEF PageFine
    <3>2. view'[m] = View!Longer(view[m], page.what[m])
      BY <1>1, <2>1, <2>2
    <3>3. View!Longer(db[m], db[m]) = db[m] /\ View!Longer(db[m], << >>) = db[m]
      BY <2>1, LongerIs
    <3> QED
      BY <2>1, <3>1, <3>2, <3>3
  <2>3. CASE ~(m \in DOMAIN page.what /\ page.what[m] # None)
    BY <1>1, <2>1, <2>3
  <2> QED
    BY <2>2, <2>3
<1>6. ReadsFine(view', buf', pipe', db, loose)
  <2>1. \A m \in DOMAIN db \ loose :
          Done(db, m) /\ Arrived(view, buf, pipe, db, m) =>
            view'[m] = view[m] /\ (buf' = None \/ buf'.msg # m)
    BY <1>1, <1>5, WindowHas
  <2> QED
    BY <1>2, <2>1, ReadsSame
<1> QED
  BY <1>1, <1>2, <1>3, <1>4, <1>6, WindowHas, WindowNext

\* The text of a snapshot does not take the place of what is finished.
LEMMA TakenIs ==
  ASSUME NEW v \in Words, NEW t \in Words, Short(t, v)
  PROVE  View!Taken(v, t) = v
<1>1. Len(v) \in Nat /\ Len(t) \in Nat
  BY PiecesAre
<1> QED
  BY <1>1 DEF View!Taken, Short

LEMMA SyncNext ==
  ASSUME PartsAssumption, ViewInv, View!Sync
  PROVE  ViewNow
<1>1. /\ View!WindowOnly /\ UNCHANGED <<pipe, page, buf, counts>>
      /\ resp.at = "read" /\ resp' = View!NoAnswer
      /\ shown' = IF resp.what.card = None THEN shown ELSE shown \cup {resp.what.card}
      /\ view' = [m \in View!Msgs |->
                    IF resp.what.running /\ resp.what.msg = m /\ view[m] # None
                      THEN View!Taken(view[m], resp.what.text) ELSE view[m]]
  BY DEF View!Sync
<1>2. Takes(0) /\ CardsTaken(0)
  BY <1>1, TakesNone DEF CardsTaken
<1>3. resp'.at # "read" /\ DOMAIN view' = View!Msgs
  BY <1>1, NoAnswers
<1>4. resp.what.text \in Words /\ SnapFine(resp.what, Live(run, tail), db, loose)
  BY <1>1 DEF ViewInv, ViewTyped, SnapRec, SnapInv
<1>5. ASSUME NEW m \in DOMAIN db \ loose, Done(db, m), Arrived(view, buf, pipe, db, m)
      PROVE  view'[m] = view[m]
  <2>1. m \in View!Msgs /\ db[m] \in Words /\ view[m] = db[m] /\ db[m] # None
    BY <1>5, WindowHas DEF Arrived
  <2>2. CASE resp.what.running /\ resp.what.msg = m /\ view[m] # None
    <3>1. Short(resp.what.text, db[m])
      BY <1>4, <1>5, <2>2 DEF SnapFine
    <3>2. View!Taken(db[m], resp.what.text) = db[m]
      BY <1>4, <2>1, <3>1, TakenIs
    <3>3. view'[m] = View!Taken(view[m], resp.what.text)
      BY <1>1, <2>1, <2>2
    <3> QED
      BY <2>1, <3>2, <3>3
  <2>3. CASE ~(resp.what.running /\ resp.what.msg = m /\ view[m] # None)
    BY <1>1, <2>1, <2>3
  <2> QED
    BY <2>2, <2>3
<1>6. ReadsFine(view', buf', pipe', db, loose)
  <2>1. \A m \in DOMAIN db \ loose :
          Done(db, m) /\ Arrived(view, buf, pipe, db, m) =>
            view'[m] = view[m] /\ (buf' = None \/ buf'.msg # m)
    BY <1>1, <1>5, WindowHas
  <2> QED
    BY <1>2, <2>1, ReadsSame
<1> QED
  BY <1>1, <1>2, <1>3, <1>6, WindowHas, WindowNext

\* What is held back is of another message.
LEMMA FlushedIs ==
  ASSUME PartsAssumption, ViewInv
  PROVE  /\ DOMAIN View!Flushed = View!Msgs
         /\ \A m \in View!Msgs : buf = None \/ buf.msg # m => View!Flushed[m] = view[m]
<1>1. DOMAIN view = View!Msgs
  BY WindowHas
<1> QED
  BY <1>1 DEF View!Flushed

LEMMA FlushNext ==
  ASSUME PartsAssumption, ViewInv, View!Flush
  PROVE  ViewNow
<1>1. /\ View!WindowOnly /\ UNCHANGED <<pipe, page, resp, shown, counts>>
      /\ buf' = None /\ view' = View!Flushed
  BY DEF View!Flush
<1>2. Takes(0) /\ CardsTaken(0)
  BY <1>1, TakesNone DEF CardsTaken
<1>3. DOMAIN view' = View!Msgs
  BY <1>1, FlushedIs
<1>4. ReadsFine(view', buf', pipe', db, loose)
  <2>1. \A m \in DOMAIN db \ loose :
          Done(db, m) /\ Arrived(view, buf, pipe, db, m) =>
            view'[m] = view[m] /\ (buf' = None \/ buf'.msg # m)
    BY <1>1, WindowHas, FlushedIs
  <2> QED
    BY <1>2, <2>1, ReadsSame
<1> QED
  BY <1>1, <1>2, <1>3, <1>4, WindowHas, WindowNext

-----------------------------------------------------------------------------
(* An event arrives.                                                         *)
LEMMA OnDeltaNext ==
  ASSUME PartsAssumption, ViewInv, View!OnDelta
  PROVE  ViewNow
<1>1. /\ View!WindowOnly /\ UNCHANGED <<page, resp, shown, counts>>
      /\ View!Next1("delta")
  BY DEF View!OnDelta
<1>2. (buf' = buf /\ view' = view) \/
        (buf'.msg = View!E.msg /\ (view' = view \/ view' = View!Flushed))
  BY DEF View!OnDelta
<1>3. /\ Takes(1) /\ 1 \in DOMAIN pipe /\ pipe[1] = View!E /\ View!E.kind = "delta"
  BY <1>1, TakesOne
<1>4. CardsTaken(1)
  BY <1>1, <1>3 DEF CardsTaken
<1>5. DOMAIN view' = View!Msgs
  BY <1>2, FlushedIs, WindowHas
<1>6. ReadsFine(view', buf', pipe', db, loose)
  <2>1. ASSUME NEW m \in DOMAIN db \ loose, Done(db, m), Arrived(view, buf, pipe, db, m)
        PROVE  view'[m] = view[m] /\ (buf' = None \/ buf'.msg # m)
    <3>1. m \in View!Msgs /\ (buf = None \/ buf.msg # m)
      BY <2>1, WindowHas
    <3>2. View!E.msg # m
      BY <1>3, <2>1 DEF Arrived, Sent, Adding
    <3> QED
      BY <1>2, <3>1, <3>2, FlushedIs
  <2> QED
    BY <1>3, <2>1, ReadsSame
<1> QED
  BY <1>1, <1>3, <1>4, <1>5, <1>6, WindowHas, WindowNext

LEMMA OnStepNext ==
  ASSUME PartsAssumption, ViewInv, View!OnStep
  PROVE  ViewNow
<1>1. /\ View!WindowOnly /\ UNCHANGED <<page, resp, shown, counts>>
      /\ View!Next1("step") /\ buf' = None /\ view' = View!Flushed
  BY DEF View!OnStep
<1>2. /\ Takes(1) /\ pipe[1] = View!E /\ View!E.kind = "step"
  BY <1>1, TakesOne
<1>3. CardsTaken(1)
  BY <1>1, <1>2 DEF CardsTaken
<1>4. DOMAIN view' = View!Msgs
  BY <1>1, FlushedIs
<1>5. ReadsFine(view', buf', pipe', db, loose)
  <2>1. \A m \in DOMAIN db \ loose :
          Done(db, m) /\ Arrived(view, buf, pipe, db, m) =>
            view'[m] = view[m] /\ (buf' = None \/ buf'.msg # m)
    BY <1>1, WindowHas, FlushedIs
  <2> QED
    BY <1>2, <2>1, ReadsSame
<1> QED
  BY <1>1, <1>2, <1>3, <1>4, <1>5, WindowHas, WindowNext

LEMMA OnResetNext ==
  ASSUME PartsAssumption, ViewInv, View!OnReset
  PROVE  ViewNow
<1>1. /\ View!WindowOnly /\ UNCHANGED <<page, resp, shown, counts, buf>>
      /\ View!Next1("reset")
  BY DEF View!OnReset
<1>2. /\ Takes(1) /\ 1 \in DOMAIN pipe /\ pipe[1] = View!E /\ View!E.kind = "reset"
  BY <1>1, TakesOne
<1>3. CardsTaken(1)
  BY <1>1, <1>2 DEF CardsTaken
<1>4. /\ DOMAIN view' = View!Msgs
      /\ \A m \in View!Msgs : m # View!E.msg => view'[m] = view[m]
  BY WindowHas DEF View!OnReset
<1>5. ReadsFine(view', buf', pipe', db, loose)
  <2>1. ASSUME NEW m \in DOMAIN db \ loose, Done(db, m), Arrived(view, buf, pipe, db, m)
        PROVE  view'[m] = view[m] /\ (buf' = None \/ buf'.msg # m)
    <3>1. m \in View!Msgs /\ (buf = None \/ buf.msg # m)
      BY <2>1, WindowHas
    <3>2. View!E.msg # m
      BY <1>2, <2>1 DEF Arrived, Sent, Adding
    <3> QED
      BY <1>1, <1>4, <3>1, <3>2
  <2> QED
    BY <1>2, <2>1, ReadsSame
<1> QED
  BY <1>1, <1>2, <1>3, <1>4, <1>5, WindowHas, WindowNext

LEMMA OnFinalNext ==
  ASSUME PartsAssumption, ViewInv, View!OnFinal
  PROVE  ViewNow
<1>1. /\ View!WindowOnly /\ UNCHANGED <<page, resp, shown, counts>>
      /\ View!Next1("final") /\ (buf' = None \/ (buf' = buf /\ buf.msg # View!E.msg))
  BY DEF View!OnFinal, View!BufAtFinal
<1>2. /\ Takes(1) /\ 1 \in DOMAIN pipe /\ pipe[1] = View!E /\ View!E.kind = "final"
  BY <1>1, TakesOne
<1>3. CardsTaken(1)
  BY <1>1, <1>2 DEF CardsTaken
<1>4. /\ View!E.msg \in DOMAIN db /\ View!E.data = db[View!E.msg]
      /\ \A j \in DOMAIN pipe : 1 < j => ~(pipe[j].kind \in Adding /\ pipe[j].msg = View!E.msg)
  BY <1>2, WindowHas DEF PipeFine
<1>5. /\ DOMAIN view' = View!Msgs /\ view'[View!E.msg] = db[View!E.msg]
      /\ \A m \in View!Msgs : m # View!E.msg => view'[m] = view[m]
  BY <1>4, WindowHas DEF View!OnFinal
<1>6. ReadsFine(view', buf', pipe', db, loose)
  <2>1. ASSUME NEW m \in DOMAIN db \ loose, Done(db, m), Arrived(view, buf, pipe, db, m)
        PROVE  view'[m] = view[m] /\ (buf' = None \/ buf'.msg # m)
    <3>1. m \in View!Msgs /\ (buf = None \/ buf.msg # m) /\ view[m] = db[m]
      BY <2>1, WindowHas DEF Arrived
    <3> QED
      BY <1>1, <1>5, <3>1
  <2>2. ASSUME NEW m \in DOMAIN db \ loose, Done(db, m), Sent(pipe, {"final"}, m)
        PROVE  Sent(pipe', {"final"}, m) \/ Arrived(view', buf', pipe', db, m)
    <3>1. CASE m = View!E.msg
      <4>1. ~Sent(pipe', Adding, m)
        <5> SUFFICES ASSUME NEW i \in DOMAIN pipe', pipe'[i].kind \in Adding, pipe'[i].msg = m
                     PROVE  FALSE
          BY DEF Sent
        <5>1. i \in Nat /\ i >= 1
          BY <1>2, DbIs DEF Takes
        <5>2. i + 1 \in DOMAIN pipe /\ pipe'[i] = pipe[i + 1] /\ 1 < i + 1
          BY <1>2, <5>1 DEF Takes
        <5> QED
          BY <1>4, <3>1, <5>2
      <4> QED
        BY <1>1, <1>5, <3>1, <4>1 DEF Arrived
    <3>2. CASE m # View!E.msg
      BY <1>2, <2>2, <3>2, RestIs
    <3> QED
      BY <3>1, <3>2
  <2> QED
    BY <1>2, <2>1, <2>2, ReadsNext
<1> QED
  BY <1>1, <1>2, <1>3, <1>5, <1>6, WindowHas, WindowNext

LEMMA OnApprovalNext ==
  ASSUME PartsAssumption, ViewInv, View!OnApproval
  PROVE  ViewNow
<1>1. View!WindowOnly /\ UNCHANGED <<page, resp, view, buf, counts>>
  BY DEF View!OnApproval
<1>2. Takes(1) /\ pipe[1].kind # "final" /\ CardsTaken(1)
  <2>1. CASE View!Next1("approval") /\ shown' = shown \cup {View!E.data}
    <3>1. /\ Takes(1) /\ pipe[1] = View!E /\ View!E.kind = "approval"
      BY <2>1, TakesOne
    <3> QED
      BY <1>1, <2>1, <3>1 DEF CardsTaken
  <2>2. CASE View!Next1("resolved") /\ shown' = shown \ {View!E.data}
    <3>1. /\ Takes(1) /\ 1 \in DOMAIN pipe /\ pipe[1] = View!E /\ View!E.kind = "resolved"
      BY <2>2, TakesOne
    <3>2. ~Has(pipe, "resolved", run.card) => run.card # View!E.data
      BY <3>1 DEF Has
    <3> QED
      BY <1>1, <2>2, <3>1, <3>2 DEF CardsTaken
  <2> QED
    BY <2>1, <2>2 DEF View!OnApproval
<1>3. ReadsFine(view', buf', pipe', db, loose)
  BY <1>1, <1>2, ReadsSame, WindowHas
<1> QED
  BY <1>1, <1>2, <1>3, WindowHas, WindowNext

LEMMA OnRunNext ==
  ASSUME PartsAssumption, ViewInv, View!OnRun
  PROVE  ViewNow
<1>1. /\ View!WindowOnly /\ UNCHANGED <<page, resp, view, buf, shown, counts>>
      /\ View!Next1("run")
  BY DEF View!OnRun, View!window
<1>2. /\ Takes(1) /\ pipe[1] = View!E /\ View!E.kind = "run"
  BY <1>1, TakesOne
<1>3. CardsTaken(1)
  BY <1>1, <1>2 DEF CardsTaken
<1>4. ReadsFine(view', buf', pipe', db, loose)
  BY <1>1, <1>2, ReadsSame, WindowHas
<1> QED
  BY <1>1, <1>2, <1>3, <1>4, WindowHas, WindowNext

-----------------------------------------------------------------------------
LEMMA ViewInit ==
  ASSUME PartsAssumption, View!Init
  PROVE  ViewInv
<1>1. /\ run = View!IdleRun /\ tail = None /\ snap = View!Fresh /\ db = << >> /\ pipe = << >>
      /\ page = View!NoAnswer /\ resp = View!NoAnswer
      /\ view = [m \in View!Msgs |-> None] /\ counts = [card |-> 0, stops |-> 0, beside |-> 0]
  BY DEF View!Init
<1>2. snap \in SnapRec /\ snap.text = << >> /\ snap.msg = None
  BY <1>1, NoWords DEF View!Fresh, SnapRec
<1>3. resp.at # "read" /\ page.at # "read"
  BY <1>1, NoAnswers
<1>4. /\ db \in Seq(Words \cup {None}) /\ pipe \in Seq(EventRec) /\ Len(db) <= MaxMsgs
      /\ DOMAIN db = {} /\ DOMAIN pipe = {}
  <2>1. Len(<< >>) = 0 /\ DOMAIN << >> = {}
    BY EmptySeq
  <2> QED
    BY <1>1, <2>1, ViewIs
<1>5. ViewTyped
  BY <1>1, <1>2, <1>3, <1>4, NoRunIs DEF ViewTyped
<1>6. Live(run, tail) = {}
  BY <1>1, NoRunIs DEF Live
<1>7. StreamInv
  BY <1>6 DEF StreamInv, StreamsFine, Alone
<1>8. SnapInv
  <2>1. StepFine(snap, {}) /\ SnapFine(snap, {}, db, loose)
    BY <1>2, <1>4, EmptyFine
  <2> QED
    BY <1>3, <1>6, <2>1 DEF SnapInv
<1>9. ArrivalInv
  BY <1>3, <1>4 DEF ArrivalInv, PageFine, PipeFine, ReadsFine
<1>10. CardInv
  BY <1>1, <1>4, NoRunIs DEF CardInv, CardFine, Waits
<1> QED
  BY <1>5, <1>7, <1>8, <1>9, <1>10 DEF ViewInv

LEMMA ViewNext ==
  ASSUME PartsAssumption, ViewInv, View!Next
  PROVE  ViewInv'
<1>1. ViewNow
  <2>1. CASE View!Start
    BY <2>1, StartNext
  <2>2. CASE View!TaskStep(run)
    BY <2>2, TaskNext
  <2>3. CASE View!TaskStep(tail)
    BY <2>3, TaskNext
  <2>4. CASE View!Stop
    BY <2>4, StopNext
  <2>5. CASE View!Drop
    BY <2>5, DropNext
  <2>6. CASE View!TellStopped
    BY <2>6, TellStoppedNext
  <2>7. CASE View!Respond
    BY <2>7, RespondNext
  <2>8. CASE View!Release
    BY <2>8, ReleaseNext
  <2>9. CASE View!TimeOut
    BY <2>9, TimeOutNext
  <2>10. CASE View!Leave
    BY <2>10, LeaveNext
  <2>11. CASE View!Select
    BY <2>11, SelectNext
  <2>12. CASE View!ReadPage
    BY <2>12, ReadPageNext
  <2>13. CASE View!ApplyPage
    BY <2>13, ApplyPageNext
  <2>14. CASE View!GetSnapshot
    BY <2>14, GetSnapshotNext
  <2>15. CASE View!Sync
    BY <2>15, SyncNext
  <2>16. CASE View!Flush
    BY <2>16, FlushNext
  <2>17. CASE View!OnDelta
    BY <2>17, OnDeltaNext
  <2>18. CASE View!OnStep
    BY <2>18, OnStepNext
  <2>19. CASE View!OnReset
    BY <2>19, OnResetNext
  <2>20. CASE View!OnFinal
    BY <2>20, OnFinalNext
  <2>21. CASE View!OnApproval
    BY <2>21, OnApprovalNext
  <2>22. CASE View!OnRun
    BY <2>22, OnRunNext
  <2> QED
    BY <2>1, <2>2, <2>3, <2>4, <2>5, <2>6, <2>7, <2>8, <2>9, <2>10, <2>11, <2>12, <2>13,
       <2>14, <2>15, <2>16, <2>17, <2>18, <2>19, <2>20, <2>21, <2>22 DEF View!Next
<1> QED
  BY <1>1, ViewIsNow

LEMMA ViewShows ==
  ASSUME PartsAssumption, ViewInv
  PROVE  View!SnapshotIsOneStep /\ View!FinishedReadsRight /\ View!AskedIsShown
<1>1. View!SnapshotIsOneStep
  BY DEF View!SnapshotIsOneStep, ViewInv, SnapInv, StepFine
<1>2. View!FinishedReadsRight
  <2> SUFFICES ASSUME pipe = << >>, NEW m \in DOMAIN db \ loose, db[m] \notin {None, << >>}
               PROVE  view[m] = db[m]
    BY DEF View!FinishedReadsRight, View!Quiet
  <2>1. ~Sent(pipe, {"final"}, m)
    BY DEF Sent
  <2>2. Done(db, m)
    BY DEF Done
  <2>3. Arrived(view, buf, pipe, db, m)
    BY <2>1, <2>2 DEF ViewInv, ArrivalInv, ReadsFine
  <2> QED
    BY <2>3 DEF Arrived
<1>3. View!AskedIsShown
  BY DEF View!AskedIsShown, View!Quiet, ViewInv, CardInv, CardFine, Waits, Has
<1> QED
  BY <1>1, <1>2, <1>3

(***************************************************************************)
(* Compactions. A proposal under way has a number of its own, which no row *)
(* has and which is above those told of before; a request that is listed   *)
(* is being waited for, or its time has run out.                           *)
(***************************************************************************)
Proposal(pc, n, from, to, verdict) ==
  [pc |-> pc, n |-> n, from |-> from, to |-> to, verdict |-> verdict]
Whole(p) == p = Proposal(p.pc, p.n, p.from, p.to, p.verdict)

ProposalsAre ==
  /\ proposal = [c \in Ctx!Compactors |-> proposal[c]]
  /\ \A c \in Ctx!Compactors : Whole(proposal[c])
  /\ proposals \in Nat
Numbered ==
  /\ \A c \in Ctx!Compactors : proposal[c].pc # "idle" => proposal[c].n \in 1 .. proposals
  /\ \A c, d \in Ctx!Compactors :
       c # d /\ proposal[c].pc # "idle" /\ proposal[d].pc # "idle" => proposal[c].n # proposal[d].n
  /\ \A s \in sums :
       /\ s.n \in 1 .. proposals
       /\ \A c \in Ctx!Compactors : proposal[c].pc # "idle" => s.n # proposal[c].n
  /\ rejected \subseteq 1 .. proposals
AskedWait == \A c \in Ctx!Compactors : c \in asked => proposal[c].pc \in {"asking", "elapsed"}
RejectedHeld ==
  \A c \in Ctx!Compactors : proposal[c].pc # "idle" /\ proposal[c].n \in rejected \ raced =>
    proposal[c].pc = "told" /\ proposal[c].verdict = "reject"
ContextInv ==
  /\ ProposalsAre /\ Numbered /\ AskedWait /\ RejectedHeld
  /\ Ctx!RejectedIsNotApplied

ofProposals == <<proposal, asked, proposals, sums, rejected, raced>>

LEMMA ContextStays ==
  ASSUME ContextInv, UNCHANGED ofProposals
  PROVE  ContextInv'
BY DEF ContextInv, ofProposals, ProposalsAre, Numbered, AskedWait, RejectedHeld,
       Ctx!RejectedIsNotApplied

LEMMA ContextInit ==
  ASSUME Ctx!Init
  PROVE  ContextInv
<1>1. /\ proposal = [c \in Ctx!Compactors |-> Ctx!NoProposal] /\ asked = {} /\ proposals = 0
      /\ sums = {} /\ rejected = {}
  BY DEF Ctx!Init
<1>2. \A c \in Ctx!Compactors : Whole(proposal[c]) /\ proposal[c].pc = "idle"
  BY <1>1 DEF Whole, Proposal, Ctx!NoProposal
<1> QED
  BY <1>1, <1>2 DEF ContextInv, ProposalsAre, Numbered, AskedWait, RejectedHeld,
    Ctx!RejectedIsNotApplied

\* A step changes one proposal, to p.
LEMMA OneMoves ==
  ASSUME ProposalsAre, NEW c \in Ctx!Compactors, NEW p, Whole(p),
         proposal' = [proposal EXCEPT ![c] = p], proposals' \in Nat
  PROVE  /\ ProposalsAre' /\ proposal'[c] = p
         /\ \A d \in Ctx!Compactors : d # c => proposal'[d] = proposal[d]
BY DEF ProposalsAre, Whole

LEMMA ProposalIs ==
  ASSUME NEW pc, NEW n, NEW from, NEW to, NEW verdict, NEW p,
         p = Proposal(pc, n, from, to, verdict)
  PROVE  Whole(p) /\ p.pc = pc /\ p.n = n /\ p.verdict = verdict
BY DEF Whole, Proposal

LEMMA ToldIs ==
  ASSUME NEW p, Whole(p), NEW v, NEW q, q = [p EXCEPT !.pc = "told", !.verdict = v]
  PROVE  q = Proposal("told", p.n, p.from, p.to, v)
<1> PICK r : r = Proposal("told", p.n, p.from, p.to, v)
  OBVIOUS
<1>1. DOMAIN p = {"pc", "n", "from", "to", "verdict"}
  BY DEF Whole, Proposal
<1>2. DOMAIN q = DOMAIN p /\ DOMAIN r = DOMAIN p
  BY <1>1 DEF Proposal
<1>3. \A f \in DOMAIN p : q[f] = r[f]
  <2>1. q["verdict"] = v
    BY <1>1
  <2>2. q["pc"] = "told"
    BY <1>1
  <2>3. q["n"] = p["n"] /\ q["from"] = p["from"] /\ q["to"] = p["to"]
    BY <1>1
  <2>4. /\ r["n"] = p["n"] /\ r["from"] = p["from"] /\ r["to"] = p["to"]
        /\ r["pc"] = "told" /\ r["verdict"] = v
    BY DEF Proposal
  <2> QED
    BY <1>1, <2>1, <2>2, <2>3, <2>4
<1>4. q = [f \in DOMAIN q |-> q[f]] /\ r = [f \in DOMAIN r |-> r[f]]
  BY DEF Proposal
<1> QED
  BY <1>2, <1>3, <1>4

LEMMA ProposeNext ==
  ASSUME ContextInv, NEW c \in Ctx!Compactors, Ctx!Propose(c)
  PROVE  ContextInv'
<1>1. /\ ProposalsAre /\ Numbered /\ AskedWait /\ RejectedHeld /\ Ctx!RejectedIsNotApplied
      /\ proposal[c].pc = "idle" /\ asked = {} /\ proposals' = proposals + 1
      /\ UNCHANGED <<asked, sums, rejected, raced>>
  BY DEF ContextInv, Ctx!Propose, Ctx!MayPropose
<1>2. proposals \in Nat /\ proposals' \in Nat
  BY <1>1 DEF ProposalsAre
<1>3. PICK p : /\ p = Proposal("summing", proposals', oldUpTo + 1,
                         oldUpTo + Ctx!Candidates(Ctx!Uncompacted, run), "none")
               /\ proposal' = [proposal EXCEPT ![c] = p]
  BY DEF Ctx!Propose, Proposal
<1>4. Whole(p) /\ p.pc = "summing" /\ p.n = proposals'
  BY <1>3, ProposalIs
<1>5. /\ ProposalsAre' /\ proposal'[c] = p
      /\ \A d \in Ctx!Compactors : d # c => proposal'[d] = proposal[d]
  BY <1>1, <1>2, <1>3, <1>4, OneMoves
<1>6. /\ 1 .. proposals \subseteq 1 .. proposals' /\ proposals' \in 1 .. proposals'
      /\ proposals' \notin 1 .. proposals
  BY <1>1, <1>2
<1>7. Numbered'
  BY <1>1, <1>4, <1>5, <1>6 DEF Numbered
<1>8. RejectedHeld'
  BY <1>1, <1>4, <1>5, <1>6 DEF RejectedHeld, Numbered
<1> QED
  BY <1>1, <1>5, <1>7, <1>8 DEF ContextInv, AskedWait, Ctx!RejectedIsNotApplied

\* A proposal that goes on, or is over.
LEMMA ProposalGoes ==
  ASSUME ContextInv, NEW c \in Ctx!Compactors, NEW p, Whole(p),
         proposal' = [proposal EXCEPT ![c] = p], proposals' = proposals,
         p.pc = "idle" \/ (p.n = proposal[c].n /\ proposal[c].pc # "idle"),
         c \in asked' => p.pc \in {"asking", "elapsed"}, asked' \subseteq asked \cup {c},
         proposal[c].n \in rejected' \ raced' /\ p.pc # "idle" => p.pc = "told" /\ p.verdict = "reject",
         sums' = sums, raced \subseteq raced', rejected \subseteq rejected',
         rejected' \subseteq rejected \cup {proposal[c].n}, proposal[c].pc # "idle"
  PROVE  ContextInv'
<1>1. ProposalsAre /\ Numbered /\ AskedWait /\ RejectedHeld /\ Ctx!RejectedIsNotApplied
  BY DEF ContextInv
<1>2. proposals \in Nat /\ proposals' \in Nat
  BY <1>1 DEF ProposalsAre
<1>3. /\ ProposalsAre' /\ proposal'[c] = p
      /\ \A d \in Ctx!Compactors : d # c => proposal'[d] = proposal[d]
  BY <1>1, <1>2, OneMoves
<1>4. Numbered'
  BY <1>1, <1>3 DEF Numbered
<1>5. AskedWait'
  BY <1>1, <1>3 DEF AskedWait
<1>6. RejectedHeld'
  BY <1>1, <1>3 DEF RejectedHeld, Numbered
<1>7. Ctx!RejectedIsNotApplied'
  BY <1>1 DEF Numbered, Ctx!RejectedIsNotApplied
<1> QED
  BY <1>3, <1>4, <1>5, <1>6, <1>7 DEF ContextInv

LEMMA SummedNext ==
  ASSUME ContextInv, NEW c \in Ctx!Compactors, Ctx!Summed(c)
  PROVE  ContextInv'
<1>1. /\ ProposalsAre /\ AskedWait /\ RejectedHeld /\ proposal[c].pc = "summing"
      /\ UNCHANGED <<proposals, sums, rejected, raced>>
  BY DEF ContextInv, Ctx!Summed
<1>2. CASE proposal' = [proposal EXCEPT ![c].pc = "asking"] /\ asked' = asked \cup {c}
  <2> PICK p : p = [proposal[c] EXCEPT !.pc = "asking"]
    OBVIOUS
  <2>1. p = Proposal("asking", proposal[c].n, proposal[c].from, proposal[c].to, proposal[c].verdict)
    BY <1>1 DEF ProposalsAre, Whole, Proposal
  <2>2. Whole(p) /\ p.pc = "asking" /\ p.n = proposal[c].n
    BY <2>1, ProposalIs
  <2>3. proposal' = [proposal EXCEPT ![c] = p]
    BY <1>2
  <2>4. proposal[c].n \notin rejected \ raced
    BY <1>1 DEF RejectedHeld
  <2> QED
    BY <1>1, <1>2, <2>2, <2>3, <2>4, ProposalGoes
<1>3. CASE proposal' = [proposal EXCEPT ![c] = Ctx!NoProposal] /\ asked' = asked
  <2> PICK p : p = Ctx!NoProposal
    OBVIOUS
  <2>1. Whole(p) /\ p.pc = "idle"
    BY DEF Whole, Proposal, Ctx!NoProposal
  <2>2. c \notin asked
    BY <1>1 DEF AskedWait
  <2> QED
    BY <1>1, <1>3, <2>1, <2>2, ProposalGoes
<1> QED
  BY <1>2, <1>3 DEF Ctx!Summed

LEMMA AnsweredNext ==
  ASSUME ContextInv, NEW c \in Ctx!Compactors, NEW v \in {"approve", "reject"}, Ctx!Respond(c, v)
  PROVE  ContextInv'
<1>1. /\ ProposalsAre /\ AskedWait /\ RejectedHeld /\ c \in asked /\ asked' = asked \ {c}
      /\ UNCHANGED <<proposals, sums>>
      /\ rejected' = IF v = "reject" THEN rejected \cup {proposal[c].n} ELSE rejected
      /\ raced' = IF proposal[c].pc = "elapsed" THEN raced \cup {proposal[c].n} ELSE raced
  BY DEF ContextInv, Ctx!Respond
<1>2. CASE proposal[c].pc = "asking"
  <2> PICK p : p = [proposal[c] EXCEPT !.pc = "told", !.verdict = v]
    OBVIOUS
  <2>1. p = Proposal("told", proposal[c].n, proposal[c].from, proposal[c].to, v)
    BY <1>1, ToldIs DEF ProposalsAre
  <2>2. Whole(p) /\ p.pc = "told" /\ p.n = proposal[c].n /\ p.verdict = v
    BY <2>1, ProposalIs
  <2>3. proposal' = [proposal EXCEPT ![c] = p]
    BY <1>2, <1>1 DEF Ctx!Respond, ProposalsAre
  <2>4. proposal[c].n \notin rejected \ raced /\ raced' = raced
    BY <1>1, <1>2 DEF RejectedHeld
  <2> QED
    BY <1>1, <1>2, <2>2, <2>3, <2>4, ProposalGoes
<1>3. CASE proposal[c].pc = "elapsed"
  <2> PICK p : p = proposal[c]
    OBVIOUS
  <2>1. Whole(p) /\ proposal' = [proposal EXCEPT ![c] = p]
    BY <1>1, <1>3 DEF ProposalsAre, Ctx!Respond
  <2> QED
    BY <1>1, <1>3, <2>1, ProposalGoes
<1> QED
  BY <1>1, <1>2, <1>3 DEF AskedWait

LEMMA ElapseNext ==
  ASSUME ContextInv, NEW c \in Ctx!Compactors, Ctx!Elapse(c)
  PROVE  ContextInv'
<1>1. /\ ProposalsAre /\ RejectedHeld /\ proposal[c].pc = "asking"
      /\ UNCHANGED <<asked, proposals, sums, rejected, raced>>
      /\ proposal' = [proposal EXCEPT ![c].pc = "elapsed"]
  BY DEF ContextInv, Ctx!Elapse
<1> PICK p : p = [proposal[c] EXCEPT !.pc = "elapsed"]
  OBVIOUS
<1>2. p = Proposal("elapsed", proposal[c].n, proposal[c].from, proposal[c].to, proposal[c].verdict)
  BY <1>1 DEF ProposalsAre, Whole, Proposal
<1>3. Whole(p) /\ p.pc = "elapsed" /\ p.n = proposal[c].n
  BY <1>2, ProposalIs
<1>4. proposal' = [proposal EXCEPT ![c] = p]
  BY <1>1
<1>5. proposal[c].n \notin rejected \ raced
  BY <1>1 DEF RejectedHeld
<1> QED
  BY <1>1, <1>3, <1>4, <1>5, ProposalGoes

\* The row of a proposal that is applied is of none the user rejected.
LEMMA ConcludeNext ==
  ASSUME ContextInv, NEW c \in Ctx!Compactors, Ctx!Conclude(c)
  PROVE  ContextInv'
<1>1. /\ ProposalsAre /\ Numbered /\ AskedWait /\ RejectedHeld /\ Ctx!RejectedIsNotApplied
      /\ proposal[c].pc \in {"elapsed", "told"} /\ asked' = asked \ {c}
      /\ UNCHANGED <<proposals, rejected, raced>>
      /\ proposal' = [proposal EXCEPT ![c] = Ctx!NoProposal]
  BY DEF ContextInv, Ctx!Conclude
<1> PICK p : p = Ctx!NoProposal
  OBVIOUS
<1>2. Whole(p) /\ p.pc = "idle"
  BY DEF Whole, Proposal, Ctx!NoProposal
<1>3. /\ ProposalsAre' /\ proposal'[c] = p
      /\ \A d \in Ctx!Compactors : d # c => proposal'[d] = proposal[d]
  BY <1>1, <1>2, OneMoves DEF ProposalsAre
<1>4. \A s \in sums' : s \in sums \/ (s.n = proposal[c].n /\ Ctx!Applies(c))
  BY DEF Ctx!Conclude
<1>5. Numbered'
  BY <1>1, <1>2, <1>3, <1>4 DEF Numbered
<1>6. AskedWait' /\ RejectedHeld'
  BY <1>1, <1>2, <1>3 DEF AskedWait, RejectedHeld
<1>7. Ctx!RejectedIsNotApplied'
  BY <1>1, <1>4 DEF Ctx!RejectedIsNotApplied, RejectedHeld, Ctx!Applies
<1> QED
  BY <1>3, <1>5, <1>6, <1>7 DEF ContextInv

LEMMA ContextNext ==
  ASSUME ContextInv, Ctx!Next
  PROVE  ContextInv'
<1>1. CASE \/ Ctx!SendMessage \/ Ctx!StoreResult \/ Ctx!RunEnds \/ Ctx!Retry
           \/ \E n \in 0 .. MaxCalls : Ctx!Reply(n)
           \/ \E u \in DOMAIN log : Ctx!Revert(u)
           \/ \E seq \in 0 .. MaxLog : Ctx!DeleteAfter(seq)
  BY <1>1, ContextStays DEF ofProposals, Ctx!compaction, Ctx!SendMessage, Ctx!StoreResult,
    Ctx!RunEnds, Ctx!Retry, Ctx!Reply, Ctx!Revert, Ctx!DeleteAfter
<1>2. ASSUME NEW c \in Ctx!Compactors, Ctx!ProposeRefused(c)
      PROVE  ContextInv'
  BY <1>2, ContextStays DEF ofProposals, Ctx!ProposeRefused
<1>3. ASSUME NEW c \in Ctx!Compactors,
             Ctx!Propose(c) \/ Ctx!Summed(c) \/ Ctx!Elapse(c) \/ Ctx!Conclude(c)
      PROVE  ContextInv'
  BY <1>3, ProposeNext, SummedNext, ElapseNext, ConcludeNext
<1>4. ASSUME NEW c \in Ctx!Compactors, NEW v \in {"approve", "reject"}, Ctx!Respond(c, v)
      PROVE  ContextInv'
  BY <1>4, AnsweredNext
<1> QED
  BY <1>1, <1>2, <1>3, <1>4 DEF Ctx!Next

(***************************************************************************)
(* Ranges. What a variable's type says beyond the invariants above.        *)
(***************************************************************************)
SpaceRange ==
  /\ here \in [Projects -> BOOLEAN] /\ at \in 0 .. N + 1
  /\ sha \in [Projects -> 0 .. MaxBuilds] /\ mem \in [Projects -> 0 .. MaxBuilds]
  /\ \A m \in Mergers : merge[m].at \in 0 .. N + 1
  /\ \A p \in Projects : risked[p] \subseteq 1 .. MaxEdits
  /\ clears \subseteq Clearers /\ faults \in 0 .. MaxFaults /\ halfway \subseteq Projects

Roles == {"user", "assistant", "tool"}
RoleIs(m) == "role" \in DOMAIN m /\ m.role \in Roles
LogRange ==
  /\ \E S : log \in Seq(S) /\ \A m \in S : RoleIs(m)
  /\ Len(log) <= MaxLog /\ upTo \in 0 .. Len(log) /\ run \in BOOLEAN
Staged(p) == p.pc \in {"idle", "summing", "asking", "elapsed", "told"}
ProposalRange ==
  /\ old \in Seq(Roles) /\ oldUpTo \in 0 .. Len(old) /\ proposals <= MaxProposals
  /\ \A c \in Ctx!Compactors :
       /\ Staged(proposal[c])
       /\ proposal[c].pc # "idle" =>
            /\ {proposal[c].from, proposal[c].to} \subseteq 1 .. Len(old)
            /\ proposal[c].from <= proposal[c].to
  /\ \A s \in sums : s.from <= s.to
  /\ asked \subseteq Ctx!Compactors /\ raced \subseteq 1 .. proposals /\ refused \in BOOLEAN
ContextRange == LogRange /\ ProposalRange

\* From the stream to the end of a call a task is about a message.
AboutOne == {"stream", "call", "waits", "allowed", "denied", "runs"}
TaskRange(r) == View!TaskOK(r) /\ (r.pc \in AboutOne => r.msg \in View!Msgs)
CardRange(c) == c \in View!Cards \cup {None}
EventRange(e) ==
  /\ e.kind = "delta" => e.msg \in View!Msgs /\ e.data \in Piece
  /\ e.kind = "approval" => e.data \in View!Cards
TasksIn == TaskRange(run) /\ (tail # None => TaskRange(tail))
SnapIn(s) == s.msg \in View!Msgs \cup {None} /\ s.tools \subseteq View!Msgs /\ CardRange(s.card)
PipeIn == \A i \in DOMAIN pipe : EventRange(pipe[i])
WindowIn ==
  /\ halting \in BOOLEAN /\ here \in BOOLEAN
  /\ (resp.at = "read" => CardRange(resp.what.card))
  /\ shown \subseteq View!Cards /\ loose \subseteq View!Msgs
  /\ buf # None => buf.msg \in View!Msgs /\ buf.text \in Words \ {<< >>}
ViewRange == TasksIn /\ SnapIn(snap) /\ PipeIn /\ WindowIn

LEMMA FaultsAre == MaxFaults \in Nat
BY PartsAssumption DEF SpaceAssumption

LEMMA UserStaysInRange ==
  ASSUME SpaceInv, SpaceRange, NEW p \in Projects,
         UserEdit(p) \/ UserDelete(p) \/ UserMoves(p)
  PROVE  SpaceRange'
<1>1. EditsInv /\ SpaceTyped
  BY DEF SpaceInv, EditsInv
<1>2. UNCHANGED <<at, sha, mem, merge, clears, halfway>>
  BY DEF UserEdit, UserDelete, UserMoves, space, ensuring, counters, history
<1>3. here' \in [Projects -> BOOLEAN] /\ faults' \in 0 .. MaxFaults
  <2>1. CASE UserMoves(p)
    <3>1. here \in [Projects -> BOOLEAN] /\ faults \in 0 .. MaxFaults
      BY DEF SpaceRange
    <3>2. PICK b \in BOOLEAN : here' = [here EXCEPT ![p] = b]
      BY <2>1, Zenon DEF UserMoves
    <3>3. here' \in [Projects -> BOOLEAN]
      BY <3>1, <3>2
    <3>4. faults' = faults \/ (faults < MaxFaults /\ faults' = faults + 1)
      BY <2>1 DEF UserMoves
    <3> QED
      BY <3>1, <3>3, <3>4, FaultsAre
  <2>2. CASE here' = here /\ faults' = faults
    BY <2>2 DEF SpaceRange
  <2> QED
    BY <2>1, <2>2 DEF UserEdit, UserDelete, counters
<1>4. \A q \in Projects : risked'[q] \subseteq 1 .. MaxEdits
  <2>1. CASE risked' = risked
    BY <2>1 DEF SpaceRange
  <2>2. CASE risked' # risked
    <3>1. edits < MaxEdits /\ edits' = edits + 1 /\ risked' = [risked EXCEPT ![p] = @ \cup {edits'}]
      BY <2>2 DEF UserEdit, UserDelete, UserMoves, history
    <3>2. edits' \in 1 .. MaxEdits
      BY <1>1, <3>1, SpaceAre DEF SpaceTyped
    <3> QED
      BY <1>1, <3>1, <3>2 DEF SpaceRange, SpaceTyped
  <2> QED
    BY <2>1, <2>2
<1> QED
  BY <1>2, <1>3, <1>4 DEF SpaceRange

LEMMA FailsInRange ==
  ASSUME SpaceRange, NEW built \in SUBSET Projects, EnsureFails(built),
         UNCHANGED <<here, sha, clears, merge>> \/ (UNCHANGED <<here, sha>> /\ clears' = {}
                                   /\ merge' = [m \in Mergers |-> Idle]),
         faults' = faults \/ (faults < MaxFaults /\ faults' = faults + 1),
         risked' = risked \/ \E p \in Projects : risked' = [risked EXCEPT ![p] = {}],
         SpaceTyped
  PROVE  SpaceRange'
<1>1. at' \in 0 .. N + 1 /\ mem' \in [Projects -> 0 .. MaxBuilds] /\ halfway' \subseteq Projects
  BY SpaceAre DEF EnsureFails, SpaceRange
<1>2. \A m \in Mergers : merge'[m].at \in 0 .. N + 1
  BY SpaceAre DEF SpaceRange, Idle
<1>3. \A p \in Projects : risked'[p] \subseteq 1 .. MaxEdits
  BY DEF SpaceRange, SpaceTyped
<1>4. faults' \in 0 .. MaxFaults
  BY FaultsAre DEF SpaceRange
<1> QED
  BY <1>1, <1>2, <1>3, <1>4 DEF SpaceRange

LEMMA EnsureStaysInRange ==
  ASSUME SpaceInv, SpaceRange,
         StartRun \/ EnsureSkips \/ EnsureMisses \/ EnsureBuilds \/ EnsureBreaks \/ EnsureEnds
  PROVE  SpaceRange'
<1>1. EditsInv /\ SpaceTyped
  BY DEF SpaceInv, EditsInv
<1>2. CASE StartRun
  BY <1>2, SpaceAre DEF StartRun, SpaceRange, counters, history
<1>3. CASE EnsureSkips
  <2>1. /\ at \in Projects /\ at' = at + 1
        /\ UNCHANGED <<here, sha, mem, merge, risked, clears, faults, halfway>>
    BY <1>3 DEF EnsureSkips, counters, history, space
  <2>2. at' \in 0 .. N + 1
    BY <2>1, SpaceAre
  <2> QED
    BY <2>1, <2>2 DEF SpaceRange
<1>4. CASE EnsureMisses
  BY <1>1, <1>4, FailsInRange DEF EnsureMisses, counters, space
<1>5. CASE EnsureBuilds
  <2>1. /\ at \in Projects /\ builds < MaxBuilds /\ builds' = builds + 1 /\ at' = at + 1
        /\ mem' = [mem EXCEPT ![at] = builds'] /\ risked' = [risked EXCEPT ![at] = {}]
        /\ UNCHANGED <<here, sha, merge, clears, faults, halfway>>
    BY <1>5 DEF EnsureBuilds
  <2>2. builds' \in 0 .. MaxBuilds /\ at' \in 0 .. N + 1
    BY <1>1, <2>1, SpaceAre DEF SpaceTyped
  <2> QED
    BY <1>1, <2>1, <2>2 DEF SpaceRange, SpaceTyped
<1>6. CASE EnsureBreaks
  BY <1>1, <1>6, FailsInRange DEF EnsureBreaks
<1>7. CASE EnsureEnds
  BY <1>7, SpaceAre DEF EnsureEnds, SaveManifest, SpaceRange, counters, history
<1> QED
  BY <1>2, <1>3, <1>4, <1>5, <1>6, <1>7

LEMMA AgentStaysInRange ==
  ASSUME SpaceRange,
         \/ \E p \in Projects : AgentEdit(p) \/ AgentDelete(p)
         \/ Snapshot \/ RestoreBaseline \/ RestoreSnapshot
  PROVE  SpaceRange'
<1>1. UNCHANGED <<here, at, sha, mem, merge, risked, clears, faults, halfway>>
  BY DEF AgentEdit, AgentDelete, Snapshot, RestoreBaseline, RestoreSnapshot, ensuring,
         counters, history
<1> QED
  BY <1>1 DEF SpaceRange

MergeSteps(m) ==
  \/ MergeStart(m) \/ AiMerge(m) \/ MergeEnds(m)
  \/ \E unread \in BOOLEAN :
       MergeApplies(m, unread) \/ MergeSkips(m, unread) \/ MergeAsks(m, unread)

\* An edit is no greater than the last.
LEMMA LinesInRange ==
  ASSUME SpaceInv, NEW f \in Files
  PROVE  Lines(f) \subseteq 1 .. MaxEdits
<1>1. EditsInv /\ edits \in 0 .. MaxEdits
  BY DEF SpaceInv, EditsInv, SpaceTyped
<1> QED
  BY <1>1, SpaceAre, EditsAre

LEMMA ReadsInRange ==
  ASSUME SpaceInv, SpaceRange, NEW p \in Projects, NEW unread, Reads(p, unread)
  PROVE  /\ faults' \in 0 .. MaxFaults
         /\ \A q \in Projects : risked'[q] \subseteq 1 .. MaxEdits
<1>1. /\ faults \in 0 .. MaxFaults /\ \A q \in Projects : risked[q] \subseteq 1 .. MaxEdits
      /\ risked \in [Projects -> SUBSET Nat] /\ Lines(src[p]) \subseteq 1 .. MaxEdits
  BY FilesAre, LinesInRange DEF SpaceRange, SpaceInv, EditsInv, SpaceTyped
<1>2. faults' \in 0 .. MaxFaults
  BY <1>1, FaultsAre DEF Reads
<1>3. \A q \in Projects : risked'[q] \subseteq 1 .. MaxEdits
  BY <1>1 DEF Reads, Lines
<1> QED
  BY <1>2, <1>3

LEMMA MergeStaysInRange ==
  ASSUME SpaceInv, SpaceRange, NEW m \in Mergers, MergeSteps(m)
  PROVE  SpaceRange'
<1>1. EditsInv /\ SpaceTyped
  BY DEF SpaceInv, EditsInv
<1>2. UNCHANGED <<here, at, sha, mem, clears, halfway>>
  BY DEF MergeSteps, MergeStart, MergeApplies, MergeSkips, MergeAsks, AiMerge, MergeEnds,
         counters, history, space, ensuring, besideMerge
<1>3. merge \in [Mergers -> MergeRec]
  BY <1>1 DEF SpaceTyped
<1>4. \A q \in Mergers : q # m => merge'[q] = merge[q]
  BY <1>3 DEF MergeSteps, MergeStart, MergeApplies, MergeSkips, MergeAsks, AiMerge, MergeEnds, Proceed
<1>5. merge'[m].at \in 0 .. N + 1
  <2>1. CASE MergeStart(m)
    BY <1>3, <2>1, SpaceAre DEF MergeStart, Idle
  <2>2. CASE \E unread \in BOOLEAN : MergeApplies(m, unread) \/ MergeSkips(m, unread)
    BY <1>3, <2>2, SpaceAre DEF MergeApplies, MergeSkips, Proceed, MergeRec
  <2>3. CASE \E unread \in BOOLEAN : MergeAsks(m, unread)
    BY <1>3, <2>3, SpaceAre DEF MergeAsks, MergeRec
  <2>4. CASE AiMerge(m)
    <3>1. merge[m].at \in Projects
      BY <1>1, <2>4 DEF AiMerge, EditsInv, AsksKept
    <3> QED
      BY <1>3, <2>4, <3>1, SpaceAre DEF AiMerge, MergeRec
  <2>5. CASE MergeEnds(m)
    BY <1>3, <2>5, SpaceAre DEF MergeEnds, Idle
  <2> QED
    BY <2>1, <2>2, <2>3, <2>4, <2>5 DEF MergeSteps
<1>6. faults' \in 0 .. MaxFaults /\ \A q \in Projects : risked'[q] \subseteq 1 .. MaxEdits
  <2>1. CASE UNCHANGED <<faults, risked>>
    BY <2>1 DEF SpaceRange
  <2>2. CASE \E unread \in BOOLEAN, p \in Projects : Reads(p, unread)
    BY <2>2, ReadsInRange
  <2>3. CASE AiMerge(m)
    <3>1. merge[m].at \in Projects /\ merge[m].orig \in Files
      BY <2>3, FilesAre, <1>1 DEF AiMerge, EditsInv, AsksKept
    <3>2. Lines(merge[m].orig) \subseteq 1 .. MaxEdits
      BY <3>1, LinesInRange
    <3>3. /\ faults' = faults
          /\ \/ risked' = risked
             \/ \E a : risked' = [risked EXCEPT ![merge[m].at] = @ \cup (Lines(merge[m].orig) \ a)]
      BY <2>3 DEF AiMerge
    <3> QED
      BY <1>1, <3>1, <3>2, <3>3 DEF SpaceRange, SpaceTyped
  <2>4. CASE MergeStart(m) \/ MergeEnds(m)
    BY <2>1, <2>4 DEF MergeStart, MergeEnds, counters, history
  <2> QED
    BY <2>2, <2>3, <2>4 DEF MergeSteps, MergeApplies, MergeSkips, MergeAsks
<1> QED
  BY <1>2, <1>4, <1>5, <1>6 DEF SpaceRange

LEMMA SpaceStaysInRange ==
  ASSUME SpaceInv, SpaceRange, Next
  PROVE  SpaceRange'
<1>1. EditsInv /\ SpaceTyped
  BY DEF SpaceInv, EditsInv
<1>2. CASE RunEnds
  <2>1. /\ merge' = [merge EXCEPT ![Agent] = Idle]
        /\ UNCHANGED <<here, at, sha, mem, risked, clears, faults, halfway>>
    BY <1>2 DEF RunEnds, counters, history, space
  <2>2. \A m \in Mergers : merge'[m] = merge[m] \/ merge'[m] = Idle
    BY <1>1, <2>1 DEF SpaceTyped
  <2> QED
    BY <2>1, <2>2, SpaceAre DEF SpaceRange, Idle
<1>3. CASE \E t \in Clearers : ClearStart(t) \/ Clear(t)
  <2>1. UNCHANGED <<here, at, sha, mem, merge, risked, faults>>
    BY <1>3 DEF ClearStart, Clear, ensuring, counters, history, space
  <2>2. clears' \subseteq Clearers /\ halfway' \subseteq Projects
    BY <1>3 DEF ClearStart, Clear, history, SpaceRange
  <2> QED
    BY <2>1, <2>2 DEF SpaceRange
<1>4. CASE Crash
  BY <1>1, <1>4, FailsInRange DEF Crash, space
<1>5. CASE \E p \in Touched : UserEdit(p) \/ UserDelete(p)
  BY <1>5, SpaceAre, UserStaysInRange
<1>6. CASE \E p \in Projects : UserMoves(p)
  BY <1>6, UserStaysInRange
<1>7. CASE \E p \in Touched : AgentEdit(p) \/ AgentDelete(p)
  BY <1>7, SpaceAre, AgentStaysInRange
<1>8. CASE \E m \in Mergers : MergeSteps(m)
  BY <1>8, MergeStaysInRange
<1> QED
  BY <1>2, <1>3, <1>4, <1>5, <1>6, <1>7, <1>8, EnsureStaysInRange, AgentStaysInRange
  DEF Next, MergeSteps

LEMMA SpaceBeginsInRange ==
  ASSUME Init
  PROVE  SpaceRange
BY SpaceAre, FaultsAre DEF Init, SpaceRange, Idle

LEMMA SpaceTypes ==
  ASSUME SpaceInv, SpaceRange
  PROVE  TypeOK
<1>1. EditsInv /\ SpaceTyped /\ KnownEdits
  BY DEF SpaceInv, EditsInv
<1>2. \A n \in 1 .. edits : n \in 1 .. MaxEdits
  BY <1>1, SpaceAre DEF SpaceTyped
<1>3. \A p \in Projects : yours[p] \cup risked[p] \subseteq 1 .. MaxEdits
  BY <1>1, <1>2 DEF KnownEdits, SpaceRange
<1>4. \A m \in Mergers : merge[m].pc \in {"idle", "on", "ask"} /\ {merge[m].orig, merge[m].temp} \subseteq File
  BY <1>1 DEF SpaceTyped, MergeRec
<1> QED
  BY <1>1, <1>3, <1>4 DEF SpaceTyped, SpaceRange, TypeOK, Snap


\* A set of numbers below a bound has a greatest one.
LEMMA MaxIs ==
  ASSUME NEW n \in Nat, NEW T, T \subseteq 0 .. n, T # {}
  PROVE  Ctx!Max(T) \in T
<1> DEFINE U == {n - x : x \in T}
<1>1. U \subseteq Nat /\ U # {}
  <2>1. \A x \in T : n - x \in Nat
    OBVIOUS
  <2>2. \E x \in T : n - x \in U
    OBVIOUS
  <2> QED
    BY <2>1, <2>2
<1> HIDE DEF U
<1>2. PICK u \in U : \A y \in U : ~(<<y, u>> \in OpToRel(<, Nat))
  BY <1>1, NatLessThanWellFounded, WFMin
<1>3. \A y \in U : ~(y < u)
  BY <1>1, <1>2 DEF OpToRel
<1>4. PICK x \in T : u = n - x
  BY DEF U
<1>5. \A y \in T : x >= y
  <2> TAKE y \in T
  <2>1. ~(n - y < n - x)
    BY <1>3, <1>4 DEF U
  <2> QED
    BY <2>1
<1> QED
  BY <1>5 DEF Ctx!Max

\* What may be summed up is there.
LEMMA CandidatesAre ==
  ASSUME NEW roles \in Seq(Roles), NEW running
  PROVE  Ctx!Candidates(roles, running) \in 0 .. Len(roles)
<1> PICK n \in Nat : n = Len(roles)
  BY LenProperties
<1> PICK users : users = {i \in 1 .. n : roles[i] = "user"}
  OBVIOUS
<1>1. users # {} => Ctx!Max(users) \in 1 .. n
  <2>1. users \subseteq 0 .. n /\ users \subseteq 1 .. n
    OBVIOUS
  <2> QED
    BY <2>1, MaxIs
<1>2. Ctx!Candidates(roles, running) =
        IF n = 0 THEN 0
        ELSE IF running \/ roles[n] = "user"
          THEN IF users # {} /\ Ctx!Max(users) > 1 THEN Ctx!Max(users) - 1 ELSE n - 1
          ELSE n
  BY DEF Ctx!Candidates
<1>3. CASE users # {} /\ Ctx!Max(users) > 1
  BY <1>1, <1>2, <1>3
<1>4. CASE ~(users # {} /\ Ctx!Max(users) > 1)
  BY <1>2, <1>4
<1> QED
  BY <1>3, <1>4

LEMMA ContextIs ==
  /\ MaxLog \in Nat /\ MaxProposals \in Nat /\ 2 <= MaxLog
  /\ \A h \in StartLogs : h.upTo \in 0 .. Len(h.log) /\ Len(h.log) <= MaxLog
BY PartsAssumption DEF Ctx!ContextAssumption

LEMMA LogBeginsInRange ==
  ASSUME Ctx!Init
  PROVE  LogRange
<1>1. PICK h \in StartLogs : log = h.log /\ upTo = h.upTo
  BY DEF Ctx!Init
<1>2. Len(log) <= MaxLog /\ upTo \in 0 .. Len(log) /\ run \in BOOLEAN
  BY <1>1, ContextIs DEF Ctx!Init
<1>3. PICK a, b, c, d : a = Log!User(FALSE) /\ b = Log!Assistant(1)
                        /\ c = Log!Tool(2, 1, "other") /\ d = Log!Assistant(0)
  OBVIOUS
<1>4. \A m \in {a, b, c, d} : RoleIs(m)
  BY <1>3 DEF Log!User, Log!Assistant, Log!Tool, Roles, RoleIs
<1>5. log = << >> \/ log = <<a, b, c, d>>
  <2>1. Migrated = <<a, b, c, d>>
    BY <1>3 DEF Migrated
  <2>2. h.log = << >> \/ h.log = Migrated
    BY DEF StartLogs
  <2> QED
    BY <1>1, <2>1, <2>2
<1> PICK S : S = {a, b, c, d}
  OBVIOUS
<1>6. log \in Seq(S)
  <2>1. << >> \in Seq(S) /\ {a, b, c, d} \subseteq S
    BY EmptySeq
  <2>2. <<a, b, c, d>> \in Seq(S)
    BY <2>1
  <2> QED
    BY <1>5, <2>1, <2>2
<1> QED
  BY <1>2, <1>4, <1>6 DEF LogRange

LEMMA LogIsInRange ==
  ASSUME NEW S, log' \in Seq(S), \A m \in S : RoleIs(m), Len(log') <= MaxLog,
         upTo' \in 0 .. Len(log'), run' \in BOOLEAN
  PROVE  LogRange'
BY DEF LogRange, RoleIs

\* The log grows at its end, or is marked in place, or loses its end.
LEMMA LogGrows ==
  ASSUME LogRange, NEW m, RoleIs(m), Ctx!Append1(m), upTo' = upTo, run' \in BOOLEAN
  PROVE  LogRange'
<1>1. PICK S : log \in Seq(S) /\ \A e \in S : RoleIs(e)
  BY DEF LogRange
<1>2. log \in Seq(S \cup {m}) /\ log' = Append(log, m)
  BY <1>1 DEF Ctx!Append1
<1>3. log' \in Seq(S \cup {m}) /\ Len(log') = Len(log) + 1 /\ Len(log) \in Nat
  BY <1>2, AppendProperties, LenProperties
<1>4. Len(log) < MaxLog
  BY <1>3, ContextIs DEF Ctx!Append1
<1>5. Len(log') <= MaxLog /\ upTo' \in 0 .. Len(log')
  BY <1>3, <1>4, ContextIs DEF LogRange
<1> QED
  BY <1>1, <1>3, <1>5, LogIsInRange

LEMMA LogMarked ==
  ASSUME LogRange, NEW u \in DOMAIN log, Ctx!Revert(u)
  PROVE  LogRange'
<1>1. PICK S : log \in Seq(S) /\ \A e \in S : RoleIs(e)
  BY DEF LogRange
<1>2. /\ log' = [i \in DOMAIN log |-> IF i \in Ctx!TurnOf(u)
                    THEN [log[i] EXCEPT !.reverted = ~log[u].reverted] ELSE log[i]]
      /\ UNCHANGED <<upTo, run>>
  BY DEF Ctx!Revert
<1>3. DOMAIN log = 1 .. Len(log) /\ Len(log) \in Nat /\ \A i \in DOMAIN log : RoleIs(log[i])
  BY <1>1, DbIs
<1>4. \A i \in DOMAIN log : RoleIs(log'[i])
  <2> TAKE i \in DOMAIN log
  <2>1. log'[i] = log[i] \/ log'[i] = [log[i] EXCEPT !.reverted = ~log[u].reverted]
    BY <1>2
  <2>2. "role" \in DOMAIN log[i] /\ log[i].role \in Roles
    BY <1>3 DEF RoleIs
  <2>3. DOMAIN log'[i] = DOMAIN log[i]
    BY <2>1
  <2>4. log'[i].role = log[i].role
    BY <2>1, <2>2
  <2> QED
    BY <2>2, <2>3, <2>4 DEF RoleIs
<1> PICK R : R = {log'[i] : i \in DOMAIN log}
  OBVIOUS
<1>5. log' \in [1 .. Len(log) -> R]
  BY <1>2, <1>3
<1>6. log' \in Seq(R)
  BY <1>3, <1>5
<1>7. Len(log') = Len(log)
  BY <1>3, <1>5
<1>8. \A m \in R : RoleIs(m)
  BY <1>4
<1> QED
  BY <1>2, <1>6, <1>7, <1>8, LogIsInRange DEF LogRange


LEMMA LogCut ==
  ASSUME LogRange, NEW seq \in 0 .. MaxLog, Ctx!DeleteAfter(seq)
  PROVE  LogRange'
<1>1. PICK S : log \in Seq(S) /\ \A e \in S : RoleIs(e)
  BY DEF LogRange
<1>2. /\ seq < Len(log) /\ log' = SubSeq(log, 1, seq) /\ run' = run
      /\ upTo' = IF upTo > seq THEN 0 ELSE upTo
  BY DEF Ctx!DeleteAfter, Ctx!Forget
<1>3. \A i \in 1 .. seq : log[i] \in S
  BY <1>1, <1>2, DbIs, ContextIs
<1>4. log' \in Seq(S) /\ Len(log') = seq
  <2>1. seq \in Int /\ 1 \in Int
    BY ContextIs
  <2>2. SubSeq(log, 1, seq) \in Seq(S) /\ Len(SubSeq(log, 1, seq)) = IF 1 <= seq THEN seq - 1 + 1 ELSE 0
    BY <1>3, <2>1, SubSeqProperties
  <2> QED
    BY <1>2, <2>2, ContextIs
<1>5. upTo' \in 0 .. seq
  BY <1>2, <1>1, DbIs, ContextIs DEF LogRange
<1>6. seq <= MaxLog
  BY ContextIs
<1>7. run' \in BOOLEAN
  BY <1>2 DEF LogRange
<1> QED
  BY <1>1, <1>4, <1>5, <1>6, <1>7, LogIsInRange

LEMMA ProposalStays ==
  ASSUME ProposalRange, UNCHANGED <<old, oldUpTo, proposal, asked, proposals, sums, raced>>,
         refused' \in BOOLEAN
  PROVE  ProposalRange'
BY DEF ProposalRange

LEMMA ProposeInRange ==
  ASSUME ContextInv, ProposalRange, NEW c \in Ctx!Compactors, Ctx!Propose(c)
  PROVE  ProposalRange'
<1>1. ProposalsAre /\ UNCHANGED <<old, oldUpTo, asked, sums, raced, refused>>
      /\ proposals' = proposals + 1 /\ proposals < MaxProposals /\ proposals \in Nat
  BY DEF ContextInv, ProposalsAre, Ctx!Propose, Ctx!MayPropose
<1> PICK k : k = Ctx!Candidates(Ctx!Uncompacted, run)
  OBVIOUS
<1>2. old \in Seq(Roles) /\ oldUpTo \in 0 .. Len(old) /\ Len(old) \in Nat
  BY DbIs DEF ProposalRange
<1>3. Ctx!Uncompacted \in Seq(Roles) /\ Len(Ctx!Uncompacted) = Len(old) - oldUpTo
  <2>1. \A i \in oldUpTo + 1 .. Len(old) : old[i] \in Roles
    BY <1>2, DbIs
  <2>2. oldUpTo + 1 \in Int /\ Len(old) \in Int
    BY <1>2
  <2>3. /\ SubSeq(old, oldUpTo + 1, Len(old)) \in Seq(Roles)
        /\ Len(SubSeq(old, oldUpTo + 1, Len(old))) =
             IF oldUpTo + 1 <= Len(old) THEN Len(old) - (oldUpTo + 1) + 1 ELSE 0
    BY <2>1, <2>2, SubSeqProperties
  <2> QED
    BY <1>2, <2>3 DEF Ctx!Uncompacted
<1>4. k \in 0 .. Len(old) - oldUpTo /\ k > 0
  BY <1>3, CandidatesAre DEF Ctx!Propose
<1> PICK p : p = Proposal("summing", proposals', oldUpTo + 1, oldUpTo + k, "none")
  OBVIOUS
<1>5. proposal' = [proposal EXCEPT ![c] = p]
  BY DEF Ctx!Propose, Proposal
<1>6. p.pc = "summing" /\ p.from = oldUpTo + 1 /\ p.to = oldUpTo + k
  BY DEF Proposal
<1>7. proposal'[c] = p /\ \A d \in Ctx!Compactors : d # c => proposal'[d] = proposal[d]
  BY <1>1, <1>5 DEF ProposalsAre
<1>8. {p.from, p.to} \subseteq 1 .. Len(old) /\ p.from <= p.to
  BY <1>2, <1>4, <1>6
<1>9. 1 .. proposals \subseteq 1 .. proposals' /\ proposals' <= MaxProposals
  BY <1>1, ContextIs
<1> QED
  BY <1>1, <1>2, <1>6, <1>7, <1>8, <1>9 DEF ProposalRange, Staged

\* A proposal goes on over the same messages, or is over.
LEMMA GoesInRange ==
  ASSUME ContextInv, ProposalRange, NEW c \in Ctx!Compactors, proposal[c].pc # "idle",
         NEW p, Staged(p),
         p.pc = "idle" \/ (p.from = proposal[c].from /\ p.to = proposal[c].to),
         proposal' = [proposal EXCEPT ![c] = p], asked' \subseteq asked \cup {c},
         old' = old, proposals' = proposals, refused' = refused, oldUpTo' \in {oldUpTo, proposal[c].to},
         raced' \subseteq raced \cup {proposal[c].n}, \A s \in sums' : s.from <= s.to
  PROVE  ProposalRange'
<1>1. ProposalsAre /\ proposal[c].n \in 1 .. proposals
  BY DEF ContextInv, Numbered
<1>2. proposal'[c] = p /\ \A d \in Ctx!Compactors : d # c => proposal'[d] = proposal[d]
  BY <1>1 DEF ProposalsAre
<1>3. {proposal[c].from, proposal[c].to} \subseteq 1 .. Len(old) /\ proposal[c].from <= proposal[c].to
  BY DEF ProposalRange
<1>4. oldUpTo' \in 0 .. Len(old)
  BY <1>3 DEF ProposalRange
<1> QED
  BY <1>1, <1>2, <1>3, <1>4 DEF ProposalRange

LEMMA AnswersInRange ==
  ASSUME ContextInv, ProposalRange, NEW c \in Ctx!Compactors,
         \/ Ctx!Summed(c) \/ Ctx!Elapse(c) \/ \E v \in {"approve", "reject"} : Ctx!Respond(c, v)
  PROVE  ProposalRange'
<1>1. /\ UNCHANGED <<old, oldUpTo, proposals, sums, refused>>
      /\ raced' \subseteq raced \cup {proposal[c].n} /\ asked' \subseteq asked \cup {c}
  BY DEF Ctx!Summed, Ctx!Elapse, Ctx!Respond
<1>2. ProposalsAre /\ \A s \in sums' : s.from <= s.to
  BY <1>1 DEF ContextInv, ProposalRange
<1>3. proposal[c].pc # "idle"
  BY DEF Ctx!Summed, Ctx!Elapse, Ctx!Respond, ContextInv, AskedWait
<1> DEFINE AnsweredBy(v, p) ==
             /\ proposal' = [proposal EXCEPT ![c] = p]
             /\ \/ \E w \in {"asking", "elapsed"} : p = [proposal[c] EXCEPT !.pc = w]
                \/ p = Ctx!NoProposal \/ p = proposal[c]
                \/ p = [proposal[c] EXCEPT !.pc = "told", !.verdict = v]
<1>7. PICK v \in {"approve", "reject"} : \E p : AnsweredBy(v, p)
  <2>1. CASE Ctx!Summed(c)
    <3>1. \/ proposal' = [proposal EXCEPT ![c] = [proposal[c] EXCEPT !.pc = "asking"]]
          \/ proposal' = [proposal EXCEPT ![c] = Ctx!NoProposal]
      BY <2>1 DEF Ctx!Summed
    <3> QED
      BY <3>1
  <2>2. CASE Ctx!Elapse(c)
    <3>1. proposal' = [proposal EXCEPT ![c] = [proposal[c] EXCEPT !.pc = "elapsed"]]
      BY <2>2 DEF Ctx!Elapse
    <3> QED
      BY <3>1
  <2>3. ASSUME NEW w \in {"approve", "reject"}, Ctx!Respond(c, w)
        PROVE  \/ proposal' = [proposal EXCEPT ![c] = proposal[c]]
               \/ proposal' = [proposal EXCEPT ![c] = [proposal[c] EXCEPT !.pc = "told", !.verdict = w]]
    <3>1. proposal = [proposal EXCEPT ![c] = proposal[c]]
      BY <1>2 DEF ProposalsAre
    <3>2. \/ proposal' = proposal
          \/ proposal' = [proposal EXCEPT ![c].pc = "told", ![c].verdict = w]
      BY <2>3 DEF Ctx!Respond
    <3>3. CASE proposal' = [proposal EXCEPT ![c].pc = "told", ![c].verdict = w]
      BY <1>2, <3>3 DEF ProposalsAre
    <3> QED
      BY <3>1, <3>2, <3>3
  <2> QED
    BY <2>1, <2>2, <2>3
<1>4. PICK p : AnsweredBy(v, p)
  BY <1>7
<1>5. /\ Staged(p)
      /\ p.pc = "idle" \/ (p.from = proposal[c].from /\ p.to = proposal[c].to)
  <2> PICK q : q = proposal[c]
    OBVIOUS
  <2>1. q = Proposal(q.pc, q.n, q.from, q.to, q.verdict)
    BY <1>2 DEF ProposalsAre, Whole
  <2>2. Staged(q)
    BY DEF ProposalRange
  <2>3. CASE p = [q EXCEPT !.pc = "told", !.verdict = v]
    <3>1. Whole(q)
      BY <1>2 DEF ProposalsAre
    <3>2. p = Proposal("told", q.n, q.from, q.to, v)
      BY <2>3, <3>1, ToldIs
    <3> QED
      BY <3>2 DEF Proposal, Staged
  <2>4. ASSUME NEW w \in {"asking", "elapsed"}, p = [q EXCEPT !.pc = w]
        PROVE  p.pc = w /\ p.from = q.from /\ p.to = q.to
    BY <2>1, <2>4 DEF Proposal
  <2> QED
    BY <1>4, <2>2, <2>3, <2>4 DEF Ctx!NoProposal, Staged
<1>6. /\ proposal' = [proposal EXCEPT ![c] = p] /\ oldUpTo' \in {oldUpTo, proposal[c].to}
      /\ raced' \subseteq raced \cup {proposal[c].n} /\ asked' \subseteq asked \cup {c}
      /\ old' = old /\ proposals' = proposals /\ refused' = refused
  BY <1>1, <1>4
<1> QED
  BY <1>1, <1>2, <1>3, <1>5, <1>6, GoesInRange

LEMMA ConcludeInRange ==
  ASSUME ContextInv, ProposalRange, NEW c \in Ctx!Compactors, Ctx!Conclude(c)
  PROVE  ProposalRange'
<1>1. /\ proposal[c].pc \in {"elapsed", "told"} /\ asked' = asked \ {c}
      /\ UNCHANGED <<old, proposals, raced, refused>>
      /\ proposal' = [proposal EXCEPT ![c] = Ctx!NoProposal]
      /\ \/ /\ sums' = sums \cup {[n |-> proposal[c].n, from |-> proposal[c].from,
                                   to |-> proposal[c].to]}
            /\ oldUpTo' = Ctx!Max({oldUpTo, proposal[c].to})
         \/ UNCHANGED <<sums, oldUpTo>>
  BY DEF Ctx!Conclude
<1>2. /\ {proposal[c].from, proposal[c].to} \subseteq 1 .. Len(old) /\ proposal[c].from <= proposal[c].to
      /\ Len(old) \in Nat /\ oldUpTo \in 0 .. Len(old) /\ \A s \in sums : s.from <= s.to
  BY <1>1, DbIs DEF ProposalRange
<1>3. Ctx!Max({oldUpTo, proposal[c].to}) \in {oldUpTo, proposal[c].to}
  <2>1. {oldUpTo, proposal[c].to} \subseteq 0 .. Len(old)
    BY <1>2
  <2> QED
    BY <1>2, <2>1, MaxIs
<1>4. \A s \in sums' : s.from <= s.to
  BY <1>1, <1>2
<1> PICK p : p = Ctx!NoProposal
  OBVIOUS
<1>5. /\ Staged(p)
      /\ p.pc = "idle" \/ (p.from = proposal[c].from /\ p.to = proposal[c].to)
  BY DEF Ctx!NoProposal, Staged
<1>6. /\ oldUpTo' \in {oldUpTo, proposal[c].to} /\ proposal[c].pc # "idle"
      /\ asked' \subseteq asked \cup {c} /\ raced' \subseteq raced \cup {proposal[c].n}
      /\ proposal' = [proposal EXCEPT ![c] = p]
      /\ old' = old /\ proposals' = proposals /\ refused' = refused
  BY <1>1, <1>3
<1> QED
  BY <1>4, <1>5, <1>6, GoesInRange

LEMMA ContextStaysInRange ==
  ASSUME ContextInv, ContextRange, Ctx!Next
  PROVE  ContextRange'
<1>1. LogRange /\ ProposalRange /\ run \in BOOLEAN /\ refused \in BOOLEAN
  BY DEF ContextRange, LogRange, ProposalRange
<1>2. CASE Ctx!SendMessage
  <2>1. PICK image \in BOOLEAN : Ctx!Append1(Ctx!User(image))
    BY <1>2 DEF Ctx!SendMessage
  <2>2. RoleIs(Ctx!User(image))
    BY DEF Ctx!User, Roles, RoleIs
  <2>3. LogRange'
    BY <1>1, <1>2, <2>1, <2>2, LogGrows DEF Ctx!SendMessage
  <2> QED
    BY <1>1, <1>2, <2>3, ProposalStays DEF Ctx!SendMessage, Ctx!compaction, ContextRange
<1>3. ASSUME NEW n \in 0 .. MaxCalls, Ctx!Reply(n)
      PROVE  ContextRange'
  <2>1. RoleIs(Ctx!Assistant(n))
    BY DEF Ctx!Assistant, Roles, RoleIs
  <2>2. LogRange'
    BY <1>1, <1>3, <2>1, LogGrows DEF Ctx!Reply
  <2> QED
    BY <1>1, <1>3, <2>2, ProposalStays DEF Ctx!Reply, Ctx!compaction, ContextRange
<1>4. CASE Ctx!StoreResult
  <2>1. PICK kind \in Ctx!Kinds : Ctx!Append1(Ctx!Tool(Ctx!Answering, Ctx!Min(Ctx!Missing), kind))
    BY <1>4 DEF Ctx!StoreResult
  <2>2. RoleIs(Ctx!Tool(Ctx!Answering, Ctx!Min(Ctx!Missing), kind))
    BY DEF Ctx!Tool, Roles, RoleIs
  <2>3. LogRange'
    BY <1>1, <1>4, <2>1, <2>2, LogGrows DEF Ctx!StoreResult
  <2> QED
    BY <1>1, <1>4, <2>3, ProposalStays DEF Ctx!StoreResult, Ctx!compaction, ContextRange
<1>5. CASE Ctx!RunEnds \/ Ctx!Retry
  <2>1. UNCHANGED <<log, upTo, Ctx!compaction>> /\ run' \in BOOLEAN
    BY <1>5 DEF Ctx!RunEnds, Ctx!Retry
  <2>2. LogRange'
    BY <1>1, <2>1 DEF LogRange
  <2> QED
    BY <1>1, <2>1, <2>2, ProposalStays DEF Ctx!compaction, ContextRange
<1>6. ASSUME NEW u \in DOMAIN log, Ctx!Revert(u)
      PROVE  ContextRange'
  BY <1>1, <1>6, LogMarked, ProposalStays DEF Ctx!Revert, Ctx!compaction, ContextRange
<1>7. ASSUME NEW seq \in 0 .. MaxLog, Ctx!DeleteAfter(seq)
      PROVE  ContextRange'
  BY <1>1, <1>7, LogCut, ProposalStays DEF Ctx!DeleteAfter, Ctx!compaction, ContextRange
<1>8. ASSUME NEW c \in Ctx!Compactors,
             \/ Ctx!Propose(c) \/ Ctx!ProposeRefused(c) \/ Ctx!Summed(c) \/ Ctx!Elapse(c)
             \/ Ctx!Conclude(c) \/ \E v \in {"approve", "reject"} : Ctx!Respond(c, v)
      PROVE  ContextRange'
  <2>1. UNCHANGED <<log, upTo, run>>
    BY <1>8 DEF Ctx!Propose, Ctx!ProposeRefused, Ctx!Summed, Ctx!Elapse, Ctx!Conclude, Ctx!Respond
  <2>2. LogRange'
    BY <1>1, <2>1 DEF LogRange
  <2>3. CASE Ctx!ProposeRefused(c)
    BY <1>1, <2>2, <2>3, ProposalStays DEF Ctx!ProposeRefused, ContextRange
  <2> QED
    BY <1>1, <1>8, <2>2, <2>3, ProposeInRange, AnswersInRange, ConcludeInRange DEF ContextRange
<1> QED
  BY <1>2, <1>3, <1>4, <1>5, <1>6, <1>7, <1>8 DEF Ctx!Next

LEMMA ContextBeginsInRange ==
  ASSUME Ctx!Init
  PROVE  ContextRange
<1>1. old \in Seq(Roles)
  <2>1. old = << >> \/ old = <<"user", "assistant">>
    BY DEF Ctx!Init
  <2>2. "user" \in Roles /\ "assistant" \in Roles
    BY DEF Roles
  <2>3. << >> \in Seq(Roles) /\ <<"user", "assistant">> \in Seq(Roles)
    BY <2>2
  <2> QED
    BY <2>1, <2>3
<1>2. ProposalRange
  <2>1. /\ oldUpTo = 0 /\ proposals = 0 /\ sums = {} /\ asked = {} /\ raced = {}
        /\ refused = FALSE /\ \A c \in Ctx!Compactors : proposal[c].pc = "idle"
    BY DEF Ctx!Init, Ctx!NoProposal
  <2>2. oldUpTo \in 0 .. Len(old) /\ proposals <= MaxProposals
    BY <1>1, <2>1, LenProperties, ContextIs
  <2> QED
    BY <1>1, <2>1, <2>2, ContextIs DEF ProposalRange, Staged
<1> QED
  BY <1>2, LogBeginsInRange DEF ContextRange

LEMMA ContextTypes ==
  ASSUME ContextInv, ContextRange
  PROVE  Ctx!TypeOK
<1>1. ProposalsAre /\ Numbered /\ LogRange /\ ProposalRange
  BY DEF ContextInv, ContextRange
<1>2. \A i \in DOMAIN log : log[i].role \in Roles
  BY <1>1, DbIs DEF LogRange, RoleIs
<1>3. proposals \in 0 .. MaxProposals /\ 1 .. proposals \subseteq 1 .. MaxProposals
  BY <1>1, ContextIs DEF ProposalsAre, ProposalRange
<1>4. \A s \in sums : s.n \in 1 .. MaxProposals /\ s.from <= s.to
  BY <1>1, <1>3 DEF Numbered, ProposalRange
<1> QED
  BY <1>1, <1>2, <1>3, <1>4 DEF Ctx!TypeOK, LogRange, ProposalRange, Staged, Numbered, Roles


LEMMA TriesAre ==
  /\ MaxTries \in Nat \ {0} /\ MaxMsgs \in Nat /\ MaxChunks \in Nat /\ MaxCards \in Nat
  /\ None \notin Nat
BY PartsAssumption DEF PartsAssumption, View!RunViewAssumption

\* What a task sends is in range.
LEMMA SendsInRange ==
  ASSUME PipeIn, NEW S, Sends(S), \A e \in S : EventRange(e)
  PROVE  PipeIn'
<1> SUFFICES ASSUME NEW i \in DOMAIN pipe'
             PROVE  EventRange(pipe'[i])
  BY DEF PipeIn, EventRange
<1>1. CASE i \in DOMAIN pipe
  BY <1>1 DEF Sends, PipeIn
<1>2. CASE i \notin DOMAIN pipe
  BY <1>2 DEF Sends
<1> QED
  BY <1>1, <1>2

LEMMA EmitInRange ==
  ASSUME ViewTyped, PipeIn, NEW k \in Kinds, NEW m \in Nat \cup {None}, NEW x \in EventData,
         View!Emit(<<View!Event(k, m, x)>>),
         k = "delta" => m \in View!Msgs /\ x \in Piece, k = "approval" => x \in View!Cards
  PROVE  PipeIn'
<1> PICK e : e = View!Event(k, m, x)
  OBVIOUS
<1>1. e \in EventRec /\ EventRange(e)
  BY EventIs DEF EventRange
<1>2. Sends({e})
  BY <1>1, SendsOne DEF ViewTyped
<1> QED
  BY <1>1, <1>2, SendsInRange

LEMMA RunSentInRange ==
  ASSUME ViewTyped, PipeIn, NEW b \in BOOLEAN, View!Emit(<<View!Event("run", None, b)>>)
  PROVE  PipeIn'
<1>1. "run" \in Kinds /\ b \in EventData /\ None \in Nat \cup {None}
  BY DEF Kinds, EventData
<1> QED
  BY <1>1, EmitInRange

LEMMA FinalSentInRange ==
  ASSUME ViewTyped, PipeIn, NEW r \in TaskRec, View!Final(r)
  PROVE  PipeIn'
<1>1. "final" \in Kinds /\ r.text \in EventData /\ r.msg \in Nat \cup {None}
  BY DEF Kinds, EventData, TaskRec
<1>2. View!Emit(<<View!Event("final", r.msg, r.text)>>)
  BY DEF View!Final
<1> QED
  BY <1>1, <1>2, EmitInRange

\* What a task makes of the snapshot is in range.
LEMMA SnapOpsInRange ==
  ASSUME NEW s \in SnapRec, SnapIn(s), NEW m \in View!Msgs, NEW c \in View!Cards, NEW d
  PROVE  /\ SnapIn(View!StartRun(s)) /\ SnapIn(View!FinishRun(s)) /\ SnapIn(View!FinishStep(s))
         /\ SnapIn(View!TransitionToStep(s, m)) /\ SnapIn(View!AppendContentDelta(s, m, d))
         /\ SnapIn(View!UpsertToolEvent(s, m)) /\ SnapIn(View!SetPendingApproval(s, c))
<1>1. SnapIn(View!StartRun(s)) /\ SnapIn(View!FinishRun(s))
  BY DEF SnapIn, CardRange, View!StartRun, View!FinishRun, View!Fresh
<1>2. SnapIn(View!FinishStep(s))
  BY DEF SnapIn, SnapRec, View!FinishStep
<1>3. SnapIn(View!TransitionToStep(s, m))
  BY DEF SnapIn, SnapRec, View!TransitionToStep
<1>4. SnapIn(View!AppendContentDelta(s, m, d))
  <2> PICK t : t = View!AppendContentDelta(s, m, d)
    OBVIOUS
  <2>1. t.msg = m /\ t.tools = s.tools /\ t.card = s.card
    BY DEF SnapRec, View!AppendContentDelta
  <2> QED
    BY <2>1 DEF SnapIn
<1>5. SnapIn(View!UpsertToolEvent(s, m))
  BY DEF SnapIn, SnapRec, View!UpsertToolEvent
<1>6. SnapIn(View!SetPendingApproval(s, c))
  BY DEF SnapIn, SnapRec, CardRange, View!SetPendingApproval
<1> QED
  BY <1>1, <1>2, <1>3, <1>4, <1>5, <1>6

LEMMA SnapEndsInRange ==
  ASSUME NEW s \in SnapRec, SnapIn(s), NEW m
  PROVE  /\ SnapIn(View!StartRun(s)) /\ SnapIn(View!FinishRun(s)) /\ SnapIn(View!FinishStep(s))
         /\ SnapIn(View!RemoveToolEvent(s, m))
<1>1. SnapIn(View!StartRun(s)) /\ SnapIn(View!FinishRun(s))
  BY DEF SnapIn, CardRange, View!StartRun, View!FinishRun, View!Fresh
<1>2. SnapIn(View!FinishStep(s))
  BY DEF SnapIn, SnapRec, View!FinishStep
<1>3. SnapIn(View!RemoveToolEvent(s, m))
  BY DEF SnapIn, SnapRec, View!RemoveToolEvent
<1> QED
  BY <1>1, <1>2, <1>3

LEMMA TaskIn ==
  ASSUME ViewTyped, TasksIn, NEW r, View!Task(r)
  PROVE  r \in TaskRec /\ TaskRange(r) /\ r.msg \in Nat \cup {None}
BY DEF ViewTyped, TasksIn, View!Task, TaskRec

LEMMA TaskGoes ==
  ASSUME NEW r \in TaskRec, TaskRange(r), NEW p \in View!Pcs, p \in AboutOne => r.pc \in AboutOne
  PROVE  TaskRange([r EXCEPT !.pc = p])
BY DEF TaskRec, TaskRange, View!TaskOK

LEMMA TaskInRange ==
  ASSUME ViewTyped, ViewRange, NEW r, View!Task(r), NEW q, TaskRange(q), View!Becomes(r, q),
         View!TaskOnly, loose' \subseteq View!Msgs, SnapIn(snap'), PipeIn'
  PROVE  ViewRange'
<1>1. TasksIn'
  BY DEF ViewRange, TasksIn, View!Becomes, TaskRange, View!TaskOK
<1>2. WindowIn'
  BY DEF ViewRange, WindowIn, CardRange, View!TaskOnly, View!window
<1> QED
  BY <1>1, <1>2 DEF ViewRange, SnapIn, CardRange

LEMMA BeginInRange ==
  ASSUME ViewTyped, ViewRange, NEW r, View!Task(r), View!BeginStep(r)
  PROVE  ViewRange'
<1>1. PICK m : /\ m = Len(db) + 1 /\ snap' = View!TransitionToStep(snap, m)
               /\ View!Emit(<<View!Event("step", m, None)>>)
               /\ View!Becomes(r, [r EXCEPT !.pc = "stream", !.msg = m, !.try = 1,
                                            !.text = << >>, !.n = 0])
  BY DEF View!BeginStep
<1>2. m \in View!Msgs /\ m \in Nat
  <2>1. Len(db) \in Nat /\ Len(db) < MaxMsgs
    BY DbIs DEF ViewTyped, View!BeginStep
  <2> QED
    BY <1>1, <2>1, TriesAre DEF View!Msgs
<1>3. r \in TaskRec /\ TaskRange(r) /\ TasksIn /\ PipeIn /\ WindowIn /\ SnapIn(snap) /\ snap \in SnapRec
  BY TaskIn DEF ViewRange, ViewTyped
<1> PICK q : q = [r EXCEPT !.pc = "stream", !.msg = m, !.try = 1, !.text = << >>, !.n = 0]
  OBVIOUS
<1>4. TaskRange(q)
  <2>1. q.pc = "stream" /\ q.msg = m /\ q.try = 1 /\ q.n = 0 /\ q.card = r.card
    BY <1>3 DEF TaskRec
  <2>2. 1 \in 1 .. MaxTries /\ 0 \in 0 .. MaxChunks /\ "stream" \in View!Pcs
    BY TriesAre DEF View!Pcs
  <2> QED
    BY <1>2, <1>3, <2>1, <2>2 DEF TaskRange, View!TaskOK
<1>5. PipeIn'
  <2>1. "step" \in Kinds /\ m \in Nat \cup {None} /\ None \in EventData
    BY <1>2 DEF Kinds, EventData
  <2> QED
    BY <1>1, <1>3, <2>1, EmitInRange
<1>6. SnapIn(snap')
  BY <1>1, <1>2, <1>3 DEF SnapIn, SnapRec, View!TransitionToStep
<1>7. View!TaskOnly /\ loose' \subseteq View!Msgs /\ View!Becomes(r, q)
  BY <1>1, <1>3 DEF View!BeginStep, WindowIn
<1> QED
  BY <1>4, <1>5, <1>6, <1>7, TaskInRange

LEMMA DeltaInRange ==
  ASSUME ViewTyped, ViewRange, NEW r, View!Task(r), View!Delta(r)
  PROVE  ViewRange'
<1>1. PICK d : /\ d = <<r.try, r.n + 1>> /\ snap' = View!AppendContentDelta(snap, r.msg, d)
               /\ View!Emit(<<View!Event("delta", r.msg, d)>>)
               /\ View!Becomes(r, [r EXCEPT !.n = @ + 1, !.text = Append(@, d)])
  BY DEF View!Delta
<1>2. /\ r \in TaskRec /\ TaskRange(r) /\ TasksIn /\ PipeIn /\ WindowIn /\ SnapIn(snap)
      /\ snap \in SnapRec /\ r.pc = "stream" /\ r.n < MaxChunks /\ r.n \in 0 .. MaxChunks
  BY TaskIn DEF ViewRange, ViewTyped, TaskRange, View!TaskOK, View!Delta
<1>3. r.msg \in View!Msgs /\ r.msg \in Nat
  BY <1>2, TriesAre DEF TaskRange, AboutOne, View!Msgs
<1> PICK w : w = Append(r.text, d)
  OBVIOUS
<1> PICK k : k = r.n + 1
  OBVIOUS
<1> PICK q : q = [r EXCEPT !.n = k, !.text = w]
  OBVIOUS
<1>4. TaskRange(q)
  <2>1. q.pc = r.pc /\ q.msg = r.msg /\ q.try = r.try /\ q.n = k /\ q.card = r.card
    BY <1>2 DEF TaskRec
  <2>2. k \in 0 .. MaxChunks
    BY <1>2, TriesAre
  <2> QED
    BY <1>2, <2>1, <2>2 DEF TaskRange, View!TaskOK
<1>5. PipeIn'
  <2>1. d \in Piece
    BY <1>1, <1>2, PieceIs DEF TaskRec
  <2>2. "delta" \in Kinds /\ d \in EventData
    BY <2>1 DEF Kinds, EventData
  <2> QED
    BY <1>1, <1>2, <1>3, <2>1, <2>2, EmitInRange
<1>6. SnapIn(snap')
  <2>1. snap'.msg = r.msg /\ snap'.tools = snap.tools /\ snap'.card = snap.card
    BY <1>1, <1>2 DEF SnapRec, View!AppendContentDelta
  <2> QED
    BY <1>2, <1>3, <2>1 DEF SnapIn
<1>7. View!TaskOnly /\ loose' \subseteq View!Msgs /\ View!Becomes(r, q)
  BY <1>1, <1>2 DEF View!Delta, WindowIn
<1> QED
  BY <1>4, <1>5, <1>6, <1>7, TaskInRange

LEMMA RetryInRange ==
  ASSUME ViewTyped, ViewRange, NEW r, View!Task(r), View!Retry(r)
  PROVE  ViewRange'
<1>1. /\ r \in TaskRec /\ TaskRange(r) /\ TasksIn /\ PipeIn /\ WindowIn /\ SnapIn(snap)
      /\ r.pc = "stream" /\ r.try < MaxTries /\ r.try \in 1 .. MaxTries
  BY TaskIn DEF ViewRange, TaskRange, View!TaskOK, View!Retry
<1>2. r.msg \in View!Msgs /\ r.msg \in Nat
  BY <1>1, TriesAre DEF TaskRange, AboutOne, View!Msgs
<1> PICK k : k = r.try + 1
  OBVIOUS
<1> PICK q : q = [r EXCEPT !.try = k, !.text = << >>, !.n = 0]
  OBVIOUS
<1>3. TaskRange(q)
  <2>1. q.pc = r.pc /\ q.msg = r.msg /\ q.try = k /\ q.n = 0 /\ q.card = r.card
    BY <1>1 DEF TaskRec
  <2>2. k \in 1 .. MaxTries /\ 0 \in 0 .. MaxChunks
    BY <1>1, TriesAre
  <2> QED
    BY <1>1, <2>1, <2>2 DEF TaskRange, View!TaskOK
<1>4. PipeIn'
  <2>1. "reset" \in Kinds /\ None \in EventData
    BY DEF Kinds, EventData
  <2>2. View!Emit(<<View!Event("reset", r.msg, None)>>)
    BY DEF View!Retry
  <2> QED
    BY <1>1, <1>2, <2>1, <2>2, EmitInRange
<1>5. View!TaskOnly /\ loose' \subseteq View!Msgs /\ View!Becomes(r, q) /\ snap' = snap
  BY <1>1, <1>2 DEF View!Retry, WindowIn
<1> QED
  BY <1>1, <1>3, <1>4, <1>5, TaskInRange


LEMMA CardInRange ==
  ASSUME ViewTyped, counts.card < MaxCards
  PROVE  counts.card + 1 \in View!Cards /\ counts.card + 1 \in Nat
BY TriesAre DEF ViewTyped, View!Cards

LEMMA AskInRange ==
  ASSUME ViewTyped, ViewRange, NEW r, View!Task(r), View!Ask(r)
  PROVE  ViewRange'
<1>1. PICK c : /\ c = counts.card + 1
               /\ snap' = View!SetPendingApproval(View!UpsertToolEvent(snap, r.msg), c)
               /\ View!Emit(<<View!Event("approval", None, c)>>)
               /\ View!Becomes(r, [r EXCEPT !.pc = "waits", !.card = c])
  BY DEF View!Ask
<1>2. c \in View!Cards /\ c \in Nat
  BY <1>1, CardInRange DEF View!Ask
<1>3. /\ r \in TaskRec /\ TaskRange(r) /\ TasksIn /\ PipeIn /\ WindowIn /\ SnapIn(snap)
      /\ snap \in SnapRec /\ r.pc = "call"
  BY TaskIn DEF ViewRange, ViewTyped, View!Ask
<1>4. r.msg \in View!Msgs /\ r.msg \in Nat
  BY <1>3, TriesAre DEF TaskRange, AboutOne, View!Msgs
<1> PICK q : q = [r EXCEPT !.pc = "waits", !.card = c]
  OBVIOUS
<1>5. TaskRange(q)
  <2>1. q.pc = "waits" /\ q.msg = r.msg /\ q.try = r.try /\ q.n = r.n /\ q.card = c
    BY <1>3 DEF TaskRec
  <2>2. "waits" \in View!Pcs
    BY DEF View!Pcs
  <2> QED
    BY <1>2, <1>3, <1>4, <2>1, <2>2 DEF TaskRange, View!TaskOK
<1>6. PipeIn'
  <2>1. "approval" \in Kinds /\ c \in EventData /\ None \in Nat \cup {None}
    BY <1>2 DEF Kinds, EventData
  <2> QED
    BY <1>1, <1>2, <1>3, <2>1, EmitInRange
<1>7. SnapIn(snap')
  <2> PICK s : s = View!UpsertToolEvent(snap, r.msg)
    OBVIOUS
  <2>1. s \in SnapRec
    BY <1>3, <1>4, SnapOps
  <2>2. SnapIn(s)
    BY <1>3, <1>4, <1>2, SnapOpsInRange
  <2> QED
    BY <1>1, <1>2, <1>4, <2>1, <2>2, SnapOpsInRange
<1>8. View!TaskOnly /\ loose' \subseteq View!Msgs /\ View!Becomes(r, q)
  BY <1>1, <1>3 DEF View!Ask, WindowIn
<1> QED
  BY <1>5, <1>6, <1>7, <1>8, TaskInRange

LEMMA AskStepsInRange ==
  ASSUME ViewTyped, ViewRange, NEW r, View!Task(r), View!AskSteps(r)
  PROVE  ViewRange'
<1>1. PICK c : /\ c = counts.card + 1
               /\ snap' = View!SetPendingApproval(View!FinishRun(snap), c)
               /\ View!Emit(<<View!Event("run", None, FALSE), View!Event("approval", None, c)>>)
               /\ View!Becomes(r, [r EXCEPT !.pc = "waitsSteps", !.card = c])
  BY DEF View!AskSteps
<1>2. c \in View!Cards /\ c \in Nat
  BY <1>1, CardInRange DEF View!AskSteps
<1>3. /\ r \in TaskRec /\ TaskRange(r) /\ TasksIn /\ PipeIn /\ WindowIn /\ SnapIn(snap)
      /\ snap \in SnapRec /\ pipe \in Seq(EventRec)
  BY TaskIn DEF ViewRange, ViewTyped
<1> PICK q : q = [r EXCEPT !.pc = "waitsSteps", !.card = c]
  OBVIOUS
<1>4. TaskRange(q)
  <2>1. q.pc = "waitsSteps" /\ q.msg = r.msg /\ q.try = r.try /\ q.n = r.n /\ q.card = c
    BY <1>3 DEF TaskRec
  <2>2. "waitsSteps" \in View!Pcs /\ "waitsSteps" \notin AboutOne
    BY DEF View!Pcs, AboutOne
  <2> QED
    BY <1>2, <1>3, <2>1, <2>2 DEF TaskRange, View!TaskOK
<1>5. PipeIn'
  <2> PICK e, f : e = View!Event("run", None, FALSE) /\ f = View!Event("approval", None, c)
    OBVIOUS
  <2>1. e \in EventRec /\ f \in EventRec /\ e.kind = "run" /\ f.kind = "approval" /\ f.data = c
    BY <1>2, RunEvent, CardEvent
  <2>2. Sends({e, f})
    BY <1>1, <1>3, <2>1, SendsTwo
  <2>3. EventRange(e) /\ EventRange(f)
    BY <1>2, <2>1 DEF EventRange
  <2> QED
    BY <1>3, <2>2, <2>3, SendsInRange
<1>6. SnapIn(snap')
  <2> PICK s : s = View!FinishRun(snap)
    OBVIOUS
  <2>1. s = View!Fresh
    BY DEF View!FinishRun
  <2>2. s.msg = None /\ s.tools = {} /\ DOMAIN s = {"running", "msg", "text", "tools", "card"}
    BY <2>1 DEF View!Fresh
  <2>3. snap'.msg = None /\ snap'.tools = {} /\ snap'.card = c
    BY <1>1, <2>2 DEF View!SetPendingApproval
  <2> QED
    BY <1>2, <2>3 DEF SnapIn, CardRange
<1>7. View!TaskOnly /\ loose' \subseteq View!Msgs /\ View!Becomes(r, q)
  BY <1>1, <1>3 DEF View!AskSteps, WindowIn
<1> QED
  BY <1>4, <1>5, <1>6, <1>7, TaskInRange

\* The other steps of a task move its pc, or end it.
LEMMA GoesOnInRange ==
  ASSUME ViewTyped, ViewRange, NEW r, View!Task(r),
         View!Fails(r) \/ View!Deliver(r) \/ View!SopFails(r) \/ View!CallTool(r)
           \/ View!Execute(r) \/ View!Finish(r) \/ View!Granted(r) \/ View!End(r)
  PROVE  ViewRange'
<1>1. /\ r \in TaskRec /\ TaskRange(r) /\ TasksIn /\ PipeIn /\ WindowIn /\ SnapIn(snap)
      /\ snap \in SnapRec
  BY TaskIn DEF ViewRange, ViewTyped
<1>2. View!TaskOnly /\ loose' \subseteq View!Msgs
  <2>1. CASE View!SopFails(r)
    <3>1. r.msg \in View!Msgs
      BY <1>1, <2>1 DEF View!SopFails, TaskRange, AboutOne
    <3> QED
      BY <1>1, <2>1, <3>1 DEF View!SopFails, WindowIn
  <2> QED
    BY <1>1, <2>1 DEF View!Fails, View!Deliver, View!CallTool, View!Execute, View!Finish,
      View!Granted, View!End, WindowIn
<1>3. PICK q : View!Becomes(r, q) /\ TaskRange(q)
  <2> USE DEF View!Pcs, AboutOne
  <2>1. CASE View!Fails(r) \/ View!Deliver(r)
    <3>1. View!Becomes(r, [r EXCEPT !.pc = "end"])
      BY <2>1 DEF View!Fails, View!Deliver
    <3> QED
      BY <1>1, <3>1, TaskGoes
  <2>2. CASE View!CallTool(r)
    <3>1. View!Becomes(r, [r EXCEPT !.pc = "call"]) /\ r.pc = "stream"
      BY <2>2 DEF View!CallTool
    <3> QED
      BY <1>1, <3>1, TaskGoes
  <2>3. CASE View!Execute(r)
    <3>1. View!Becomes(r, [r EXCEPT !.pc = "runs"]) /\ r.pc \in {"call", "allowed"}
      BY <2>3 DEF View!Execute
    <3> QED
      BY <1>1, <3>1, TaskGoes
  <2>4. CASE View!Finish(r)
    <3>1. PICK p \in {"next", "end"} : View!Becomes(r, [r EXCEPT !.pc = p])
      BY <2>4 DEF View!Finish
    <3> QED
      BY <1>1, <3>1, TaskGoes
  <2>5. CASE View!Granted(r)
    <3>1. View!Becomes(r, [r EXCEPT !.pc = "next"])
      BY <2>5 DEF View!Granted
    <3> QED
      BY <1>1, <3>1, TaskGoes
  <2>6. CASE View!End(r)
    <3>1. View!Becomes(r, View!IdleRun)
      BY <2>6 DEF View!End
    <3>2. TaskRange(View!IdleRun)
      BY TriesAre DEF TaskRange, View!TaskOK, View!IdleRun
    <3> QED
      BY <3>1, <3>2
  <2>7. CASE View!SopFails(r)
    <3>1. PICK p \in {"next", "end"} : View!Becomes(r, [r EXCEPT !.pc = p])
      BY <2>7 DEF View!SopFails
    <3> QED
      BY <1>1, <3>1, TaskGoes
  <2> QED
    BY <2>1, <2>2, <2>3, <2>4, <2>5, <2>6, <2>7
<1>4. PipeIn'
  <2>1. CASE View!Fails(r) \/ View!SopFails(r) \/ View!Execute(r) \/ View!Finish(r)
    <3>1. pipe' = pipe
      BY <2>1 DEF View!Fails, View!SopFails, View!Execute, View!Finish
    <3> QED
      BY <1>1, <3>1 DEF PipeIn, EventRange
  <2>2. CASE View!Deliver(r) \/ View!CallTool(r)
    BY <1>1, <2>2, FinalSentInRange DEF View!Deliver, View!CallTool
  <2>3. CASE View!Granted(r) \/ View!End(r)
    BY <1>1, <2>3, RunSentInRange DEF View!Granted, View!End
  <2> QED
    BY <2>1, <2>2, <2>3
<1>5. SnapIn(snap')
  <2>1. CASE View!Fails(r) \/ View!SopFails(r) \/ View!CallTool(r)
    BY <1>1, <2>1 DEF View!Fails, View!SopFails, View!CallTool
  <2>2. CASE View!Deliver(r) \/ View!Finish(r) \/ View!Granted(r) \/ View!End(r)
    BY <1>1, <2>2, SnapEndsInRange DEF View!Deliver, View!Finish, View!Granted, View!End
  <2>3. CASE View!Execute(r)
    <3>1. r.msg \in View!Msgs
      BY <1>1, <2>3 DEF View!Execute, TaskRange, AboutOne
    <3>2. snap' = View!UpsertToolEvent(snap, r.msg)
      BY <2>3 DEF View!Execute
    <3> QED
      BY <1>1, <3>1, <3>2 DEF SnapIn, SnapRec, View!UpsertToolEvent
  <2> QED
    BY <2>1, <2>2, <2>3
<1> QED
  BY <1>2, <1>3, <1>4, <1>5, TaskInRange


LEMMA BackendInRange ==
  ASSUME ViewTyped, ViewRange,
         View!Start \/ View!Stop \/ View!Drop \/ View!TellStopped
  PROVE  ViewRange'
<1>1. TasksIn /\ PipeIn /\ WindowIn /\ SnapIn(snap) /\ snap \in SnapRec /\ run \in TaskRec
  BY DEF ViewRange, ViewTyped
<1>2. CASE View!Start
  <2>1. /\ run' = [View!IdleRun EXCEPT !.pc = "next"] /\ snap' = View!StartRun(snap)
        /\ View!Emit(<<View!Event("run", None, TRUE)>>) /\ tail' = tail
        /\ View!TaskOnly /\ loose' = loose
    BY <1>2 DEF View!Start
  <2>2. TaskRange([View!IdleRun EXCEPT !.pc = "next"])
    BY TriesAre DEF TaskRange, View!TaskOK, View!IdleRun, View!Pcs, AboutOne
  <2>3. TasksIn'
    BY <1>1, <2>1, <2>2 DEF TasksIn, TaskRange, View!TaskOK
  <2>4. PipeIn'
    BY <1>1, <2>1, RunSentInRange
  <2>5. SnapIn(snap')
    BY <1>1, <2>1, SnapEndsInRange
  <2>6. WindowIn'
    BY <1>1, <2>1 DEF WindowIn, CardRange, View!TaskOnly, View!window
  <2> QED
    BY <2>3, <2>4, <2>5, <2>6 DEF ViewRange, SnapIn, CardRange
<1>3. CASE View!Stop
  <2>1. /\ run' = View!IdleRun /\ tail' = [run EXCEPT !.tail = TRUE] /\ halting' = TRUE
        /\ UNCHANGED <<snap, pipe, here, resp, shown, buf, loose>>
    BY <1>3 DEF View!Stop, View!window
  <2>2. TaskRange(View!IdleRun)
    BY TriesAre DEF TaskRange, View!TaskOK, View!IdleRun, View!Pcs, AboutOne
  <2>3. TaskRange(tail')
    <3> PICK t : t = [run EXCEPT !.tail = TRUE]
      OBVIOUS
    <3>1. t.pc = run.pc /\ t.msg = run.msg /\ t.try = run.try /\ t.n = run.n /\ t.card = run.card
      BY <1>1 DEF TaskRec
    <3> QED
      BY <1>1, <2>1, <3>1 DEF TasksIn, TaskRange, View!TaskOK
  <2>4. TasksIn'
    BY <2>1, <2>2, <2>3 DEF TasksIn, TaskRange, View!TaskOK
  <2>5. WindowIn'
    BY <1>1, <2>1 DEF WindowIn, CardRange
  <2> QED
    BY <1>1, <2>1, <2>4, <2>5 DEF ViewRange, SnapIn, CardRange, PipeIn, EventRange
<1>4. CASE View!Drop
  <2>1. tail' = None /\ UNCHANGED <<run, snap, pipe, halting, here, resp, shown, buf, loose>>
    BY <1>4 DEF View!Drop, View!window
  <2>2. TasksIn'
    BY <1>1, <2>1 DEF TasksIn, TaskRange, View!TaskOK
  <2>3. WindowIn'
    BY <1>1, <2>1 DEF WindowIn, CardRange
  <2> QED
    BY <1>1, <2>1, <2>2, <2>3 DEF ViewRange, SnapIn, CardRange, PipeIn, EventRange
<1>5. CASE View!TellStopped
  <2>1. /\ halting' = FALSE /\ snap' = View!FinishRun(snap)
        /\ View!Emit(<<View!Event("run", None, FALSE)>>)
        /\ UNCHANGED <<run, tail, here, resp, shown, buf, loose>>
    BY <1>5 DEF View!TellStopped, View!window
  <2>2. TasksIn' /\ WindowIn'
    BY <1>1, <2>1 DEF TasksIn, TaskRange, View!TaskOK, WindowIn, CardRange
  <2>3. PipeIn'
    BY <1>1, <2>1, RunSentInRange
  <2>4. SnapIn(snap')
    BY <1>1, <2>1, SnapEndsInRange
  <2> QED
    BY <2>2, <2>3, <2>4 DEF ViewRange, SnapIn, CardRange
<1> QED
  BY <1>2, <1>3, <1>4, <1>5

LEMMA UserInRange ==
  ASSUME ViewTyped, ViewRange, View!Respond \/ View!Release \/ View!TimeOut
  PROVE  ViewRange'
<1>1. TasksIn /\ PipeIn /\ WindowIn /\ SnapIn(snap) /\ run \in TaskRec /\ TaskRange(run)
  BY DEF ViewRange, ViewTyped, TasksIn
<1>2. TaskRange(run')
  <2>1. ASSUME NEW yes \in BOOLEAN, View!Answer(yes), run.pc \in {"waits", "waitsSteps"}
        PROVE  TaskRange(run')
    <3> USE DEF View!Pcs, AboutOne
    <3>1. CASE run.pc = "waits"
      <4>1. PICK p \in {"allowed", "denied"} : run' = [run EXCEPT !.pc = p]
        BY <2>1, <3>1 DEF View!Answer
      <4> QED
        BY <1>1, <3>1, <4>1, TaskGoes
    <3>2. CASE run.pc = "waitsSteps"
      <4>1. PICK p \in {"granted", "end"} : run' = [run EXCEPT !.pc = p]
        BY <2>1, <3>2 DEF View!Answer
      <4> QED
        BY <1>1, <4>1, TaskGoes
    <3> QED
      BY <2>1, <3>1, <3>2
  <2>2. CASE run' = run
    BY <1>1, <2>2
  <2>3. CASE View!Respond
    BY <2>1, <2>2, <2>3 DEF View!Respond, View!Waiting
  <2>4. CASE View!Release
    <3>1. PICK yes \in BOOLEAN : yes = (run.pc = "waits")
      OBVIOUS
    <3>2. View!Answer(yes) /\ run.pc \in {"waits", "waitsSteps"}
      BY <2>4, <3>1 DEF View!Release
    <3> QED
      BY <2>1, <3>2
  <2>5. CASE View!TimeOut
    <3>1. View!Answer(FALSE) /\ run.pc \in {"waits", "waitsSteps"}
      BY <2>5 DEF View!TimeOut
    <3> QED
      BY <2>1, <3>1
  <2> QED
    BY <2>3, <2>4, <2>5
<1>3. UNCHANGED <<tail, halting, snap, here, resp, buf, loose>> /\ shown' \subseteq shown
  BY DEF View!Respond, View!Release, View!TimeOut, View!window
<1>4. TasksIn' /\ WindowIn'
  BY <1>1, <1>2, <1>3 DEF TasksIn, TaskRange, View!TaskOK, WindowIn, CardRange
<1>5. PipeIn'
  <2>1. CASE View!Respond \/ View!TimeOut
    <3>1. pipe' = pipe
      BY <2>1 DEF View!Respond, View!TimeOut
    <3> QED
      BY <1>1, <3>1 DEF PipeIn, EventRange
  <2>2. CASE View!Release
    <3>1. "resolved" \in Kinds /\ run.card \in EventData /\ None \in Nat \cup {None}
      BY <1>1 DEF Kinds, EventData, TaskRec
    <3>2. View!Emit(<<View!Event("resolved", None, run.card)>>)
      BY <2>2 DEF View!Release
    <3> QED
      BY <1>1, <3>1, <3>2, EmitInRange
  <2> QED
    BY <2>1, <2>2
<1> QED
  BY <1>1, <1>3, <1>4, <1>5 DEF ViewRange, SnapIn, CardRange

\* Of a window's steps.
LEMMA WindowInRange ==
  ASSUME ViewRange, View!WindowOnly, PipeIn', here' \in BOOLEAN,
         resp'.at = "read" => CardRange(resp'.what.card), shown' \subseteq View!Cards,
         buf' # None => buf'.msg \in View!Msgs /\ buf'.text \in Words \ {<< >>}
  PROVE  ViewRange'
<1>1. UNCHANGED <<run, tail, snap, halting, loose>> /\ TasksIn /\ WindowIn /\ SnapIn(snap)
  BY DEF View!WindowOnly, View!backend, ViewRange
<1>2. TasksIn'
  BY <1>1 DEF TasksIn, TaskRange, View!TaskOK
<1>3. WindowIn'
  BY <1>1 DEF WindowIn, CardRange
<1> QED
  BY <1>1, <1>2, <1>3 DEF ViewRange, SnapIn, CardRange

LEMMA TakenInRange ==
  ASSUME ViewInv, PipeIn, NEW kind, View!Next1(kind)
  PROVE  PipeIn' /\ EventRange(View!E) /\ View!E.kind = kind /\ View!E \in EventRec
<1>1. Takes(1) /\ 1 \in DOMAIN pipe /\ pipe[1] = View!E /\ View!E \in EventRec /\ View!E.kind = kind
  BY TakesOne
<1>2. EventRange(View!E)
  BY <1>1 DEF PipeIn
<1>3. PipeIn'
  <2> SUFFICES ASSUME NEW i \in DOMAIN pipe'
               PROVE  EventRange(pipe'[i])
    BY DEF PipeIn, EventRange
  <2> QED
    BY <1>1 DEF Takes, PipeIn
<1> QED
  BY <1>1, <1>2, <1>3

LEMMA VisitInRange ==
  ASSUME ViewInv, ViewRange,
         \/ View!Leave \/ View!Select \/ View!ReadPage \/ View!ApplyPage \/ View!GetSnapshot
         \/ View!Sync \/ View!Flush
  PROVE  ViewRange'
<1>1. WindowIn /\ PipeIn /\ SnapIn(snap)
  BY DEF ViewRange
<1>2. View!WindowOnly /\ pipe' = pipe
  BY DEF View!Leave, View!Select, View!ReadPage, View!ApplyPage, View!GetSnapshot, View!Sync,
    View!Flush
<1>3. PipeIn'
  BY <1>1, <1>2 DEF PipeIn, EventRange
<1>4. here' \in BOOLEAN /\ (buf' = buf \/ buf' = None)
  BY <1>1 DEF WindowIn, View!Leave, View!Select, View!ReadPage, View!ApplyPage,
    View!GetSnapshot, View!Sync, View!Flush
<1>5. shown' \subseteq View!Cards
  <2>1. CASE View!Sync
    <3>1. /\ resp.at = "read" /\ CardRange(resp.what.card)
          /\ shown' = IF resp.what.card = None THEN shown ELSE shown \cup {resp.what.card}
      BY <1>1, <2>1 DEF View!Sync, WindowIn
    <3> QED
      BY <1>1, <3>1 DEF CardRange, WindowIn
  <2>2. CASE shown' = shown
    BY <1>1, <2>2 DEF WindowIn
  <2> QED
    BY <2>1, <2>2 DEF View!Leave, View!Select, View!ReadPage, View!ApplyPage, View!GetSnapshot,
      View!Flush
<1>6. resp'.at = "read" => CardRange(resp'.what.card)
  <2>1. CASE View!GetSnapshot
    <3>1. resp' = View!Read(snap)
      BY <2>1 DEF View!GetSnapshot
    <3>2. resp'.what = snap
      BY <3>1 DEF View!Read
    <3> QED
      BY <1>1, <3>2 DEF SnapIn
  <2>2. CASE View!ApplyPage \/ View!Sync
    <3>1. resp' = View!Asked \/ resp' = View!NoAnswer
      BY <2>2 DEF View!ApplyPage, View!Sync
    <3> QED
      BY <3>1 DEF View!Asked, View!NoAnswer
  <2>3. CASE resp' = resp
    BY <1>1, <2>3 DEF WindowIn
  <2> QED
    BY <2>1, <2>2, <2>3 DEF View!Leave, View!Select, View!ReadPage, View!Flush
<1> QED
  BY <1>1, <1>2, <1>3, <1>4, <1>5, <1>6, WindowInRange DEF WindowIn

LEMMA ArrivesInRange ==
  ASSUME ViewInv, ViewRange,
         \/ View!OnDelta \/ View!OnStep \/ View!OnReset \/ View!OnFinal \/ View!OnApproval
         \/ View!OnRun
  PROVE  ViewRange'
<1>1. WindowIn /\ PipeIn
  BY DEF ViewRange
<1>2. /\ View!WindowOnly /\ UNCHANGED <<here, resp>>
      /\ \E kind \in Kinds : View!Next1(kind)
  BY DEF View!OnDelta, View!OnStep, View!OnReset, View!OnFinal, View!OnApproval, View!OnRun,
    View!window, Kinds
<1>3. PipeIn' /\ EventRange(View!E) /\ View!E \in EventRec
  BY <1>1, <1>2, TakenInRange
<1>4. shown' \subseteq View!Cards
  <2>1. CASE View!OnApproval
    <3>1. \/ View!E.kind = "approval" /\ shown' = shown \cup {View!E.data}
          \/ shown' = shown \ {View!E.data}
      BY <2>1 DEF View!OnApproval, View!Next1, View!E
    <3> QED
      BY <1>1, <1>3, <3>1 DEF EventRange, WindowIn
  <2>2. CASE shown' = shown
    BY <1>1, <2>2 DEF WindowIn
  <2> QED
    BY <2>1, <2>2 DEF View!OnDelta, View!OnStep, View!OnReset, View!OnFinal, View!OnRun, View!window
<1>5. buf' # None => buf'.msg \in View!Msgs /\ buf'.text \in Words \ {<< >>}
  <2>1. CASE View!OnDelta /\ here
    <3>1. View!E.kind = "delta"
      BY <2>1, <1>1, TakenInRange DEF View!OnDelta
    <3>2. View!E.msg \in View!Msgs /\ View!E.data \in Piece
      BY <1>3, <3>1 DEF EventRange
    <3>3. PICK t \in Words : buf' = [msg |-> View!E.msg, text |-> t \o <<View!E.data>>]
      <4>1. CASE buf # None /\ buf.msg = View!E.msg
        BY <1>1, <2>1, <4>1 DEF View!OnDelta, WindowIn
      <4>2. CASE ~(buf # None /\ buf.msg = View!E.msg)
        BY <2>1, <4>2, NoWords DEF View!OnDelta
      <4> QED
        BY <4>1, <4>2
    <3>4. t \o <<View!E.data>> = Append(t, View!E.data)
      BY <3>2, AppendIsConcat DEF Words
    <3>5. Append(t, View!E.data) \in Words \ {<< >>}
      BY <3>2, AppendProperties DEF Words
    <3>6. buf'.msg = View!E.msg /\ buf'.text = Append(t, View!E.data)
      BY <3>3, <3>4
    <3> QED
      BY <3>2, <3>5, <3>6
  <2>2. CASE buf' = buf \/ buf' = None
    BY <1>1, <2>2 DEF WindowIn
  <2> QED
    BY <2>1, <2>2 DEF View!OnDelta, View!OnStep, View!OnReset, View!OnFinal, View!OnApproval,
      View!OnRun, View!window, View!BufAtFinal
<1> QED
  BY <1>1, <1>2, <1>3, <1>4, <1>5, WindowInRange DEF WindowIn

LEMMA ViewStaysInRange ==
  ASSUME ViewInv, ViewRange, View!Next
  PROVE  ViewRange'
<1>1. ViewTyped
  BY DEF ViewInv
<1>2. ASSUME NEW r, View!TaskStep(r)
      PROVE  ViewRange'
  <2>1. View!Task(r)
    BY <1>2 DEF View!TaskStep
  <2> QED
    BY <1>1, <1>2, <2>1, BeginInRange, DeltaInRange, RetryInRange, AskInRange, AskStepsInRange,
       GoesOnInRange DEF View!TaskStep
<1>3. CASE View!TaskStep(run) \/ View!TaskStep(tail)
  BY <1>2, <1>3
<1>4. CASE View!Start \/ View!Stop \/ View!Drop \/ View!TellStopped
  BY <1>1, <1>4, BackendInRange
<1>5. CASE View!Respond \/ View!Release \/ View!TimeOut
  BY <1>1, <1>5, UserInRange
<1>6. CASE \/ View!Leave \/ View!Select \/ View!ReadPage \/ View!ApplyPage \/ View!GetSnapshot
           \/ View!Sync \/ View!Flush
  BY <1>6, VisitInRange
<1>7. CASE \/ View!OnDelta \/ View!OnStep \/ View!OnReset \/ View!OnFinal \/ View!OnApproval
           \/ View!OnRun
  BY <1>7, ArrivesInRange
<1> QED
  BY <1>3, <1>4, <1>5, <1>6, <1>7 DEF View!Next

LEMMA ViewBeginsInRange ==
  ASSUME View!Init
  PROVE  ViewRange
<1>1. TaskRange(View!IdleRun)
  BY TriesAre DEF TaskRange, View!TaskOK, View!IdleRun, View!Pcs, AboutOne
<1>2. TasksIn
  BY <1>1 DEF View!Init, TasksIn
<1>3. SnapIn(snap)
  BY DEF View!Init, View!Fresh, SnapIn, CardRange
<1>4. PipeIn
  <2>1. pipe = << >> /\ DOMAIN << >> = {}
    BY EmptySeq DEF View!Init
  <2> QED
    BY <2>1 DEF PipeIn
<1>5. WindowIn
  BY DEF View!Init, View!NoAnswer, WindowIn
<1> QED
  BY <1>2, <1>3, <1>4, <1>5 DEF ViewRange

LEMMA ViewTypes ==
  ASSUME ViewInv, ViewRange
  PROVE  View!TypeOK
<1>1. ViewTyped /\ TasksIn /\ SnapIn(snap) /\ WindowIn
  BY DEF ViewInv, ViewRange
<1> QED
  BY <1>1 DEF ViewTyped, TasksIn, TaskRange, SnapIn, CardRange, WindowIn, View!TypeOK

(***************************************************************************)
(* Beside the other components of the session.                             *)
(***************************************************************************)
Inv ==
  /\ part = "space" => SpaceInv
  /\ part = "context" => ContextInv
  /\ part = "view" => ViewInv
allVars == <<part, here, run, snap, ofSpace, ofContext, ofView>>

LEMMA InvInit ==
  ASSUME PartsAssumption, PartsInit
  PROVE  Inv
BY SpaceInit, ContextInit, ViewInit DEF PartsInit, Inv

LEMMA SpaceStays ==
  ASSUME SpaceInv, UNCHANGED <<snap, run, ofSpace>>
  PROVE  SpaceInv'
<1>1. UNCHANGED <<src, root, copy, sha, snap, pending, run, at, mem, merge, edits, builds,
                  yours, risked, halfway, crossed>>
  BY DEF ofSpace
<1>2. EditsInv /\ SpaceTyped /\ BasesInv /\ RootInv
  BY DEF SpaceInv, EditsInv
<1>3. SpaceTyped'
  BY <1>1, <1>2 DEF SpaceTyped
<1> QED
  BY <1>1, <1>2, <1>3, EditsStay, BasesStay, RootStays, SpaceIs

LEMMA ViewStays ==
  ASSUME ViewInv, UNCHANGED <<run, snap, ofView>>
  PROVE  ViewInv'
<1>1. UNCHANGED <<run, tail, snap, db, pipe, page, resp, view, buf, shown, loose, counts>>
  BY DEF ofView
<1>2. TypedNow
  BY <1>1 DEF ViewInv, ViewTyped, TypedNow
<1>3. StreamNow
  BY <1>1 DEF ViewInv, StreamInv, StreamNow
<1>4. SnapNow
  BY <1>1 DEF ViewInv, SnapInv, SnapNow
<1>5. ArrivalNow
  BY <1>1 DEF ViewInv, ArrivalInv, ArrivalNow
<1>6. CardNow
  BY <1>1 DEF ViewInv, CardInv, CardNow
<1> QED
  BY <1>2, <1>3, <1>4, <1>5, <1>6, ViewIsNow DEF ViewNow

LEMMA InvNext ==
  ASSUME PartsAssumption, Inv, [PartsNext]_allVars
  PROVE  Inv'
<1>1. CASE part = "space" /\ Next /\ UNCHANGED part
  BY <1>1, SpaceNext DEF Inv
<1>2. CASE part = "view" /\ View!Next /\ UNCHANGED part
  BY <1>2, ViewNext DEF Inv
<1>3. CASE part = "context" /\ Ctx!Next /\ UNCHANGED part
  BY <1>3, ContextNext DEF Inv
<1>4. CASE UNCHANGED allVars
  BY <1>4, SpaceStays, ContextStays, ViewStays DEF Inv, allVars, ofContext, ofProposals
<1> QED
  BY <1>1, <1>2, <1>3, <1>4, Zenon DEF PartsNext

Ranges ==
  /\ part = "space" => SpaceRange
  /\ part = "context" => ContextRange
  /\ part = "view" => ViewRange

LEMMA RangesInit ==
  ASSUME PartsAssumption, PartsInit
  PROVE  Ranges
BY SpaceBeginsInRange, ContextBeginsInRange, ViewBeginsInRange DEF PartsInit, Ranges

LEMMA RangesRest ==
  ASSUME Ranges, UNCHANGED allVars
  PROVE  Ranges'
<1>1. UNCHANGED <<part, here, run, snap>>
  BY DEF allVars
<1>2. UNCHANGED <<src, root, copy, sha, pending, at, mem, merge, clears, edits, builds,
                  faults, yours, risked, halfway, crossed>>
  BY DEF allVars, ofSpace
<1>3. UNCHANGED <<log, upTo, old, oldUpTo, proposal, asked, proposals, sums, rejected,
                  raced, refused>>
  BY DEF allVars, ofContext
<1>4. UNCHANGED <<tail, halting, db, pipe, page, resp, view, buf, shown, loose, counts>>
  BY DEF allVars, ofView
<1>5. SpaceRange => SpaceRange'
  BY <1>1, <1>2 DEF SpaceRange
<1>6. ContextRange => ContextRange'
  BY <1>1, <1>3 DEF ContextRange, LogRange, ProposalRange
<1>7. ViewRange => ViewRange'
  <2>1. TasksIn => TasksIn'
    BY <1>1, <1>4 DEF TasksIn
  <2>2. SnapIn(snap) => SnapIn(snap)'
    BY <1>1 DEF SnapIn, CardRange
  <2>3. PipeIn => PipeIn'
    BY <1>4 DEF PipeIn
  <2>4. WindowIn => WindowIn'
    BY <1>1, <1>4 DEF WindowIn, CardRange
  <2> QED
    BY <2>1, <2>2, <2>3, <2>4 DEF ViewRange
<1> QED
  BY <1>1, <1>5, <1>6, <1>7 DEF Ranges

LEMMA RangesNext ==
  ASSUME PartsAssumption, Inv, Ranges, [PartsNext]_allVars
  PROVE  Ranges'
<1>1. CASE part = "space" /\ Next /\ UNCHANGED part
  BY <1>1, SpaceStaysInRange DEF Inv, Ranges
<1>2. CASE part = "view" /\ View!Next /\ UNCHANGED part
  BY <1>2, ViewStaysInRange DEF Inv, Ranges
<1>3. CASE part = "context" /\ Ctx!Next /\ UNCHANGED part
  BY <1>3, ContextStaysInRange DEF Inv, Ranges
<1>4. CASE UNCHANGED allVars
  BY <1>4, RangesRest
<1> QED
  BY <1>1, <1>2, <1>3, <1>4, Zenon DEF PartsNext

\* Whatever the user, the runs, the merges, the clears and the ends of the
\* program do in whatever order, in any number of projects and threads: a merge
\* loses no edit the user made since the copy, but for those made while the
\* model was asked about that file, those it left out of its answer, and those
\* in a file that could not be read (apply_merge, ai_merge); every copy a run
\* works in has the baseline that the manifest names (ensure_space,
\* git_baseline); and a session marked as merged has its space, until a clear
\* meets a merge (set_session_merge_state, clear_space).
THEOREM WorkKept == PartsSpec => []UsersWorkIsKept
<1>1. Inv => UsersWorkIsKept
  BY SpaceHolds DEF Inv, UsersWorkIsKept
<1> QED
  BY <1>1, PartsAssumption, InvInit, InvNext, PTL DEF PartsSpec, allVars

\* Whoever proposes compactions, however many, and whether the user answers
\* before, while or after the time runs out: a compaction the user rejected is
\* applied only if the time had run out and its request was still listed
\* (propose_and_execute_compaction, respond_compaction).
THEOREM RejectionHolds == PartsSpec => [](part = "context" => Ctx!RejectedIsNotApplied)
<1>1. Inv => (part = "context" => Ctx!RejectedIsNotApplied)
  BY DEF Inv, ContextInv
<1> QED
  BY <1>1, PartsAssumption, InvInit, InvNext, PTL DEF PartsSpec, allVars

\* Whatever number of messages, attempts, requests and events there are, and
\* whenever the window leaves, comes back, and gets its two answers, the run is
\* stopped or its task writes after the stop: the text in SnapshotStore is of
\* one step, its pieces in order and each once (snapshot.rs); when all that was
\* sent has arrived, every finished message whose stream was not begun again,
\* and which no failed check left without its event, reads in the window as in
\* the file (mergeSessionMessages, syncSessionActiveState and the handlers of
\* the events, store.ts); and a
\* window that shows the session shows the request the run waits for, while the
\* session was not stopped.
THEOREM ShownAlways == PartsSpec => []RunIsShown
<1>1. ASSUME PartsAssumption, Inv
      PROVE  RunIsShown
  BY <1>1, ViewShows DEF Inv, RunIsShown
<1> QED
  BY <1>1, PartsAssumption, InvInit, InvNext, PTL DEF PartsSpec, allVars

\* The types of the three components, for every value of the constants: what a
\* compaction is to sum up are messages that are there, from a first to a last,
\* and so is what is summed up (propose_and_execute_compaction,
\* partition_compaction_candidates); no more is compacted than the log has; a
\* merge is at a file of the project or behind the last (merge_space); and what
\* the snapshot, the events and the window hold of a run are messages, pieces
\* and requests there can be (snapshot.rs, store.ts).
THEOREM TypesHold == PartsSpec => []PartsTypeOK
<1>1. ASSUME PartsAssumption, Inv, Ranges
      PROVE  PartsTypeOK
  BY <1>1, SpaceTypes, ContextTypes, ViewTypes DEF Inv, Ranges, PartsTypeOK
<1>2. PartsAssumption /\ PartsInit => Inv /\ Ranges
  BY InvInit, RangesInit
<1>3. PartsAssumption /\ Inv /\ Ranges /\ [PartsNext]_allVars => Inv' /\ Ranges'
  BY InvNext, RangesNext
<1> QED
  BY <1>1, <1>2, <1>3, PartsAssumption, PTL DEF PartsSpec, allVars

(***************************************************************************)
(* The locks. The operations of sessions take their mutexes along one      *)
(* order, hence no set of threads ever blocks itself, however many threads *)
(* and sessions there are.                                                 *)
(***************************************************************************)
\* Sections of ascending rank, all above n.
Increasing(c) ==
  \A i, j \in 1 .. Len(c) : i < j => Rank(c[i]) < Rank(c[j])
Above(n, sections) ==
  \A c \in sections :
    /\ c \in Seq(Lock)
    /\ \A i \in 1 .. Len(c) : Rank(c[i]) > n
    /\ Increasing(c)

\* The ranks of the mutexes.
LEMMA Ranks ==
  /\ \A l \in Lock : Rank(l) \in 1 .. 10
  /\ Rank("approvals") = 1 /\ Rank("db") = 2 /\ Rank("masterKey") = 3
  /\ Rank("handles") = 4 /\ Rank("activeRun") = 5 /\ Rank("abort") = 6
  /\ Rank("dataDir") = 7 /\ Rank("pool") = 8 /\ Rank("cache") = 10
  /\ \A s \in Sessions : Rank(s) = 9
<1>1. \A s \in Sessions : Rank(s) = 9
  BY LocksAssumption DEF Rank, Fields
<1> QED
  BY <1>1 DEF Rank, Lock, Fields

LEMMA OnlyAbove ==
  ASSUME NEW n \in Int, NEW l \in Lock, Rank(l) > n
  PROVE  Above(n, Only(l))
<1>1. <<l>> \in Seq(Lock) /\ Len(<<l>>) = 1 /\ <<l>>[1] = l
  OBVIOUS
<1>2. \A i \in 1 .. Len(<<l>>) : i = 1
  BY <1>1
<1>3. Increasing(<<l>>)
  BY <1>2 DEF Increasing
<1> QED BY <1>1, <1>2, <1>3 DEF Above, Only

\* Nesting sections under a lock of lower rank.
LEMMA UnderAbove ==
  ASSUME NEW n \in Int, NEW l \in Lock, Rank(l) > n,
         NEW sections, Above(Rank(l), sections)
  PROVE  Above(n, Under(l, sections))
<1> SUFFICES ASSUME NEW c \in sections
             PROVE  /\ <<l>> \o c \in Seq(Lock)
                    /\ \A i \in 1 .. Len(<<l>> \o c) : Rank((<<l>> \o c)[i]) > n
                    /\ Increasing(<<l>> \o c)
  BY DEF Above, Under
<1> DEFINE d == <<l>> \o c
<1>1. /\ c \in Seq(Lock) /\ Len(c) \in Nat
      /\ \A i \in 1 .. Len(c) : Rank(c[i]) > Rank(l)
      /\ Increasing(c)
  BY DEF Above
<1>2. /\ d \in Seq(Lock) /\ Len(d) = Len(c) + 1 /\ d[1] = l
      /\ \A i \in 2 .. Len(d) : d[i] = c[i - 1] /\ i - 1 \in 1 .. Len(c)
  BY <1>1
<1>3. \A i \in 1 .. Len(c) : Rank(c[i]) \in Int
  BY <1>1, Ranks
<1>4. Rank(l) \in Int /\ Rank(l) > n
  BY Ranks
<1> HIDE DEF d
<1>5. \A i \in 1 .. Len(d) : Rank(d[i]) > n
  <2> SUFFICES ASSUME NEW i \in 1 .. Len(d) PROVE Rank(d[i]) > n
    OBVIOUS
  <2>1. CASE i = 1
    BY <2>1, <1>2, <1>4
  <2>2. CASE i # 1
    <3>1. d[i] = c[i - 1] /\ i - 1 \in 1 .. Len(c)
      BY <2>2, <1>1, <1>2
    <3> QED BY <3>1, <1>1, <1>3, <1>4
  <2> QED BY <2>1, <2>2
<1>6. Increasing(d)
  <2> SUFFICES ASSUME NEW i \in 1 .. Len(d), NEW j \in 1 .. Len(d), i < j
               PROVE  Rank(d[i]) < Rank(d[j])
    BY DEF Increasing
  <2>1. d[j] = c[j - 1] /\ j - 1 \in 1 .. Len(c)
    BY <1>2, <1>1
  <2>2. CASE i = 1
    BY <2>1, <2>2, <1>1, <1>2, <1>3, <1>4
  <2>3. CASE i # 1
    <3>1. d[i] = c[i - 1] /\ i - 1 \in 1 .. Len(c) /\ i - 1 < j - 1
      BY <2>3, <1>1, <1>2
    <3> QED BY <3>1, <2>1, <1>1 DEF Increasing
  <2> QED BY <2>2, <2>3
<1> QED BY <1>2, <1>5, <1>6 DEF d


LEMMA LowerAbove ==
  ASSUME NEW n \in Int, NEW m \in Int, m <= n, NEW a, Above(n, a)
  PROVE  Above(m, a)
BY Ranks DEF Above

\* with_session_db, around a closure that locks above a connection.
LEMMA SessionAbove ==
  ASSUME NEW s \in Sessions, NEW inner, Above(9, inner)
  PROVE  Above(6, Session(s, inner))
<1>1. s \in Lock /\ "dataDir" \in Lock /\ "pool" \in Lock
  BY DEF Lock, Fields
<1>2. Above(6, Only("dataDir")) /\ Above(6, Only("pool")) /\ Above(6, Only(s))
  BY <1>1, OnlyAbove, Ranks
<1>3. Above(6, Under(s, inner))
  BY <1>1, UnderAbove, Ranks
<1> QED BY <1>2, <1>3 DEF Above, Session

\* The operations of OrderedOps keep the order of Rank.
LEMMA OrderedSections ==
  ASSUME NEW op \in OrderedOps, NEW s \in Sessions
  PROVE  Above(0, Sections(op, s))
<1>1. \A l \in Fields : l \in Lock
  BY DEF Lock
<1>2. \A l \in Fields : Above(0, Only(l))
  BY <1>1, OnlyAbove, Ranks
<1>3. Above(0, IsRunActive) /\ Above(2, IsRunActive)
  <2>1. Above(4, Only("activeRun"))
    BY <1>1, OnlyAbove, Ranks DEF Fields
  <2> QED BY <1>1, <2>1, UnderAbove, Ranks DEF IsRunActive, Fields
<1>4. Above(0, SpawnSessionTask)
  <2>1. Above(4, Only("abort"))
    BY <1>1, OnlyAbove, Ranks DEF Fields
  <2>2. Above(0, Under("handles", Only("abort")))
    BY <1>1, <2>1, UnderAbove, Ranks DEF Fields
  <2> QED BY <1>3, <2>2 DEF Above, SpawnSessionTask
<1>5. Above(9, {})
  BY DEF Above
<1>6. Above(2, Session(s, {})) /\ Above(0, Session(s, {}))
  BY <1>5, SessionAbove, LowerAbove
<1>7. Above(0, Under("db", Only("dataDir")))
  <2>1. Above(2, Only("dataDir"))
    BY <1>1, OnlyAbove, Ranks DEF Fields
  <2> QED BY <1>1, <2>1, UnderAbove, Ranks DEF Fields
<1>8. Above(0, StopSession(s))
  BY <1>2, <1>4, <1>6 DEF Above, StopSession, Fields
<1>9. Above(0, SendMessage(s))
  <2>1. Above(0, Only("db") \cup Under("db", Only("dataDir")) \cup IsRunActive)
    BY <1>2, <1>3, <1>7 DEF Above, Fields
  <2>2. Above(0, Only("db") \cup Under("db", Only("dataDir")) \cup IsRunActive
                   \cup Session(s, {}) \cup Only("cache"))
    BY <2>1, <1>2, <1>6 DEF Above, Fields
  <2> QED BY <2>2, <1>4 DEF Above, SendMessage
<1>10. Above(0, EditAndResend(s))
  BY <1>3, <1>4, <1>6, <1>7 DEF Above, EditAndResend
<1>11. Above(0, DeleteSession(s))
  BY <1>2, <1>7, <1>8 DEF Above, DeleteSession, Fields
<1>12. Above(0, SwitchDataDir)
  <2>1. Above(3, Only("dataDir"))
    BY <1>1, OnlyAbove, Ranks DEF Fields
  <2>2. Above(2, Under("masterKey", Only("dataDir")))
    BY <1>1, <2>1, UnderAbove, Ranks DEF Fields
  <2>3. Above(0, Under("db", Under("masterKey", Only("dataDir"))))
    BY <1>1, <2>2, UnderAbove, Ranks DEF Fields
  <2> QED BY <2>3, <1>2 DEF Above, SwitchDataDir, Fields
<1>13. Above(0, ReadKeys)
  <2>1. Above(2, Only("masterKey"))
    BY <1>1, OnlyAbove, Ranks DEF Fields
  <2> QED BY <1>1, <2>1, UnderAbove, Ranks DEF ReadKeys, Fields
<1>14. Above(0, IntentGate(s))
  <2>1. Above(0, Under("db", Session(s, {})))
    BY <1>1, <1>6, UnderAbove, Ranks DEF Fields
  <2> QED BY <2>1, <1>2 DEF Above, IntentGate, Fields
<1>15. Above(0, ListSubagents)
  BY <1>1, <1>3, UnderAbove, Ranks DEF ListSubagents, Fields
<1>16. Above(0, EmitError(s))
  <2>1. Above(9, Only("cache"))
    BY <1>1, OnlyAbove, Ranks DEF Fields
  <2> QED BY <2>1, SessionAbove, LowerAbove DEF EmitError
<1> QED
  BY <1>9, <1>10, <1>11, <1>12, <1>13, <1>14, <1>15, <1>16
  DEF Sections, OrderedOps

-----------------------------------------------------------------------------
(* The invariant: the section a thread is in ascends.                      *)

Ascending == \A t \in Workers : Increasing(chain[t])
LocksInv == LocksTypeOK /\ Ascending

LEMMA InitInv == LocksInit => LocksInv
BY DEF LocksInit, LocksInv, LocksTypeOK, Ascending, Increasing

LEMMA EnterInv ==
  ASSUME Ops \subseteq OrderedOps, LocksInv,
         NEW t \in Workers, NEW op \in Ops, NEW s \in Sessions, Enter(t, op, s)
  PROVE  LocksInv'
<1>1. PICK c \in Sections(op, s) : chain' = [chain EXCEPT ![t] = c]
  BY DEF Enter
<1>2. c \in Seq(Lock) /\ Increasing(c)
  BY OrderedSections DEF Above
<1>3. chain[t] = <<>> /\ depth' = depth /\ depth[t] = 0
  BY DEF Enter, LocksInv, LocksTypeOK
<1>4. LocksTypeOK'
  BY <1>1, <1>2, <1>3 DEF LocksInv, LocksTypeOK
<1>5. Ascending'
  BY <1>1, <1>2 DEF LocksInv, LocksTypeOK, Ascending
<1> QED BY <1>4, <1>5 DEF LocksInv

LEMMA AcquireInv ==
  ASSUME LocksInv, NEW t \in Workers, Acquire(t)
  PROVE  LocksInv'
BY DEF LocksInv, LocksTypeOK, Ascending, Acquire, Wants

LEMMA ReleaseInv ==
  ASSUME LocksInv, NEW t \in Workers, Release(t)
  PROVE  LocksInv'
<1> DEFINE c == chain[t]
           d == SubSeq(c, 1, depth[t] - 1)
<1>1. c \in Seq(Lock) /\ depth[t] \in Nat \ {0} /\ Len(c) = depth[t] /\ Increasing(c)
  BY DEF LocksInv, LocksTypeOK, Ascending, Release
<1>2. /\ d \in Seq(Lock) /\ Len(d) = depth[t] - 1
      /\ \A i \in 1 .. Len(d) : d[i] = c[i]
  BY <1>1
<1>3. chain' = [chain EXCEPT ![t] = d] /\ depth' = [depth EXCEPT ![t] = depth[t] - 1]
  BY DEF Release
<1> HIDE DEF c, d
<1>4. Increasing(d)
  <2> SUFFICES ASSUME NEW i \in 1 .. Len(d), NEW j \in 1 .. Len(d), i < j
               PROVE  Rank(d[i]) < Rank(d[j])
    BY DEF Increasing
  <2>1. i \in 1 .. Len(c) /\ j \in 1 .. Len(c) /\ d[i] = c[i] /\ d[j] = c[j]
    BY <1>1, <1>2
  <2> QED BY <2>1, <1>1 DEF Increasing
<1>5. LocksTypeOK'
  BY <1>1, <1>2, <1>3 DEF LocksInv, LocksTypeOK
<1>6. Ascending'
  BY <1>3, <1>4 DEF LocksInv, LocksTypeOK, Ascending
<1> QED BY <1>5, <1>6 DEF LocksInv

LEMMA InvAlways ==
  ASSUME Ops \subseteq OrderedOps
  PROVE  LocksSpec => []LocksInv
<1>1. LocksInv /\ [LocksNext]_lockVars => LocksInv'
  <2> SUFFICES ASSUME LocksInv, [LocksNext]_lockVars PROVE LocksInv'
    OBVIOUS
  <2>1. CASE LocksNext
    BY <2>1, EnterInv, AcquireInv, ReleaseInv DEF LocksNext
  <2>2. CASE UNCHANGED lockVars
    BY <2>2 DEF lockVars, LocksInv, LocksTypeOK, Ascending
  <2> QED BY <2>1, <2>2
<1> QED BY InitInv, <1>1, PTL DEF LocksSpec

-----------------------------------------------------------------------------
(* What the invariant says of waiting threads.                             *)

LEMMA InOrder == LocksInv => TakenInOrder
<1> SUFFICES ASSUME LocksInv, NEW t \in Workers, Wants(t), NEW l \in Holds(t)
             PROVE  Rank(l) < Rank(Wanted(t))
  BY DEF TakenInOrder
<1>1. PICK i \in 1 .. depth[t] : l = chain[t][i]
  BY DEF Holds
<1>2. /\ depth[t] \in Nat /\ Len(chain[t]) \in Nat
      /\ i \in 1 .. Len(chain[t]) /\ depth[t] + 1 \in 1 .. Len(chain[t])
      /\ i < depth[t] + 1
  BY DEF LocksInv, LocksTypeOK, Wants
<1> QED BY <1>1, <1>2 DEF LocksInv, Ascending, Increasing, Wanted

LEMMA WantedRank ==
  ASSUME LocksInv, NEW t \in Workers, Wants(t)
  PROVE  Rank(Wanted(t)) \in 1 .. 10
<1>1. Wanted(t) \in Lock
  BY DEF LocksInv, LocksTypeOK, Wants, Wanted
<1> QED BY <1>1, Ranks

\* In a set of threads that block each other nobody waits for a lock of the
\* highest rank: its holder would wait for one of a higher rank.
LEMMA Lower ==
  ASSUME LocksInv, NEW D \in SUBSET Workers, Stuck(D), NEW k \in Int,
         \A t \in D : Rank(Wanted(t)) <= k
  PROVE  \A t \in D : Rank(Wanted(t)) <= k - 1
<1> SUFFICES ASSUME NEW t \in D PROVE Rank(Wanted(t)) <= k - 1
  OBVIOUS
<1>1. PICK u \in D : Wanted(t) \in Holds(u)
  BY DEF Stuck
<1>2. Wants(t) /\ Wants(u)
  BY DEF Stuck
<1>3. Rank(Wanted(t)) < Rank(Wanted(u))
  BY <1>1, <1>2, InOrder DEF TakenInOrder
<1>4. Rank(Wanted(t)) \in Int /\ Rank(Wanted(u)) \in Int
  BY <1>2, WantedRank
<1> QED BY <1>3, <1>4

LEMMA NobodyStuck == LocksInv => NoDeadlock
<1> SUFFICES ASSUME LocksInv, NEW D \in SUBSET Workers, Stuck(D) PROVE D = {}
  BY DEF NoDeadlock
<1> DEFINE AtMost(k) == \A t \in D : Rank(Wanted(t)) <= k
<1>1. \A t \in D : Rank(Wanted(t)) \in 1 .. 10
  BY WantedRank DEF Stuck
<1>2. \A k \in Int : AtMost(k) => AtMost(k - 1)
  BY Lower
<1>3. AtMost(10)
  BY <1>1
<1> HIDE DEF AtMost
<1>4. AtMost(9) /\ AtMost(8) /\ AtMost(7) /\ AtMost(6) /\ AtMost(5)
  BY <1>2, <1>3
<1>5. AtMost(4) /\ AtMost(3) /\ AtMost(2) /\ AtMost(1) /\ AtMost(0)
  BY <1>2, <1>4
<1> QED BY <1>1, <1>5 DEF AtMost

\* Chains are sections of known locks, of which a thread holds a prefix.
THEOREM LocksTypeCorrect == Ops \subseteq OrderedOps => (LocksSpec => []LocksTypeOK)
<1> SUFFICES ASSUME Ops \subseteq OrderedOps PROVE LocksSpec => []LocksTypeOK
  OBVIOUS
<1>1. LocksInv => LocksTypeOK
  BY DEF LocksInv
<1> QED BY InvAlways, <1>1, PTL

\* with_session_db, the commands and the turns take their mutexes in one
\* order, whatever runs at the same time.
THEOREM OrderKept == Ops \subseteq OrderedOps => (LocksSpec => []TakenInOrder)
<1> SUFFICES ASSUME Ops \subseteq OrderedOps PROVE LocksSpec => []TakenInOrder
  OBVIOUS
<1> QED BY InvAlways, InOrder, PTL

\* Without a fork or a search by message, no threads ever block each other,
\* nor a thread itself.
THEOREM DeadlockFree == Ops \subseteq OrderedOps => (LocksSpec => []NoDeadlock)
<1> SUFFICES ASSUME Ops \subseteq OrderedOps PROVE LocksSpec => []NoDeadlock
  OBVIOUS
<1> QED BY InvAlways, NobodyStuck, PTL
=============================================================================
