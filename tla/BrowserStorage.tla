--------------------------- MODULE BrowserStorage ---------------------------
(***************************************************************************)
(* The logins of browser pages: web storage, saved in files of the         *)
(* workspace, one per site, and restored before a navigation               *)
(* (browser/storage.rs), as session.rs and commands.rs use them.  Cookies  *)
(* are in the same files, without a script, and left out.                  *)
(*                                                                         *)
(* A token stands for what a login leaves.  A page keeps the storage of    *)
(* each site.  restore_storage_state leaves a script with the page that    *)
(* writes the local storage of every document it loads from then on, of    *)
(* whatever site.  The sessions share one workspace; tools of agents and   *)
(* commands of the user work on one page side by side, and an error of the *)
(* browser's protocol is passed over.                                      *)
(***************************************************************************)
EXTENDS Naturals, Sequences, SequencesExt, FiniteSetsExt

CONSTANTS Keys,    \* sessions of the program, each with at most one page
          Sites, Tokens, None,
          Hands,   \* calls of tools and commands that are on their way
          Blank,   \* about:blank
          Torn,    \* a file cut off by a write that has not ended or failed
          MaxScripts  \* bound: on all pages together

Places == Sites \cup {Blank}
Page == [site : Places, local : [Sites -> Tokens \cup {None}], scripts : Seq(Tokens)]
State == [local : Tokens \cup {None}]

BrowserStorageAssumption ==
  /\ Blank \notin Sites /\ None \notin Tokens \cup Places /\ None \notin Page
  /\ Torn # None /\ Torn \notin State /\ None \notin State
  /\ MaxScripts \in Nat

VARIABLES page,   \* of each session, None when it has none
          file,   \* the saved state of each site
          hand,   \* what each call is at
          wanted  \* history: the local storage a navigated page is to have

vars == <<page, file, hand, wanted>>

\* at: the next step. token: what it restores or writes. goes: the restore is
\* the first part of a navigation. sure: its script is the page's last.
Work == [at : {"idle", "inject", "reload", "go", "write", "close", "clear"},
         key : Keys \cup {None}, site : Places, token : Tokens \cup {None},
         goes : BOOLEAN, sure : BOOLEAN]
Task(step, k, s, t) ==
  [at |-> step, key |-> k, site |-> s, token |-> t, goes |-> FALSE, sure |-> FALSE]
Idle == Task("idle", None, Blank, None)

Nothing == [s \in Sites |-> None]
NewPage == [site |-> Blank, local |-> Nothing, scripts |-> << >>]
Open == {k \in Keys : page[k] # None}
At(h, k, step) == hand[h].at = step /\ hand[h].key = k
\* pages a call can still ask the manager for
Held == {k \in Open : \A h \in Hands : ~ At(h, k, "close")}
\* A navigation holds the lock of the page's workspace while it restores; other
\* navigations and a close wait for it, the user's command does not.
Restores(k) ==
  \E h \in Hands : hand[h].goes /\ hand[h].key = k /\ hand[h].at \in {"inject", "reload"}
Scripts == FoldSet(LAMBDA k, n : n + Len(page[k].scripts), 0, Open)

TypeOK ==
  /\ page \in [Keys -> Page \cup {None}] /\ file \in [Sites -> State \cup {None, Torn}]
  /\ hand \in [Hands -> Work] /\ wanted \in [Keys -> Tokens \cup {None}]
  /\ \A h \in Hands : hand[h].at \in {"inject", "reload", "go", "close", "clear"}
                        => hand[h].key \in Open

Init ==
  /\ page = [k \in Keys |-> None] /\ file = [s \in Sites |-> None]
  /\ hand = [h \in Hands |-> Idle] /\ wanted = [k \in Keys |-> None]

----------------------------------------------------------------------------

\* a document of the site is loaded: the scripts run in the order of their making
Loaded(p, s) ==
  [p EXCEPT !.site = s,
            !.local = IF s = Blank \/ p.scripts = << >> THEN p.local
                      ELSE [p.local EXCEPT ![s] = Last(p.scripts)]]

\* a script is run on the document that is there
Injected(p, t) ==
  IF p.site = Blank THEN p ELSE [p EXCEPT !.local[p.site] = t]

AddScript(p, t) == [p EXCEPT !.scripts = Append(@, t)]

\* The page is loaded again, or, from a login page, the saved landing page; or
\* the command is lost.
Reloads(p, s) ==
  {p, Loaded(p, p.site)} \cup (IF p.site = Blank THEN {} ELSE {Loaded(p, s)})

NewPageFor(k) ==
  /\ page[k] = None /\ page' = [page EXCEPT ![k] = NewPage]
  /\ UNCHANGED <<file, hand, wanted>>

\* A call's last step on its page, but for a navigation.
After(w) == IF w.goes THEN [w EXCEPT !.at = "go"] ELSE Idle

Restoring(step, k, s, t, goes, sure) ==
  [at |-> step, key |-> k, site |-> s, token |-> t, goes |-> goes, sure |-> sure]

\* restore_storage_state up to its first script, in BrowserSession::navigate and
\* in the user's command: of a file that is not there or cannot be parsed
\* nothing is restored. A script of another call is no longer the last one.
Restore(h, k, s, goes) ==
  /\ hand[h] = Idle /\ k \in Held /\ Scripts < MaxScripts
  /\ IF goes THEN ~Restores(k) ELSE page[k].site = s
  /\ \/ /\ file[s] \in {None, Torn}
        /\ hand' = [hand EXCEPT ![h] = After(Restoring("idle", k, s, None, goes, FALSE))]
        /\ UNCHANGED page
     \/ /\ file[s] \notin {None, Torn} /\ file[s].local = None
        /\ hand' = [hand EXCEPT ![h] = Restoring("reload", k, s, None, goes, FALSE)]
        /\ UNCHANGED page
     \/ /\ file[s] \notin {None, Torn} /\ file[s].local # None
        /\ \E added \in BOOLEAN :
             /\ page' = IF added THEN [page EXCEPT ![k] = AddScript(@, file[s].local)] ELSE page
             /\ hand' = [g \in Hands |->
                  IF g = h THEN Restoring("inject", k, s, file[s].local, goes, added)
                  ELSE IF added /\ hand[g].key = k THEN [hand[g] EXCEPT !.sure = FALSE]
                  ELSE hand[g]]
  /\ UNCHANGED <<file, wanted>>

Inject(h, k) ==
  /\ At(h, k, "inject")
  /\ \E p \in {page[k], Injected(page[k], hand[h].token)} : page' = [page EXCEPT ![k] = p]
  /\ hand' = [hand EXCEPT ![h].at = "reload"] /\ wanted' = [wanted EXCEPT ![k] = None]
  /\ UNCHANGED file

Reload(h, k) ==
  /\ At(h, k, "reload")
  /\ \E p \in Reloads(page[k], hand[h].site) : page' = [page EXCEPT ![k] = p]
  /\ hand' = [hand EXCEPT ![h] = After(@)] /\ wanted' = [wanted EXCEPT ![k] = None]
  /\ UNCHANGED file

Navigate(h, k) ==
  /\ At(h, k, "go") /\ page' = [page EXCEPT ![k] = Loaded(@, hand[h].site)]
  /\ wanted' = [wanted EXCEPT ![k] = IF hand[h].sure THEN hand[h].token ELSE None]
  /\ hand' = [hand EXCEPT ![h] = Idle]
  /\ UNCHANGED file

\* The navigation fails, or the call is dropped with its run.
GiveUp(h) ==
  /\ hand[h].at \in {"inject", "reload", "go"} /\ hand' = [hand EXCEPT ![h] = Idle]
  /\ UNCHANGED <<page, file, wanted>>

\* The user, or a script of the site, logs in or out; a link is followed.
LogIn(k, t) ==
  /\ k \in Open /\ page[k].site # Blank
  /\ page' = [page EXCEPT ![k].local[page[k].site] = t]
  /\ wanted' = [wanted EXCEPT ![k] = None]
  /\ UNCHANGED <<file, hand>>

Follow(k, s) ==
  /\ k \in Open /\ page[k].site \notin {Blank, s}
  /\ page' = [page EXCEPT ![k] = Loaded(@, s)] /\ wanted' = [wanted EXCEPT ![k] = None]
  /\ UNCHANGED <<file, hand>>

\* save_storage_state up to the file that is made empty: a page that does not
\* answer is saved without web storage. One without a site has a file nothing
\* is restored from. BrowserSession::close saves first.
Save(h, k, step) ==
  /\ hand[h] = Idle /\ k \in Held /\ page[k].site # Blank
  /\ step = "close" => ~Restores(k)
  /\ \E t \in {page[k].local[page[k].site], None} :
       hand' = [hand EXCEPT ![h] = Task(step, IF step = "close" THEN k ELSE None,
                                        page[k].site, t)]
  /\ file' = [file EXCEPT ![page[k].site] = Torn]
  /\ UNCHANGED <<page, wanted>>

\* what was on its way to the page fails with it
Gone(k, h) ==
  /\ page' = [page EXCEPT ![k] = None] /\ wanted' = [wanted EXCEPT ![k] = None]
  /\ hand' = [g \in Hands |-> IF g = h \/ hand[g].key = k THEN Idle ELSE hand[g]]

\* The write ends or fails, one that overlaps another may leave a mixture; a
\* file that was removed meanwhile stays so.
Write(h) ==
  LET s == hand[h].site
  IN /\ hand[h].at \in {"write", "close"}
     /\ IF file[s] = None THEN UNCHANGED file
        ELSE \E f \in {[local |-> hand[h].token], Torn} : file' = [file EXCEPT ![s] = f]
     /\ \/ hand[h].at = "write" /\ hand' = [hand EXCEPT ![h] = Idle] /\ UNCHANGED <<page, wanted>>
        \/ hand[h].at = "close" /\ Gone(hand[h].key, h)

\* A page that has no site or does not answer is closed.
CloseUnsaved(h, k) ==
  /\ hand[h] = Idle /\ k \in Held /\ ~Restores(k) /\ Gone(k, h)
  /\ UNCHANGED file

\* clear_browser_storage_state: the file, all files without a page or with one
\* that does not answer; then the web storage of the document, and a reload.
Clear(h) ==
  /\ hand[h] = Idle
  /\ \/ \E k \in Held : /\ page[k].site # Blank
                        /\ file' = [file EXCEPT ![page[k].site] = None]
                        /\ hand' = [hand EXCEPT ![h] = Task("clear", k, Blank, None)]
     \/ file' = [s \in Sites |-> None] /\ UNCHANGED hand
  /\ UNCHANGED <<page, wanted>>

ClearPage(h, k) ==
  /\ At(h, k, "clear")
  /\ LET bare == IF page[k].site = Blank THEN page[k]
                 ELSE [page[k] EXCEPT !.local[page[k].site] = None]
     IN \E p \in {page[k], bare} : \E q \in {p, Loaded(p, p.site)} :
          page' = [page EXCEPT ![k] = q]
  /\ hand' = [hand EXCEPT ![h] = Idle] /\ wanted' = [wanted EXCEPT ![k] = None]
  /\ UNCHANGED file

----------------------------------------------------------------------------

Next ==
  \/ \E k \in Keys :
       \/ NewPageFor(k)
       \/ \E t \in Tokens \cup {None} : LogIn(k, t)
       \/ \E s \in Sites : Follow(k, s)
  \/ \E h \in Hands : GiveUp(h) \/ Write(h) \/ Clear(h)
  \/ \E h \in Hands, k \in Keys :
       \/ Inject(h, k) \/ Reload(h, k) \/ Navigate(h, k) \/ CloseUnsaved(h, k) \/ ClearPage(h, k)
       \/ \E s \in Sites, goes \in BOOLEAN : Restore(h, k, s, goes)
       \/ \E step \in {"write", "close"} : Save(h, k, step)

Spec == Init /\ [][Next]_vars

----------------------------------------------------------------------------

\* A page that was navigated to a site has the web storage that was read from
\* the site's file before, whatever was restored into the page earlier and
\* whatever other pages save and clear, until it is logged in or out, restored,
\* reloaded or sent elsewhere again. But for a navigation whose script the
\* browser did not take, one for which the file was not there or half written,
\* and one whose page got a script of another call in between: the two are not
\* kept apart (session.rs:495, commands.rs:4734).
NavigatedIsRestored ==
  \A k \in Open : wanted[k] # None => page[k].local[page[k].site] = wanted[k]
=============================================================================
