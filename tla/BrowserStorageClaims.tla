------------------------ MODULE BrowserStorageClaims ------------------------
(* What the comments say of clearing the login of a page.                    *)
EXTENDS BrowserStorage

\* The command clears the running page "thoroughly ... so that nothing is left
\* in memory" (commands.rs:4816): once it has run on the page, the page holds no
\* web storage of its site.
ClearedIsEmpty ==
  [][\A h \in Hands, k \in Keys : ClearPage(h, k) /\ page[k].site # Blank =>
       page'[k].local[page'[k].site] = None]_vars
=============================================================================
