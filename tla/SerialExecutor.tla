--------------------------- MODULE SerialExecutor ---------------------------
(***************************************************************************)
(* What a session promises about the order of its work: one message is     *)
(* executed at a time; messages typed meanwhile wait in line and are taken *)
(* from its head when nothing is executing; a waiting message may leave    *)
(* the line early (guided into the conversation, or deleted); a message    *)
(* that is not waiting may be started directly, but never on top of the    *)
(* current one.                                                            *)
(***************************************************************************)
EXTENDS Sequences, SequencesExt

CONSTANTS Msgs, NoMsg

VARIABLES waiting, current

Init == waiting = <<>> /\ current = NoMsg

Enqueue(m) == waiting' = Append(waiting, m) /\ UNCHANGED current

Leave == \E i \in DOMAIN waiting :
            waiting' = RemoveAt(waiting, i) /\ UNCHANGED current

StartHead ==
  /\ current = NoMsg /\ waiting # <<>>
  /\ current' = Head(waiting) /\ waiting' = Tail(waiting)

StartDirect(m) ==
  /\ current = NoMsg /\ m \notin ToSet(waiting)
  /\ current' = m /\ UNCHANGED waiting

Finish == current # NoMsg /\ current' = NoMsg /\ UNCHANGED waiting

Next == \/ \E m \in Msgs : Enqueue(m) \/ StartDirect(m)
        \/ Leave \/ StartHead \/ Finish

Spec == Init /\ [][Next]_<<waiting, current>>
=============================================================================
