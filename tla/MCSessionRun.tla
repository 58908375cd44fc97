---------------------------- MODULE MCSessionRun ----------------------------
(* Instances of SessionRun for TLC. Every command may start a loop, so there *)
(* are as many loops as commands.                                            *)
EXTENDS SessionRun, TLC

Symmetry == Permutations(Msgs) \cup Permutations(Cmds)
=============================================================================
