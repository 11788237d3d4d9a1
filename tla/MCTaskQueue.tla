---------------------------- MODULE MCTaskQueue ----------------------------
(***************************************************************************)
(* A small task queue for TLC.                                             *)
(***************************************************************************)
EXTENDS TaskQueue

\* Every prompt is submitted afresh once.
Once == [p \in Prompt |-> 1]
=============================================================================
