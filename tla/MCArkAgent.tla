----------------------------- MODULE MCArkAgent -----------------------------
(***************************************************************************)
(* A small agent for TLC.                                                  *)
(***************************************************************************)
EXTENDS ArkAgent, TLC

\* A step that stays below a limit of 2, and one that reaches it.
OneAndTwo == 1 :> 1 @@ 2 :> 2

OnlyMemory == [settings |-> Missing, memory |-> "redis"]
=============================================================================
