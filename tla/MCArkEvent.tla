----------------------------- MODULE MCArkEvent -----------------------------
(***************************************************************************)
(* Small triggers for TLC.                                                 *)
(***************************************************************************)
EXTENDS ArkEvent

OneTarget == <<"a">>

TwoTargets == <<"a", "b">>

Trigger(k, p, phase) == [kind |-> k, policy |-> p, onPhase |-> phase]

\* Every kind with every policy; a trigger on another flow waits for its
\* success, or, with Allow, for any phase.
AllTriggers ==
  {Trigger(k, p, "Succeeded") : k \in Kind, p \in Policy}
    \union {Trigger("pipeline-output", "Allow", phase) : phase \in OnPhase}

OneWebhook == {Trigger("webhook", "Allow", "Succeeded")}
=============================================================================
