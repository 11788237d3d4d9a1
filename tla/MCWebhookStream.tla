--------------------------- MODULE MCWebhookStream ---------------------------
(***************************************************************************)
(* Requests for a flow of two steps for TLC.                               *)
(***************************************************************************)
EXTENDS WebhookStream

\* Two steps in a row.
Chain == [s \in Step |-> IF s = 1 THEN {} ELSE {s - 1}]

\* Two tokens of the first step, so that the channel can be full and a retry
\* may append one behind the first marker.
TwoThenNone == [s \in Step |-> IF s = 1 THEN 2 ELSE 0]
=============================================================================
