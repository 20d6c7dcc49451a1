---------------------------- MODULE MCTurnEvents ----------------------------
(* A turn with more events than a channel holds, and a reader that reconnects. *)
EXTENDS TurnEvents, TLC

CONSTANTS r1, c1, c2

OneReader == {r1}
TwoSlots == {c1, c2}
=============================================================================
