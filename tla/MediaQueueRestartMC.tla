-------------------------- MODULE MediaQueueRestartMC -------------------------
(* Small instances of MediaQueueRestart for TLC.                           *)
EXTENDS MediaQueueRestart, TLC

CONSTANTS e1, e2, e3, u1

\* Both entries belong to the same user; e2 is an application page.
MCRequestedBy == e1 :> u1 @@ e2 :> u1
MCRestorable == {<<>>}
=============================================================================
