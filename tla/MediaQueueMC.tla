----------------------------- MODULE MediaQueueMC -----------------------------
(* Small instances of MediaQueue for TLC.                                  *)
EXTENDS MediaQueue, TLC

CONSTANTS e1, e2, e3, u1, u2

\* e1 and e3 belong to one user, e2 was requested anonymously.
MCRequestedBy == e1 :> u1 @@ e2 :> Unknown @@ e3 :> u1
MCRequestedByTwo == e1 :> u1 @@ e2 :> Unknown

MCRestorable == {<<>>, <<e1, e2>>}
MCEmptyQueue == {<<>>}
=============================================================================
