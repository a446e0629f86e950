---------------------------- MODULE EnqueueTicketMC ----------------------------
(* Small instances of EnqueueTicket for TLC.                               *)
EXTENDS EnqueueTicket, TLC

CONSTANTS a1, r1, r2, p1, p2

MCSymmetry == Permutations(Payments)
=============================================================================
