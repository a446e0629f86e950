------------------------------ MODULE RaffleMC ------------------------------
(* Small instances of Raffle for TLC.                                      *)
EXTENDS Raffle, TLC

CONSTANTS c1, c2, u1, u2

\* A hash that designates different tickets for different documents.
MCHash(doc) == 2 * Len(doc.reasons) + Len(doc.tickets) + 1

MCSymmetry == Permutations(Requests) \cup Permutations(Viewers)
=============================================================================
