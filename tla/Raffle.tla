------------------------------- MODULE Raffle -------------------------------
(***************************************************************************)
(* The drawings of one raffle (server/components/raffle/raffle.go) in the  *)
(* database.  Viewers' requests run ProcessRaffle, moderators confirm,     *)
(* redraw and complete; nothing but the transactions of the database,      *)
(* which run at its default level (read committed), keeps them apart.      *)
(*                                                                         *)
(* A transaction is a record: what it has read (view, list), what it has   *)
(* written and not committed (writes) and where it is.  Each statement is  *)
(* a step; a row with an uncommitted write cannot be written by others.    *)
(***************************************************************************)
EXTENDS Integers, SequencesExt

CONSTANTS
  Requests,     \* requests being served at a time
  Viewers,      \* who can have a ticket
  Reasons,      \* reasons moderators give to redraw
  Initial,      \* "Initial drawing."
  NoDocument,   \* the drawing has no plaintext
  Hash(_),      \* the number the VRF proves for a document
  MaxDrawings,  \* bound on the drawings of the raffle
  MaxTickets    \* bound on the tickets of the raffle

ASSUME RaffleAssumption ==
  /\ Initial \notin Reasons
  /\ NoDocument \notin [reasons : Seq(Reasons \cup {Initial}), tickets : Seq(Viewers)]
  /\ MaxDrawings \in Nat \ {0} /\ MaxTickets \in Nat
  /\ \A r \in BoundedSeq(Reasons \cup {Initial}, 1), t \in BoundedSeq(Viewers, 1) :
       Hash([reasons |-> r, tickets |-> t]) \in Nat

VARIABLES
  drawings, \* raffle_drawing, the committed rows of the raffle by number
  tickets,  \* played_media, the committed rows of the period by start
  over,     \* the clock is after PeriodEnd
  late,     \* a media that started in the period is not in the database yet
  tx        \* the transaction of each call

raffleVars == <<drawings, tickets, over, late, tx>>

-----------------------------------------------------------------------------
(* Rows, documents, transactions                                           *)

Statuses == {"ongoing", "pending", "confirmed", "voided", "complete"}

NewDrawing(reason) ==
  [status |-> "ongoing", reason |-> reason, plaintext |-> NoDocument, winner |-> 0, prize |-> FALSE]

\* GenerateRaffleEntriesPlaintext, as far as it varies within a raffle.
Document(reasons, list) == [reasons |-> reasons, tickets |-> list]

\* computeRaffleWinnerFromHash
Winner(doc) == (Hash(doc) % Len(doc.tickets)) + 1

NoTransaction == [op |-> "none", at |-> "idle", view |-> <<>>, list |-> <<>>, writes |-> <<>>,
                  row |-> NewDrawing(Initial)]

\* GetRaffleDrawingsOfRaffle in transaction p: the committed rows, and its own.
\* Rows are only added after the last one a transaction sees.
Visible(p) ==
  LET w == tx[p].writes
  IN  [n \in DOMAIN drawings \cup DOMAIN w |-> IF n \in DOMAIN w THEN w[n] ELSE drawings[n]]

\* The row can be written: no other transaction has an uncommitted write on it.
Unlocked(p, n) == \A q \in Requests \ {p} : n \notin DOMAIN tx[q].writes

Write(writes, n, row) == [m \in DOMAIN writes \cup {n} |-> IF m = n THEN row ELSE writes[m]]

-----------------------------------------------------------------------------
(* The database outside of raffles                                         *)

\* A media begins to play: it is a ticket as soon as its row is committed.
IssueTicket(u) ==
  /\ Len(tickets) < MaxTickets
  /\ ~over \/ late
  /\ tickets' = Append(tickets, u)
  /\ late' = FALSE
  /\ UNCHANGED <<drawings, over, tx>>

\* PeriodEnd passes; one media may have started whose row is yet to come.
PeriodEnds ==
  /\ ~over
  /\ over' = TRUE
  /\ late' \in BOOLEAN
  /\ UNCHANGED <<drawings, tickets, tx>>

-----------------------------------------------------------------------------
(* The first statement of each operation, with the checks that follow it   *)

Begin(p, op, next, row) ==
  /\ tx[p] = NoTransaction
  /\ tx' = [tx EXCEPT ![p].op = op, ![p].at = next, ![p].view = drawings, ![p].row = row]
  /\ UNCHANGED <<drawings, tickets, over, late>>

ProcessRaffle(p) ==
  IF drawings = <<>> THEN Begin(p, "process", "insert", NewDrawing(Initial))
                     ELSE Begin(p, "process", "entries", Last(drawings))

ConfirmRaffleWinner(p) ==
  /\ drawings # <<>>
  /\ Last(drawings).status = "pending"
  /\ Begin(p, "confirm", "write", [Last(drawings) EXCEPT !.status = "confirmed"])

CompleteRaffle(p) ==
  /\ drawings # <<>>
  /\ Last(drawings).status = "confirmed"
  /\ Begin(p, "complete", "write", [Last(drawings) EXCEPT !.status = "complete", !.prize = TRUE])

\* Mutant: the status is not looked at.
RedrawRaffle_Always(p, reason) ==
  /\ drawings # <<>>
  /\ Len(drawings) < MaxDrawings
  /\ Begin(p, "redraw", "void", NewDrawing(reason))

RedrawRaffle(p, reason) ==
  /\ drawings # <<>>
  /\ Len(drawings) < MaxDrawings
  /\ Last(drawings).status \in {"pending", "voided"}
  /\ Begin(p, "redraw", "void", NewDrawing(reason))

-----------------------------------------------------------------------------
(* The other statements                                                    *)

\* The number of the drawing that the transaction is about.
Number(t) == Len(t.view) + (IF t.op = "redraw" THEN 1 ELSE 0)

\* ProcessRaffle creates the first drawing.
InsertFirst(p) ==
  /\ tx[p].at = "insert"
  /\ Unlocked(p, 1)
  /\ tx' = [tx EXCEPT ![p].at = "entries", ![p].view = <<tx[p].row>>, ![p].writes = <<tx[p].row>>]
  /\ UNCHANGED <<drawings, tickets, over, late>>

\* Mutant: outside of the transaction.
VoidLatest_Committed(p) ==
  /\ tx[p].at = "void"
  /\ LET n == Len(tx[p].view)
     IN  /\ Unlocked(p, n)
         /\ drawings' = [drawings EXCEPT ![n].status = "voided"]
         /\ tx' = [tx EXCEPT ![p].at = "entries"]
  /\ UNCHANGED <<tickets, over, late>>

\* RedrawRaffle voids the latest drawing, as it read it.
VoidLatest(p) ==
  /\ tx[p].at = "void"
  /\ LET n == Len(tx[p].view)
     IN  /\ Unlocked(p, n)
         /\ tx' = [tx EXCEPT ![p].at = "entries",
                             ![p].writes = Write(@, n, [tx[p].view[n] EXCEPT !.status = "voided"])]
  /\ UNCHANGED <<drawings, tickets, over, late>>

ReadEntries(p) ==
  /\ tx[p].at = "entries"
  /\ tx' = [tx EXCEPT ![p].list = tickets,
                      ![p].at = IF tx[p].row.status = "ongoing" THEN "compute" ELSE "commit"]
  /\ UNCHANGED <<drawings, tickets, over, late>>

\* Mutant: the winning ticket is taken from the tickets there are by now.
Drawn_Rereads(p) ==
  LET seen == Visible(p)
      doc  == Document([n \in DOMAIN seen |-> seen[n].reason], tx[p].list)
  IN  IF tickets = <<>>
      THEN [tx[p].row EXCEPT !.status = "complete"]
      ELSE [tx[p].row EXCEPT !.status = "pending", !.plaintext = doc,
                             !.winner = (Hash(doc) % Len(tickets)) + 1]

\* The row computeRaffleDrawing makes of the drawing.
Drawn(p) ==
  LET list == tx[p].list
      seen == Visible(p)
      doc  == Document([n \in DOMAIN seen |-> seen[n].reason], list)
  IN  IF list = <<>>
      THEN [tx[p].row EXCEPT !.status = "complete"]
      ELSE [tx[p].row EXCEPT !.status = "pending", !.plaintext = doc, !.winner = Winner(doc)]

\* processOngoingRaffle; the entries were read before the clock is.
ProcessOngoingRaffle(p) ==
  /\ tx[p].at = "compute"
  /\ tx' = IF over THEN [tx EXCEPT ![p].at = "write", ![p].row = Drawn(p)]
                   ELSE [tx EXCEPT ![p].at = "commit"]
  /\ UNCHANGED <<drawings, tickets, over, late>>

WriteDrawing(p) ==
  /\ tx[p].at = "write"
  /\ Unlocked(p, Number(tx[p]))
  /\ tx' = [tx EXCEPT ![p].at = "commit", ![p].writes = Write(@, Number(tx[p]), tx[p].row)]
  /\ UNCHANGED <<drawings, tickets, over, late>>

Commit(p) ==
  /\ tx[p].at = "commit"
  /\ drawings' = Visible(p)
  /\ tx' = [tx EXCEPT ![p] = NoTransaction]
  /\ UNCHANGED <<tickets, over, late>>

\* A statement fails, the caller goes away or the process stops.
Rollback(p) ==
  /\ tx[p] # NoTransaction
  /\ tx' = [tx EXCEPT ![p] = NoTransaction]
  /\ UNCHANGED <<drawings, tickets, over, late>>

-----------------------------------------------------------------------------
RaffleInit ==
  /\ drawings = <<>>
  /\ tickets = <<>>
  /\ over = FALSE
  /\ late = FALSE
  /\ tx = [p \in Requests |-> NoTransaction]

RaffleNext ==
  \/ \E u \in Viewers : IssueTicket(u)
  \/ PeriodEnds
  \/ \E p \in Requests : \/ ProcessRaffle(p) \/ ConfirmRaffleWinner(p) \/ CompleteRaffle(p)
                         \/ \E reason \in Reasons : RedrawRaffle(p, reason)
                         \/ InsertFirst(p) \/ VoidLatest(p) \/ ReadEntries(p)
                         \/ ProcessOngoingRaffle(p) \/ WriteDrawing(p) \/ Commit(p) \/ Rollback(p)

RaffleSpec == RaffleInit /\ [][RaffleNext]_raffleVars
-----------------------------------------------------------------------------
(* Properties                                                              *)

Documents == [reasons : Seq(Reasons \cup {Initial}), tickets : Seq(Viewers)]

Rows == [status : Statuses, reason : Reasons \cup {Initial}, plaintext : Documents \cup {NoDocument},
         winner : Nat, prize : BOOLEAN]

Stages == {"idle", "insert", "void", "entries", "compute", "write", "commit"}

\* Every variable has the shape its declaration describes; in particular the
\* drawings are numbered from 1 without gaps (raffle.go:212-213).
RaffleTypeOK ==
  /\ \E n \in 0..MaxDrawings : DOMAIN drawings = 1..n
  /\ \A n \in DOMAIN drawings : drawings[n] \in Rows
  /\ tickets \in Seq(Viewers)
  /\ over \in BOOLEAN
  /\ late \in BOOLEAN
  /\ \A p \in Requests : /\ tx[p].op \in {"none", "process", "confirm", "complete", "redraw"}
                         /\ tx[p].at \in Stages
                         /\ tx[p].view \in Seq(Rows)
                         /\ tx[p].list \in Seq(Viewers)
                         /\ tx[p].row \in Rows
                         /\ \A n \in DOMAIN tx[p].writes : n \in Nat \ {0} /\ tx[p].writes[n] \in Rows

\* A drawing that has been made names a ticket of its own document, the one the
\* document's hash designates, and the document lists the first tickets of the
\* raffle (raffle.go:193-196); only a drawing with a winner is paid for.
RowIsVerifiable(d) ==
  /\ d.plaintext = NoDocument <=> d.status = "ongoing" \/ (d.status = "complete" /\ ~d.prize)
  /\ d.prize => d.status = "complete"
  /\ d.plaintext # NoDocument => /\ d.plaintext.tickets # <<>>
                                 /\ d.winner = Winner(d.plaintext)
                                 /\ IsPrefix(d.plaintext.tickets, tickets)

DrawingsAreVerifiable == \A n \in DOMAIN drawings : RowIsVerifiable(drawings[n])

\* Voiding a drawing and making the next one are one transaction: nobody finds a
\* raffle whose latest drawing is voided, with no winner to confirm
\* (raffle.go:366-391).
LatestIsNotVoided == drawings # <<>> => Last(drawings).status # "voided"

\* The arrows of types/raffle_drawing.go:13-19, from one state of the raffle to
\* the next.
Arrows(before, after) ==
  \/ before = <<>> /\ after[1].reason = Initial /\ after[1].status \in {"ongoing", "pending", "complete"}
  \/ LET n == Len(before)
         from == before[n].status
         to == after[n].status
     IN  /\ SubSeq(before, 1, n - 1) = SubSeq(after, 1, n - 1)
         /\ \/ to = from /\ after = before
            \/ Len(after) = n /\ <<from, to>> \in {<<"ongoing", "pending">>, <<"ongoing", "complete">>,
                                                 <<"pending", "confirmed">>, <<"confirmed", "complete">>}
            \/ /\ Len(after) = n + 1
               /\ from = "pending" /\ to = "voided"
               /\ after[n + 1].status \in {"pending", "complete"}

\* A call that commits while the drawings are still those it read takes the
\* raffle along one arrow: only calls that overtake each other can do otherwise.
FreshCommitsFollowArrows ==
  [][\A p \in Requests : tx[p].at = "commit" /\ tx[p]' = NoTransaction /\ drawings' # drawings
        /\ (tx[p].view = drawings \/ (tx[p].op = "process" /\ drawings = <<>>))
      => Arrows(drawings, drawings')]_raffleVars

\* "The addition of drawings to the list below changes the contents of this
\* document, which is necessary and sufficient to change the selected winner"
\* (raffle.go:210-211): no two drawings have the same document.
RedrawsChangeTheDocument ==
  \A m, n \in DOMAIN drawings :
    m # n /\ drawings[m].plaintext # NoDocument => drawings[m].plaintext # drawings[n].plaintext
=============================================================================
