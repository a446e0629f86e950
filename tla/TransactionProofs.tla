--------------------------- MODULE TransactionProofs ---------------------------
(***************************************************************************)
(* Safety of what is done in transactions of the database that overlap:    *)
(* raffles and withdrawals.                                                *)
(***************************************************************************)
EXTENDS Raffle, Withdrawals, FiniteSetTheorems, TLAPS

-----------------------------------------------------------------------------
(***************************************************************************)
(* Safety of raffles, for any number of calls at once, users and reasons   *)
(* and any verifiable random function.                                     *)
(*                                                                         *)
(* Requests that overlap may overwrite each other's drawings, so nothing is *)
(* said of the order of things: the invariant says of every row that is in *)
(* the table, or in a call on its way there, that it is a drawing anyone   *)
(* can verify (RowOk), and of every call which rows it writes, so that the *)
(* drawings stay numbered without gaps and a voided one is followed by     *)
(* another (TxOk).                                                         *)
(***************************************************************************)

-----------------------------------------------------------------------------
(* Sequences                                                               *)

\* A sequence, whatever it holds.
IsSeq(s) == s \in Seq({s[n] : n \in DOMAIN s})

\* The domain of a sequence.
LEMMA SeqFacts == ASSUME NEW s, IsSeq(s) PROVE Len(s) \in Nat /\ DOMAIN s = 1..Len(s)
BY DEF IsSeq

\* What a sequence begins with.
LEMMA FirstTerms ==
  ASSUME NEW s, IsSeq(s), NEW k \in 0..Len(s)
  PROVE  SubSeq(s, 1, k) = [n \in 1..k |-> s[n]]
<1> DEFINE R == {s[n] : n \in DOMAIN s}
<1>1. s \in Seq(R)
  BY DEF IsSeq
<1> HIDE DEF R
<1>2. Len(s) \in Nat /\ k \in Nat /\ k <= Len(s)
  BY <1>1
<1> QED
  BY <1>1, <1>2

\* A function over 1..k is a sequence.
LEMMA SeqIntro ==
  ASSUME NEW D, NEW R, NEW k \in Nat, D = 1..k, NEW s \in [D -> R]
  PROVE  s \in Seq(R) /\ Len(s) = k
<1>1. s \in [1..k -> R]
  OBVIOUS
<1> QED
  BY <1>1

\* Writing at the places of a sequence, or just behind it, leaves no gap.
LEMMA Overwrite ==
  ASSUME NEW a, NEW w, NEW R, NEW s \in [DOMAIN a \cup DOMAIN w -> R],
         IsSeq(a), DOMAIN w \subseteq 1..(Len(a) + 1)
  PROVE  s \in Seq(R) /\ Len(a) <= Len(s) /\ (Len(s) \in DOMAIN w \/ Len(s) = Len(a))
<1>1. Len(a) \in Nat /\ DOMAIN a = 1..Len(a)
  BY SeqFacts
<1>2. CASE Len(a) + 1 \in DOMAIN w
  <2>1. DOMAIN a \cup DOMAIN w = 1..(Len(a) + 1)
    BY <1>1, <1>2
  <2>2. s \in Seq(R) /\ Len(s) = Len(a) + 1
    BY <1>1, <2>1, SeqIntro
  <2>3. Len(a) <= Len(s)
    BY <1>1, <2>2
  <2>4. Len(s) \in DOMAIN w
    BY <1>2, <2>2, Zenon
  <2> QED
    BY <2>2, <2>3, <2>4
<1>3. CASE Len(a) + 1 \notin DOMAIN w
  <2>1. DOMAIN a \cup DOMAIN w = 1..Len(a)
    BY <1>1, <1>3
  <2>2. s \in Seq(R) /\ Len(s) = Len(a)
    BY <1>1, <2>1, SeqIntro
  <2> QED
    BY <1>1, <2>2
<1> QED
  BY <1>2, <1>3

\* A prefix stays one when something is appended.
LEMMA PrefixAppend ==
  ASSUME NEW S, NEW s \in Seq(S), NEW t \in Seq(S), NEW e \in S, IsPrefix(s, t)
  PROVE  IsPrefix(s, Append(t, e))
<1>1. Len(s) <= Len(t) /\ \A i \in 1..Len(s) : s[i] = t[i]
  <2>1. SubSeq(s, 1, Len(s)) = SubSeq(t, 1, Len(s)) /\ Len(s) <= Len(t)
    BY DEF IsPrefix
  <2>2. \A i \in 1..Len(s) : SubSeq(s, 1, Len(s))[i] = s[i] /\ SubSeq(t, 1, Len(s))[i] = t[i]
    BY <2>1
  <2> QED
    BY <2>1, <2>2
<1>2. /\ Append(t, e) \in Seq(S) /\ Len(Append(t, e)) = Len(t) + 1
      /\ \A i \in 1..Len(t) : Append(t, e)[i] = t[i]
  OBVIOUS
<1>3. SubSeq(s, 1, Len(s)) = SubSeq(Append(t, e), 1, Len(s))
  BY <1>1, <1>2
<1> QED
  BY <1>1, <1>2, <1>3 DEF IsPrefix

-----------------------------------------------------------------------------
(* The invariant                                                           *)

RowFields == {"status", "reason", "plaintext", "winner", "prize"}
TxFields == {"op", "at", "view", "list", "writes", "row"}

\* A row that may be in the table.
RowOk(d) ==
  /\ DOMAIN d = RowFields
  /\ d.reason \in Reasons \cup {Initial}
  /\ d.status # "ongoing" => over
  /\ d.plaintext # NoDocument => d.plaintext.tickets \in Seq(Viewers)
  /\ RowIsVerifiable(d)

\* The rows a call holds, those it has written and the one it is about.
RowsOk(t) ==
  /\ IsSeq(t.view) /\ \A n \in DOMAIN t.view : RowOk(t.view[n])
  /\ \A n \in DOMAIN t.writes : RowOk(t.writes[n])
  /\ RowOk(t.row)
  /\ t.list \in Seq(Viewers) /\ IsPrefix(t.list, tickets)

\* Where a call writes: at the latest drawing it has read, or behind it.
NumbersOk(t) ==
  /\ DOMAIN t.writes \subseteq {Len(t.view), Number(t)}
  /\ t.at \in {"idle", "insert", "void"} => DOMAIN t.writes = {}
  /\ t.at \notin {"idle", "insert"} =>
       /\ Len(t.view) >= 1
       /\ Len(t.view) <= Len(drawings) \/ (t.op = "process" /\ Len(t.view) = 1)

\* What a call writes: it voids a drawing only if it goes on to draw again.
PhaseOk(t) ==
  /\ t.op = "redraw" => over
  /\ t.at = "insert" => t.op = "process"
  /\ t.at = "void" => t.op = "redraw" /\ t.view[Len(t.view)].status \in {"pending", "voided"}
  /\ t.at \in {"insert", "void", "compute"} => t.row.status = "ongoing"
  /\ t.at = "entries" /\ t.op = "redraw" => t.row.status = "ongoing"
  /\ t.at = "write" => t.row.status \notin {"ongoing", "voided"}
  /\ \A n \in DOMAIN t.writes :
       t.writes[n].status = "voided" => /\ t.op = "redraw" /\ n = Len(t.view)
                                        /\ t.at = "commit" => Number(t) \in DOMAIN t.writes

TxOk(t) == DOMAIN t = TxFields /\ RowsOk(t) /\ NumbersOk(t) /\ PhaseOk(t)

DrawingsOk ==
  /\ IsSeq(drawings)
  /\ \A n \in DOMAIN drawings : RowOk(drawings[n])
  /\ Len(drawings) >= 1 => drawings[Len(drawings)].status # "voided"

RaffleIInv ==
  /\ tickets \in Seq(Viewers)
  /\ DrawingsOk
  /\ tx = [p \in Requests |-> tx[p]]
  /\ \A p \in Requests : TxOk(tx[p])

-----------------------------------------------------------------------------
(* What stays true when others go on                                       *)

\* Rows are about the first tickets, and more tickets are issued at the end.
LEMMA RowsStay ==
  ASSUME tickets \in Seq(Viewers), tickets' = tickets \/ \E u \in Viewers : tickets' = Append(tickets, u),
         over => over'
  PROVE  /\ \A d : RowOk(d) => RowOk(d)'
         /\ \A s \in Seq(Viewers) : IsPrefix(s, tickets) => IsPrefix(s, tickets')
<1>1. ASSUME NEW s \in Seq(Viewers), IsPrefix(s, tickets) PROVE IsPrefix(s, tickets')
  BY <1>1, PrefixAppend
<1>2. ASSUME NEW d, RowOk(d) PROVE RowOk(d)'
  BY <1>1, <1>2 DEF RowOk, RowIsVerifiable
<1> QED
  BY <1>1, <1>2

\* Requests that are under way are not disturbed by tickets, time and commits.
LEMMA TransactionsStay ==
  ASSUME tickets \in Seq(Viewers), tickets' = tickets \/ \E u \in Viewers : tickets' = Append(tickets, u),
         over => over', Len(drawings) \in Nat, Len(drawings') \in Nat, Len(drawings) <= Len(drawings')
  PROVE  \A t : TxOk(t) => TxOk(t)'
<1> SUFFICES ASSUME NEW t, TxOk(t) PROVE TxOk(t)'
  OBVIOUS
<1>1. RowsOk(t)'
  BY RowsStay DEF TxOk, RowsOk
<1>2. NumbersOk(t)'
  <2>1. Len(t.view) \in Nat
    BY SeqFacts DEF TxOk, RowsOk
  <2>2. Len(t.view) <= Len(drawings) => Len(t.view) <= Len(drawings')
    BY <2>1
  <2>3. DOMAIN t.writes \subseteq {Len(t.view), Number(t)'}
    BY DEF TxOk, NumbersOk, Number
  <2> QED
    BY <2>2, <2>3 DEF TxOk, NumbersOk
<1>3. PhaseOk(t)'
  BY DEF TxOk, PhaseOk, Number
<1> QED
  BY <1>1, <1>2, <1>3 DEF TxOk

\* A step of one call that commits nothing.
LEMMA RaffleCallGoes ==
  ASSUME RaffleIInv, NEW p \in Requests, UNCHANGED <<drawings, tickets, over>>,
         tx' = [q \in Requests |-> IF q = p THEN tx'[p] ELSE tx[q]],
         TxOk(tx'[p])
  PROVE  RaffleIInv'
<1>1. DrawingsOk' /\ tickets' \in Seq(Viewers)
  BY DEF RaffleIInv, DrawingsOk, RowOk, RowIsVerifiable
<1>2. Len(drawings) \in Nat
  BY SeqFacts DEF RaffleIInv, DrawingsOk
<1>3. \A q \in Requests : TxOk(tx[q])'
  <2>1. \A t : TxOk(t) => TxOk(t)'
    BY <1>2, TransactionsStay DEF RaffleIInv
  <2>2. \A q \in Requests : TxOk(tx'[q])
    BY DEF RaffleIInv
  <2> QED
    BY <2>1, <2>2
<1> QED
  BY <1>1, <1>3 DEF RaffleIInv

\* The same, of a call whose next record is known.
LEMMA CallGoesTo ==
  ASSUME RaffleIInv, NEW p \in Requests, NEW t, UNCHANGED <<drawings, tickets, over>>,
         tx' = [tx EXCEPT ![p] = t], TxOk(t)
  PROVE  RaffleIInv'
<1>1. tx = [q \in Requests |-> tx[q]]
  BY DEF RaffleIInv
<1>2. tx'[p] = t /\ tx' = [q \in Requests |-> IF q = p THEN tx'[p] ELSE tx[q]]
  BY <1>1
<1> QED
  BY <1>2, RaffleCallGoes

-----------------------------------------------------------------------------
(* Requests                                                                   *)

\* A call that is not there.
LEMMA IdleOk == ASSUME tickets \in Seq(Viewers) PROVE TxOk(NoTransaction)
<1>1. /\ DOMAIN NoTransaction = TxFields /\ NoTransaction.op = "none" /\ NoTransaction.at = "idle"
      /\ NoTransaction.view = <<>> /\ NoTransaction.list = <<>> /\ NoTransaction.writes = <<>> /\ NoTransaction.row = NewDrawing(Initial)
  BY DEF NoTransaction, TxFields
<1>2. RowOk(NewDrawing(Initial))
  BY DEF RowOk, RowFields, NewDrawing, RowIsVerifiable
<1>3. IsPrefix(<<>>, tickets)
  BY DEF IsPrefix
<1>4. IsSeq(<<>>) /\ Len(<<>>) = 0 /\ DOMAIN <<>> = {}
  BY DEF IsSeq
<1> QED
  BY <1>1, <1>2, <1>3, <1>4 DEF TxOk, RowsOk, NumbersOk, PhaseOk, Number

\* The first statement of an operation, and the checks on what it has read.
LEMMA BeginOk ==
  ASSUME RaffleIInv, NEW p \in Requests, NEW op, NEW next, NEW row, Begin(p, op, next, row),
         RowOk(row), op = "redraw" => over,
         next = "insert" => drawings = <<>> /\ op = "process" /\ row.status = "ongoing",
         next # "insert" => Len(drawings) >= 1,
         next \in {"insert", "void", "entries", "write"},
         next = "void" => /\ op = "redraw" /\ row.status = "ongoing"
                          /\ drawings[Len(drawings)].status \in {"pending", "voided"},
         next = "entries" => op = "process",
         next = "write" => row.status \notin {"ongoing", "voided"}
  PROVE  RaffleIInv'
<1> DEFINE t == [NoTransaction EXCEPT !.op = op, !.at = next, !.view = drawings, !.row = row]
<1>1. tx[p] = NoTransaction /\ UNCHANGED <<drawings, tickets, over>>
  BY DEF Begin
<1>2. tx' = [tx EXCEPT ![p] = t]
  BY <1>1 DEF Begin
<1>3. /\ DOMAIN t = TxFields /\ t.op = op /\ t.at = next /\ t.view = drawings /\ t.row = row
      /\ t.list = <<>> /\ t.writes = <<>>
  BY DEF NoTransaction, TxFields
<1> HIDE DEF t
<1>4. RowsOk(t)
  <2>1. IsPrefix(<<>>, tickets)
    BY DEF RaffleIInv, IsPrefix
  <2> QED
    BY <1>3, <2>1 DEF RowsOk, RaffleIInv, DrawingsOk
<1>5. NumbersOk(t)
  <2>1. Len(drawings) \in Nat
    BY SeqFacts DEF RaffleIInv, DrawingsOk
  <2> QED
    BY <1>3, <2>1 DEF NumbersOk
<1>6. PhaseOk(t)
  BY <1>3 DEF PhaseOk
<1> QED
  BY <1>1, <1>2, <1>3, <1>4, <1>5, <1>6, CallGoesTo DEF TxOk

\* A request draws the latest drawing, or the first one.
LEMMA ProcessKeeps == ASSUME RaffleIInv, NEW p \in Requests, ProcessRaffle(p) PROVE RaffleIInv'
<1>1. CASE drawings = <<>>
  <2>1. RowOk(NewDrawing(Initial)) /\ NewDrawing(Initial).status = "ongoing"
    BY DEF RowOk, RowFields, NewDrawing, RowIsVerifiable
  <2> QED
    BY <1>1, <2>1, BeginOk DEF ProcessRaffle
<1>2. CASE drawings # <<>>
  <2>1. Len(drawings) >= 1 /\ Len(drawings) \in DOMAIN drawings
    BY <1>2, SeqFacts DEF RaffleIInv, DrawingsOk, IsSeq
  <2> QED
    BY <1>2, <2>1, BeginOk DEF ProcessRaffle, Last, RaffleIInv, DrawingsOk
<1> QED
  BY <1>1, <1>2

\* The row of the latest drawing, when the raffle has any.
LEMMA LatestOk ==
  ASSUME RaffleIInv, drawings # <<>>
  PROVE  Len(drawings) >= 1 /\ Last(drawings) = drawings[Len(drawings)] /\ RowOk(Last(drawings))
<1>1. Len(drawings) >= 1 /\ Len(drawings) \in DOMAIN drawings
  BY SeqFacts DEF RaffleIInv, DrawingsOk, IsSeq
<1> QED
  BY <1>1 DEF RaffleIInv, DrawingsOk, Last

\* A moderator confirms the winner of the latest drawing.
LEMMA ConfirmKeeps == ASSUME RaffleIInv, NEW p \in Requests, ConfirmRaffleWinner(p) PROVE RaffleIInv'
<1> DEFINE row == [Last(drawings) EXCEPT !.status = "confirmed"]
<1>1. drawings # <<>> /\ Last(drawings).status = "pending" /\ Begin(p, "confirm", "write", row)
  BY DEF ConfirmRaffleWinner
<1>2. RowOk(row) /\ row.status = "confirmed"
  BY <1>1, LatestOk DEF RowOk, RowFields, RowIsVerifiable
<1> HIDE DEF row
<1> QED
  BY <1>1, <1>2, LatestOk, BeginOk

\* A moderator completes the latest drawing and pays its winner.
LEMMA CompleteKeeps == ASSUME RaffleIInv, NEW p \in Requests, CompleteRaffle(p) PROVE RaffleIInv'
<1> DEFINE row == [Last(drawings) EXCEPT !.status = "complete", !.prize = TRUE]
<1>1. drawings # <<>> /\ Last(drawings).status = "confirmed" /\ Begin(p, "complete", "write", row)
  BY DEF CompleteRaffle
<1>2. RowOk(row) /\ row.status = "complete"
  BY <1>1, LatestOk DEF RowOk, RowFields, RowIsVerifiable
<1> HIDE DEF row
<1> QED
  BY <1>1, <1>2, LatestOk, BeginOk

\* A moderator redraws: the period is over, for the latest drawing was drawn.
LEMMA RedrawKeeps ==
  ASSUME RaffleIInv, NEW p \in Requests, NEW reason \in Reasons, RedrawRaffle(p, reason) PROVE RaffleIInv'
<1>1. /\ drawings # <<>> /\ Last(drawings).status \in {"pending", "voided"}
      /\ Begin(p, "redraw", "void", NewDrawing(reason))
  BY DEF RedrawRaffle
<1>2. RowOk(NewDrawing(reason)) /\ NewDrawing(reason).status = "ongoing"
  BY DEF RowOk, RowFields, NewDrawing, RowIsVerifiable
<1>3. over
  BY <1>1, LatestOk DEF RowOk
<1> QED
  BY <1>1, <1>2, <1>3, LatestOk, BeginOk

\* The first drawing is the only row of its call.
LEMMA InsertFirstKeeps == ASSUME RaffleIInv, NEW p \in Requests, InsertFirst(p) PROVE RaffleIInv'
<1> DEFINE t == [tx[p] EXCEPT !.at = "entries", !.view = <<tx[p].row>>, !.writes = <<tx[p].row>>]
<1>1. tx[p].at = "insert" /\ tx' = [tx EXCEPT ![p] = t] /\ UNCHANGED <<drawings, tickets, over>>
  BY DEF InsertFirst
<1>2. TxOk(tx[p])
  BY DEF RaffleIInv
<1>3. /\ DOMAIN t = TxFields /\ t.at = "entries" /\ t.view = <<tx[p].row>> /\ t.writes = <<tx[p].row>>
      /\ t.op = tx[p].op /\ t.row = tx[p].row /\ t.list = tx[p].list
  BY <1>2 DEF TxOk, TxFields
<1> HIDE DEF t
<1>4. /\ IsSeq(t.view) /\ Len(t.view) = 1 /\ DOMAIN t.view = {1} /\ DOMAIN t.writes = {1}
      /\ t.view[1] = tx[p].row /\ t.writes[1] = tx[p].row
  BY <1>3 DEF IsSeq
<1>5. tx[p].op = "process" /\ tx[p].row.status = "ongoing"
  BY <1>1, <1>2 DEF TxOk, PhaseOk
<1>6. RowsOk(t)
  BY <1>2, <1>3, <1>4 DEF TxOk, RowsOk
<1>7. NumbersOk(t) /\ PhaseOk(t)
  BY <1>3, <1>4, <1>5 DEF NumbersOk, PhaseOk
<1> QED
  BY <1>1, <1>3, <1>6, <1>7, CallGoesTo DEF TxOk

\* The voided drawing is written with the number of the latest one.
LEMMA VoidLatestKeeps == ASSUME RaffleIInv, NEW p \in Requests, VoidLatest(p) PROVE RaffleIInv'
<1> DEFINE m == Len(tx[p].view)
           voided == [tx[p].view[m] EXCEPT !.status = "voided"]
           t == [tx[p] EXCEPT !.at = "entries", !.writes = Write(tx[p].writes, m, voided)]
<1>1. tx[p].at = "void" /\ tx' = [tx EXCEPT ![p] = t] /\ UNCHANGED <<drawings, tickets, over>>
  BY DEF VoidLatest
<1>2. TxOk(tx[p])
  BY DEF RaffleIInv
<1>3. /\ DOMAIN t = TxFields /\ t.at = "entries" /\ t.writes = Write(tx[p].writes, m, voided)
      /\ t.op = tx[p].op /\ t.view = tx[p].view /\ t.row = tx[p].row /\ t.list = tx[p].list
  BY <1>2 DEF TxOk, TxFields
<1>4. /\ DOMAIN tx[p].writes = {} /\ m >= 1 /\ m \in Nat /\ m \in DOMAIN tx[p].view
      /\ tx[p].op = "redraw" /\ tx[p].row.status = "ongoing" /\ over
      /\ tx[p].view[m].status \in {"pending", "voided"}
  BY <1>1, <1>2, SeqFacts DEF TxOk, RowsOk, NumbersOk, PhaseOk
<1>5. RowOk(tx[p].view[m])
  BY <1>2, <1>4 DEF TxOk, RowsOk
<1>6. RowOk(voided) /\ voided.status = "voided"
  BY <1>4, <1>5 DEF RowOk, RowFields, RowIsVerifiable
<1>7. DOMAIN t.writes = {m} /\ t.writes[m] = voided
  BY <1>3, <1>4 DEF Write
<1> HIDE DEF voided, t
<1>8. RowsOk(t)
  BY <1>2, <1>3, <1>6, <1>7 DEF TxOk, RowsOk
<1>9. NumbersOk(t)
  BY <1>1, <1>2, <1>3, <1>7 DEF TxOk, NumbersOk
<1>10. PhaseOk(t)
  BY <1>3, <1>4, <1>7 DEF PhaseOk
<1> QED
  BY <1>1, <1>3, <1>8, <1>9, <1>10, CallGoesTo DEF TxOk

\* The tickets there are make the list of the call.
LEMMA ReadEntriesKeeps == ASSUME RaffleIInv, NEW p \in Requests, ReadEntries(p) PROVE RaffleIInv'
<1> DEFINE next == IF tx[p].row.status = "ongoing" THEN "compute" ELSE "commit"
           t == [tx[p] EXCEPT !.list = tickets, !.at = next]
<1>1. tx[p].at = "entries" /\ tx' = [tx EXCEPT ![p] = t] /\ UNCHANGED <<drawings, tickets, over>>
  BY DEF ReadEntries
<1>2. TxOk(tx[p]) /\ tickets \in Seq(Viewers)
  BY DEF RaffleIInv
<1>3. /\ DOMAIN t = TxFields /\ t.at = next /\ t.list = tickets /\ t.writes = tx[p].writes
      /\ t.op = tx[p].op /\ t.view = tx[p].view /\ t.row = tx[p].row
  BY <1>2 DEF TxOk, TxFields
<1>4. IsPrefix(tickets, tickets)
  BY <1>2 DEF IsPrefix
<1> HIDE DEF t
<1>5. RowsOk(t)
  BY <1>2, <1>3, <1>4 DEF TxOk, RowsOk
<1>6. NumbersOk(t)
  BY <1>1, <1>2, <1>3 DEF TxOk, NumbersOk, Number
<1>7. PhaseOk(t)
  BY <1>1, <1>2, <1>3 DEF TxOk, PhaseOk
<1> QED
  BY <1>1, <1>3, <1>5, <1>6, <1>7, CallGoesTo DEF TxOk

-----------------------------------------------------------------------------
(* Drawing and committing                                                  *)

\* What a transaction sees once it has written: drawings numbered without gaps,
\* each of which may be in the table.
LEMMA VisibleOk ==
  ASSUME RaffleIInv, NEW p \in Requests, tx[p].at \notin {"idle", "insert", "void"}
  PROVE  /\ IsSeq(Visible(p)) /\ Len(drawings) <= Len(Visible(p))
         /\ \A n \in DOMAIN Visible(p) : RowOk(Visible(p)[n])
         /\ Len(Visible(p)) \in DOMAIN tx[p].writes \/ Len(Visible(p)) = Len(drawings)
<1> DEFINE w == tx[p].writes
           k == Len(drawings)
           m == Len(tx[p].view)
           s == Visible(p)
<1>1. TxOk(tx[p]) /\ IsSeq(drawings)
  BY DEF RaffleIInv, DrawingsOk
<1>2. k \in Nat /\ DOMAIN drawings = 1..k /\ m \in Nat
  BY <1>1, SeqFacts DEF TxOk, RowsOk
<1>3. /\ m >= 1 /\ (m <= k \/ (tx[p].op = "process" /\ m = 1))
      /\ DOMAIN w \subseteq {m, Number(tx[p])}
  BY <1>1 DEF TxOk, NumbersOk
<1>4. IF tx[p].op = "redraw" THEN Number(tx[p]) = m + 1 ELSE Number(tx[p]) = m + 0
  BY DEF Number
<1> DEFINE R == {s[n] : n \in DOMAIN s}
<1>5. /\ DOMAIN s = DOMAIN drawings \cup DOMAIN w
      /\ \A n \in DOMAIN s : s[n] = IF n \in DOMAIN w THEN w[n] ELSE drawings[n]
  BY DEF Visible
<1>6. s \in [DOMAIN drawings \cup DOMAIN w -> R]
  BY DEF Visible
<1> HIDE DEF w, m, k, s, R
<1>7. {m, Number(tx[p])} \subseteq 1..(k + 1)
  BY <1>2, <1>3, <1>4
<1>8. IsSeq(s) /\ k <= Len(s) /\ (Len(s) \in DOMAIN w \/ Len(s) = k)
  <2>1. DOMAIN w \subseteq 1..(Len(drawings) + 1)
    BY <1>3, <1>7 DEF k
  <2>2. s \in Seq(R) /\ Len(drawings) <= Len(s) /\ (Len(s) \in DOMAIN w \/ Len(s) = Len(drawings))
    BY <1>1, <1>6, <2>1, Overwrite
  <2> QED
    BY <2>2 DEF k, IsSeq, R
<1>9. ASSUME NEW n \in DOMAIN s PROVE RowOk(s[n])
  <2>1. s[n] = (IF n \in DOMAIN w THEN w[n] ELSE drawings[n]) /\ n \in DOMAIN drawings \cup DOMAIN w
    BY <1>5, <1>9
  <2> QED
    BY <1>1, <2>1 DEF TxOk, RowsOk, RaffleIInv, DrawingsOk, w
<1> QED
  BY <1>8, <1>9 DEF s, w, k

\* computeRaffleDrawing makes a drawing anyone can verify, if the period is over.
LEMMA DrawnOk ==
  ASSUME RaffleIInv, NEW p \in Requests, tx[p].at = "compute", over
  PROVE  RowOk(Drawn(p)) /\ Drawn(p).status \in {"pending", "complete"}
<1> DEFINE list == tx[p].list
           seen == Visible(p)
           reasons == [n \in DOMAIN seen |-> seen[n].reason]
           doc == Document(reasons, list)
<1>1. /\ RowOk(tx[p].row) /\ tx[p].row.status = "ongoing"
      /\ list \in Seq(Viewers) /\ IsPrefix(list, tickets)
  BY DEF RaffleIInv, TxOk, RowsOk, PhaseOk
<1>2. tx[p].row.plaintext = NoDocument /\ ~tx[p].row.prize
  BY <1>1 DEF RowOk, RowIsVerifiable
<1>3. CASE list = <<>>
  <2>1. Drawn(p) = [tx[p].row EXCEPT !.status = "complete"]
    BY <1>3 DEF Drawn
  <2> QED
    BY <1>1, <1>2, <2>1 DEF RowOk, RowFields, RowIsVerifiable
<1>4. CASE list # <<>>
  <2>1. Drawn(p) = [tx[p].row EXCEPT !.status = "pending", !.plaintext = doc, !.winner = Winner(doc)]
    BY <1>4 DEF Drawn
  <2>2. reasons \in Seq(Reasons \cup {Initial})
    <3>1. IsSeq(seen) /\ \A n \in DOMAIN seen : seen[n].reason \in Reasons \cup {Initial}
      BY VisibleOk DEF RowOk
    <3>2. Len(seen) \in Nat /\ DOMAIN seen = 1..Len(seen)
      BY <3>1, SeqFacts
    <3> QED
      BY <3>1, <3>2
  <2>3. doc \in [reasons : Seq(Reasons \cup {Initial}), tickets : Seq(Viewers)] /\ doc.tickets = list
    BY <1>1, <2>2 DEF Document
  <2>4. doc # NoDocument
    BY <2>3, RaffleAssumption
  <2> HIDE DEF doc
  <2> QED
    BY <1>1, <1>2, <1>4, <2>1, <2>3, <2>4 DEF RowOk, RowFields, RowIsVerifiable
<1> QED
  BY <1>3, <1>4

\* The raffle is drawn, or it is too early.
LEMMA ComputeKeeps == ASSUME RaffleIInv, NEW p \in Requests, ProcessOngoingRaffle(p) PROVE RaffleIInv'
<1>1. tx[p].at = "compute" /\ UNCHANGED <<drawings, tickets, over>> /\ TxOk(tx[p])
  BY DEF ProcessOngoingRaffle, RaffleIInv
<1>2. CASE over
  <2> DEFINE t == [tx[p] EXCEPT !.at = "write", !.row = Drawn(p)]
  <2>1. tx' = [tx EXCEPT ![p] = t]
    BY <1>2 DEF ProcessOngoingRaffle
  <2>2. /\ DOMAIN t = TxFields /\ t.at = "write" /\ t.row = Drawn(p) /\ t.writes = tx[p].writes
        /\ t.op = tx[p].op /\ t.view = tx[p].view /\ t.list = tx[p].list
    BY <1>1 DEF TxOk, TxFields
  <2>3. RowOk(Drawn(p)) /\ Drawn(p).status \in {"pending", "complete"}
    BY <1>1, <1>2, DrawnOk
  <2> HIDE DEF t
  <2>4. RowsOk(t)
    BY <1>1, <2>2, <2>3 DEF TxOk, RowsOk
  <2>5. NumbersOk(t)
    BY <1>1, <2>2 DEF TxOk, NumbersOk, Number
  <2>6. PhaseOk(t)
    BY <1>1, <2>2, <2>3 DEF TxOk, PhaseOk
  <2> QED
    BY <1>1, <2>1, <2>2, <2>4, <2>5, <2>6, CallGoesTo DEF TxOk
<1>3. CASE ~over
  <2> DEFINE t == [tx[p] EXCEPT !.at = "commit"]
  <2>1. tx' = [tx EXCEPT ![p] = t]
    BY <1>3 DEF ProcessOngoingRaffle
  <2>2. /\ DOMAIN t = TxFields /\ t.at = "commit" /\ t.row = tx[p].row /\ t.writes = tx[p].writes
        /\ t.op = tx[p].op /\ t.view = tx[p].view /\ t.list = tx[p].list
    BY <1>1 DEF TxOk, TxFields
  <2> HIDE DEF t
  <2>3. RowsOk(t)
    BY <1>1, <2>2 DEF TxOk, RowsOk
  <2>4. NumbersOk(t)
    BY <1>1, <2>2 DEF TxOk, NumbersOk, Number
  <2>5. t.op # "redraw"
    BY <1>1, <1>3, <2>2 DEF TxOk, PhaseOk
  <2>6. PhaseOk(t)
    BY <1>1, <2>2, <2>5 DEF TxOk, PhaseOk
  <2> QED
    BY <1>1, <2>1, <2>2, <2>3, <2>4, <2>6, CallGoesTo DEF TxOk
<1> QED
  BY <1>2, <1>3

\* The drawing is written with the number it is about: behind the voided one.
LEMMA WriteDrawingKeeps == ASSUME RaffleIInv, NEW p \in Requests, WriteDrawing(p) PROVE RaffleIInv'
<1> DEFINE n == Number(tx[p])
           t == [tx[p] EXCEPT !.at = "commit", !.writes = Write(tx[p].writes, n, tx[p].row)]
<1>1. tx[p].at = "write" /\ tx' = [tx EXCEPT ![p] = t] /\ UNCHANGED <<drawings, tickets, over>>
  BY DEF WriteDrawing
<1>2. TxOk(tx[p])
  BY DEF RaffleIInv
<1>3. /\ DOMAIN t = TxFields /\ t.at = "commit" /\ t.writes = Write(tx[p].writes, n, tx[p].row)
      /\ t.op = tx[p].op /\ t.view = tx[p].view /\ t.row = tx[p].row /\ t.list = tx[p].list
  BY <1>2 DEF TxOk, TxFields
<1>4. Number(t) = n
  BY <1>3 DEF Number
<1> HIDE DEF n, t
<1>5. /\ DOMAIN t.writes = DOMAIN tx[p].writes \cup {n}
      /\ \A i \in DOMAIN t.writes : t.writes[i] = IF i = n THEN tx[p].row ELSE tx[p].writes[i]
  BY <1>3 DEF Write
<1>6. RowOk(tx[p].row) /\ \A i \in DOMAIN tx[p].writes : RowOk(tx[p].writes[i])
  BY <1>2 DEF TxOk, RowsOk
<1>7. \A i \in DOMAIN t.writes : RowOk(t.writes[i])
  BY <1>5, <1>6
<1>8. RowsOk(t)
  BY <1>2, <1>3, <1>7 DEF TxOk, RowsOk
<1>9. NumbersOk(t)
  <2>1. DOMAIN tx[p].writes \subseteq {Len(tx[p].view), n}
    BY <1>2 DEF TxOk, NumbersOk, n
  <2>2. DOMAIN t.writes \subseteq {Len(t.view), Number(t)}
    BY <1>3, <1>4, <1>5, <2>1
  <2> QED
    BY <1>1, <1>2, <1>3, <2>2 DEF TxOk, NumbersOk
<1>10. PhaseOk(t)
  <2>1. tx[p].row.status # "voided" /\ (t.op = "redraw" => over)
    BY <1>1, <1>2, <1>3 DEF TxOk, PhaseOk
  <2>2. ASSUME NEW i \in DOMAIN t.writes, t.writes[i].status = "voided"
        PROVE  t.op = "redraw" /\ i = Len(t.view)
    <3>1. i # n /\ i \in DOMAIN tx[p].writes /\ tx[p].writes[i].status = "voided"
      BY <1>5, <2>1, <2>2
    <3> QED
      BY <1>2, <1>3, <3>1 DEF TxOk, PhaseOk
  <2>3. Number(t) \in DOMAIN t.writes
    BY <1>4, <1>5
  <2> QED
    BY <1>3, <2>1, <2>2, <2>3 DEF PhaseOk
<1> QED
  BY <1>1, <1>3, <1>8, <1>9, <1>10, CallGoesTo DEF TxOk

\* What is committed ends with a drawing that is not voided: a call that voids
\* one has written the one that follows.
LEMMA CommitKeeps == ASSUME RaffleIInv, NEW p \in Requests, Commit(p) PROVE RaffleIInv'
<1> DEFINE w == tx[p].writes
           s == Visible(p)
           k == Len(s)
<1>1. tx[p].at = "commit" /\ drawings' = s /\ tx' = [tx EXCEPT ![p] = NoTransaction] /\ UNCHANGED <<tickets, over>>
  BY DEF Commit
<1>2. TxOk(tx[p]) /\ tickets \in Seq(Viewers) /\ IsSeq(drawings)
  BY DEF RaffleIInv, DrawingsOk
<1>3. /\ IsSeq(s) /\ Len(drawings) <= k /\ \A n \in DOMAIN s : RowOk(s[n])
      /\ k \in DOMAIN w \/ k = Len(drawings)
  BY <1>1, VisibleOk
<1>4. /\ DOMAIN s = DOMAIN drawings \cup DOMAIN w
      /\ \A n \in DOMAIN s : s[n] = IF n \in DOMAIN w THEN w[n] ELSE drawings[n]
  BY DEF Visible
<1> HIDE DEF s, w
<1>5. k \in Nat /\ DOMAIN s = 1..k /\ Len(drawings) \in Nat
  BY <1>2, <1>3, SeqFacts
<1>6. ASSUME k >= 1 PROVE s[k].status # "voided"
  <2>1. k \in DOMAIN s /\ s[k] = IF k \in DOMAIN w THEN w[k] ELSE drawings[k]
    BY <1>4, <1>5, <1>6
  <2>2. CASE k \in DOMAIN w
    <3> SUFFICES ASSUME w[k].status = "voided" PROVE FALSE
      BY <2>1, <2>2
    <3>1. tx[p].op = "redraw" /\ k = Len(tx[p].view) /\ Number(tx[p]) \in DOMAIN w
      BY <1>1, <1>2, <2>2 DEF TxOk, PhaseOk, w
    <3>2. Number(tx[p]) = k + 1
      BY <3>1 DEF Number
    <3>3. k + 1 \in DOMAIN s
      BY <1>4, <3>1, <3>2
    <3> QED
      BY <1>5, <3>3
  <2>3. CASE k \notin DOMAIN w
    <3>1. k = Len(drawings) /\ s[k] = drawings[k]
      BY <1>3, <2>1, <2>3
    <3> QED
      BY <1>6, <3>1 DEF RaffleIInv, DrawingsOk
  <2> QED
    BY <2>2, <2>3
<1>7. DrawingsOk'
  <2>1. \A d : RowOk(d) => RowOk(d)'
    BY <1>1 DEF RowOk, RowIsVerifiable
  <2>2. IsSeq(drawings)'
    BY <1>1, <1>3 DEF IsSeq
  <2>3. (\A n \in DOMAIN drawings : RowOk(drawings[n]))'
    BY <1>1, <1>3, <2>1
  <2>4. (Len(drawings) >= 1 => drawings[Len(drawings)].status # "voided")'
    BY <1>1, <1>6
  <2> QED
    BY <2>2, <2>3, <2>4 DEF DrawingsOk
<1>8. \A t : TxOk(t) => TxOk(t)'
  BY <1>1, <1>2, <1>3, <1>5, TransactionsStay
<1>9. tx' = [q \in Requests |-> tx'[q]] /\ \A q \in Requests : TxOk(tx'[q])
  <2>1. tx = [q \in Requests |-> tx[q]] /\ \A q \in Requests : TxOk(tx[q])
    BY DEF RaffleIInv
  <2>2. TxOk(NoTransaction)
    BY <1>2, IdleOk
  <2>3. \A q \in Requests : tx'[q] = IF q = p THEN NoTransaction ELSE tx[q]
    BY <1>1, <2>1
  <2> QED
    BY <1>1, <2>1, <2>2, <2>3
<1> QED
  BY <1>1, <1>2, <1>7, <1>8, <1>9 DEF RaffleIInv

\* A call that fails leaves the table alone.
LEMMA RollbackKeeps == ASSUME RaffleIInv, NEW p \in Requests, Rollback(p) PROVE RaffleIInv'
BY IdleOk, CallGoesTo DEF Rollback, RaffleIInv

\* Tickets are issued and the period ends.
LEMMA OutsideKeeps ==
  ASSUME RaffleIInv, UNCHANGED <<drawings, tx>>, over => over',
         tickets' = tickets \/ \E u \in Viewers : tickets' = Append(tickets, u)
  PROVE  RaffleIInv'
<1>1. tickets \in Seq(Viewers) /\ tickets' \in Seq(Viewers) /\ Len(drawings) \in Nat
  BY SeqFacts DEF RaffleIInv, DrawingsOk
<1>2. DrawingsOk'
  BY <1>1, RowsStay DEF RaffleIInv, DrawingsOk
<1>3. \A t : TxOk(t) => TxOk(t)'
  BY <1>1, TransactionsStay
<1>4. tx' = [q \in Requests |-> tx'[q]] /\ \A q \in Requests : TxOk(tx'[q])
  BY DEF RaffleIInv
<1> QED
  BY <1>1, <1>2, <1>3, <1>4 DEF RaffleIInv

-----------------------------------------------------------------------------
(* Theorems                                                                *)

\* There are no drawings at the start.
LEMMA RaffleStarts == RaffleInit => RaffleIInv
<1> SUFFICES ASSUME RaffleInit PROVE RaffleIInv
  OBVIOUS
<1>1. IsSeq(<<>>) /\ Len(<<>>) = 0 /\ DOMAIN <<>> = {}
  BY DEF IsSeq
<1>2. DrawingsOk
  BY <1>1 DEF RaffleInit, DrawingsOk
<1>3. tickets \in Seq(Viewers)
  BY DEF RaffleInit
<1>4. \A p \in Requests : TxOk(tx[p])
  BY <1>3, IdleOk DEF RaffleInit
<1> QED
  BY <1>2, <1>3, <1>4 DEF RaffleInit, RaffleIInv

\* Every statement of a call, and what happens outside of raffles, keeps it.
LEMMA RaffleStep == RaffleIInv /\ [RaffleNext]_raffleVars => RaffleIInv'
<1> SUFFICES ASSUME RaffleIInv, [RaffleNext]_raffleVars PROVE RaffleIInv'
  OBVIOUS
<1>1. ASSUME NEW u \in Viewers, IssueTicket(u) PROVE RaffleIInv'
  BY <1>1, OutsideKeeps DEF IssueTicket
<1>2. CASE PeriodEnds
  BY <1>2, OutsideKeeps DEF PeriodEnds
<1>3. CASE UNCHANGED raffleVars
  BY <1>3, OutsideKeeps DEF raffleVars
<1>4. ASSUME NEW p \in Requests, NEW reason \in Reasons, RedrawRaffle(p, reason) PROVE RaffleIInv'
  BY <1>4, RedrawKeeps
<1>5. ASSUME NEW p \in Requests, ProcessRaffle(p) \/ ConfirmRaffleWinner(p) \/ CompleteRaffle(p)
      PROVE  RaffleIInv'
  BY <1>5, ProcessKeeps, ConfirmKeeps, CompleteKeeps
<1>6. ASSUME NEW p \in Requests, \/ InsertFirst(p) \/ VoidLatest(p) \/ ReadEntries(p)
                                  \/ ProcessOngoingRaffle(p) \/ WriteDrawing(p)
                                  \/ Commit(p) \/ Rollback(p)
      PROVE  RaffleIInv'
  BY <1>6, InsertFirstKeeps, VoidLatestKeeps, ReadEntriesKeeps, ComputeKeeps, WriteDrawingKeeps,
     CommitKeeps, RollbackKeeps
<1> QED
  BY <1>1, <1>2, <1>3, <1>4, <1>5, <1>6 DEF RaffleNext

\* Whatever calls overlap, fail or overtake each other, the rows of the table and
\* of the transactions on their way to it are drawings anyone can verify.
THEOREM RaffleInductive == RaffleSpec => []RaffleIInv
  BY RaffleStarts, RaffleStep, PTL DEF RaffleSpec

\* A winner is always a ticket of the document the drawing was made with, which
\* lists the first tickets of the raffle, and only winners are paid.
THEOREM Verifiable == RaffleSpec => []DrawingsAreVerifiable
<1>1. RaffleIInv => DrawingsAreVerifiable
  BY DEF RaffleIInv, DrawingsOk, RowOk, DrawingsAreVerifiable
<1> QED
  BY <1>1, RaffleInductive, PTL

\* No raffle is left with a voided drawing as its latest.
THEOREM NeverLeftVoided == RaffleSpec => []LatestIsNotVoided
<1>1. RaffleIInv => LatestIsNotVoided
  <2> SUFFICES ASSUME RaffleIInv, drawings # <<>> PROVE Last(drawings).status # "voided"
    BY DEF LatestIsNotVoided
  <2> QED
    BY LatestOk DEF RaffleIInv, DrawingsOk
<1> QED
  BY <1>1, RaffleInductive, PTL

-----------------------------------------------------------------------------
(* What a call is up to                                                    *)

\* Which arrow a call takes, if the drawings are those it read: from the status
\* of the latest one to that of the row it writes in its place, which a redraw
\* voids to add a drawn one behind it.
Confirms(t) ==
  /\ t.at \in {"write", "commit"}
  /\ <<t.view[Len(t.view)].status, t.row.status>> \in {<<"pending", "confirmed">>, <<"confirmed", "complete">>}
  /\ DOMAIN t.writes \subseteq {Len(t.view)}
  /\ \A n \in DOMAIN t.writes : t.writes[n].status = t.row.status

Redraws(t) ==
  /\ t.at \in {"void", "entries", "compute", "write", "commit"}
  /\ t.view[Len(t.view)].status = "pending"
  /\ t.at # "void" => Len(t.view) \in DOMAIN t.writes /\ t.writes[Len(t.view)].status = "voided"
  /\ t.at = "write" => t.row.status \in {"pending", "complete"}
  /\ t.at = "commit" => /\ Len(t.view) + 1 \in DOMAIN t.writes
                        /\ t.writes[Len(t.view) + 1].status \in {"pending", "complete"}

Processes(t) ==
  /\ t.at \in {"insert", "entries", "compute", "write", "commit"}
  /\ t.at = "insert" => t.view = <<>>
  /\ t.at \in {"entries", "compute"} => t.row.status = t.view[Len(t.view)].status
  /\ t.at = "write" => /\ t.view[Len(t.view)].status = "ongoing"
                       /\ t.row.status \in {"pending", "complete"}
  /\ \A n \in DOMAIN t.writes :
       /\ n = Len(t.view) /\ t.view[n].status = "ongoing"
       /\ t.writes[n] = t.view[n] \/ t.writes[n].status \in {"pending", "complete"}

\* The first drawing of a raffle is the initial one.
StartsInitial(t) ==
  /\ t.view # <<>> => t.view[1].reason = Initial
  /\ 1 \in DOMAIN t.writes => t.writes[1].reason = Initial
  /\ Number(t) <= 1 => t.row.reason = Initial

PlanOk(t) ==
  /\ t.op \in {"process", "confirm", "complete", "redraw"} \/ t.at = "idle"
  /\ t.op \in {"confirm", "complete"} => Confirms(t)
  /\ t.op = "redraw" => Redraws(t)
  /\ t.op = "process" => Processes(t)
  /\ StartsInitial(t)

Planned ==
  /\ drawings # <<>> => drawings[1].reason = Initial
  /\ \A p \in Requests : PlanOk(tx[p])

\* A call whose next record is known, while nothing is committed.
LEMMA PlanGoes ==
  ASSUME RaffleIInv, Planned, NEW p \in Requests, NEW t, drawings' = drawings, tx' = [tx EXCEPT ![p] = t],
         PlanOk(t)
  PROVE  Planned'
<1>1. drawings # <<>> => drawings[1].reason = Initial
  BY DEF Planned
<1>2. ASSUME NEW q \in Requests PROVE PlanOk(tx'[q])
  <2>1. tx'[q] = IF q = p THEN t ELSE tx[q]
    BY DEF RaffleIInv
  <2> QED
    BY <2>1 DEF Planned
<1>3. \A q \in Requests : PlanOk(tx[q])'
  BY <1>2 DEF PlanOk, Confirms, Redraws, Processes, StartsInitial, Number
<1> QED
  BY <1>1, <1>3 DEF Planned

\* A call that is not there is up to nothing.
LEMMA IdlePlan == PlanOk(NoTransaction)
<1>1. /\ NoTransaction.op = "none" /\ NoTransaction.view = <<>> /\ NoTransaction.writes = <<>>
      /\ NoTransaction.at = "idle" /\ NoTransaction.row.reason = Initial
  BY DEF NoTransaction, NewDrawing
<1>2. DOMAIN <<>> = {}
  OBVIOUS
<1> QED
  BY <1>1, <1>2 DEF PlanOk, StartsInitial

\* The first statement of an operation.
LEMMA BeginPlan ==
  ASSUME RaffleIInv, Planned, NEW p \in Requests, NEW op, NEW next, NEW row, Begin(p, op, next, row),
         op \in {"process", "confirm", "complete", "redraw"},
         Len(drawings) + (IF op = "redraw" THEN 1 ELSE 0) <= 1 => row.reason = Initial,
         op \in {"confirm", "complete"} =>
           /\ next = "write"
           /\ <<drawings[Len(drawings)].status, row.status>>
                \in {<<"pending", "confirmed">>, <<"confirmed", "complete">>},
         op = "redraw" => next = "void" /\ drawings[Len(drawings)].status = "pending",
         op = "process" => \/ next = "insert" /\ drawings = <<>>
                           \/ next = "entries" /\ row.status = drawings[Len(drawings)].status
  PROVE  Planned'
<1> DEFINE t == [NoTransaction EXCEPT !.op = op, !.at = next, !.view = drawings, !.row = row]
<1>1. drawings' = drawings /\ tx' = [tx EXCEPT ![p] = t]
  BY DEF Begin
<1>2. t.op = op /\ t.at = next /\ t.view = drawings /\ t.row = row /\ t.writes = <<>>
  BY DEF NoTransaction
<1> HIDE DEF t
<1>3. DOMAIN t.writes = {}
  BY <1>2
<1>4. StartsInitial(t)
  BY <1>2, <1>3 DEF StartsInitial, Number, Planned
<1>5. op \in {"confirm", "complete"} => Confirms(t)
  BY <1>2, <1>3 DEF Confirms
<1>6. op = "redraw" => Redraws(t)
  BY <1>2, <1>3 DEF Redraws
<1>7. op = "process" => Processes(t)
  BY <1>2, <1>3 DEF Processes
<1> QED
  BY <1>1, <1>2, <1>4, <1>5, <1>6, <1>7, PlanGoes DEF PlanOk

\* The operations begin with what they have read of the latest drawing.
LEMMA OperationsPlan ==
  ASSUME RaffleIInv, Planned, NEW p \in Requests,
         \/ ProcessRaffle(p) \/ ConfirmRaffleWinner(p) \/ CompleteRaffle(p)
         \/ \E reason \in Reasons : RedrawRaffle(p, reason)
  PROVE  Planned'
<1>1. Len(drawings) \in Nat /\ (drawings # <<>> => Len(drawings) >= 1 /\ Last(drawings) = drawings[Len(drawings)])
  BY SeqFacts, LatestOk DEF RaffleIInv, DrawingsOk
<1>2. drawings # <<>> => /\ DOMAIN Last(drawings) = RowFields
                         /\ Last(drawings).status # "voided"
                         /\ Len(drawings) <= 1 => Last(drawings).reason = Initial
  <2> SUFFICES ASSUME drawings # <<>>
               PROVE  /\ DOMAIN Last(drawings) = RowFields
                      /\ Last(drawings).status # "voided"
                      /\ Len(drawings) <= 1 => Last(drawings).reason = Initial
    OBVIOUS
  <2>1. DOMAIN Last(drawings) = RowFields
    BY LatestOk DEF RowOk
  <2>2. Last(drawings).status # "voided"
    BY <1>1 DEF RaffleIInv, DrawingsOk
  <2>3. Len(drawings) <= 1 => Last(drawings).reason = Initial
    BY <1>1 DEF Planned
  <2> QED
    BY <2>1, <2>2, <2>3
<1>3. CASE ProcessRaffle(p)
  <2>1. CASE drawings = <<>>
    <3>1. Begin(p, "process", "insert", NewDrawing(Initial)) /\ NewDrawing(Initial).reason = Initial
      BY <1>3, <2>1 DEF ProcessRaffle, NewDrawing
    <3> QED
      BY <2>1, <3>1, BeginPlan
  <2>2. CASE drawings # <<>>
    <3>1. Begin(p, "process", "entries", Last(drawings))
      BY <1>3, <2>2 DEF ProcessRaffle
    <3> QED
      BY <1>1, <1>2, <2>2, <3>1, BeginPlan
  <2> QED
    BY <2>1, <2>2
<1>4. CASE ConfirmRaffleWinner(p)
  <2> DEFINE row == [Last(drawings) EXCEPT !.status = "confirmed"]
  <2>1. drawings # <<>> /\ Last(drawings).status = "pending" /\ Begin(p, "confirm", "write", row)
    BY <1>4 DEF ConfirmRaffleWinner
  <2>2. row.status = "confirmed" /\ row.reason = Last(drawings).reason
    BY <1>2, <2>1 DEF RowFields
  <2> HIDE DEF row
  <2> QED
    BY <1>1, <1>2, <2>1, <2>2, BeginPlan
<1>5. CASE CompleteRaffle(p)
  <2> DEFINE row == [Last(drawings) EXCEPT !.status = "complete", !.prize = TRUE]
  <2>1. drawings # <<>> /\ Last(drawings).status = "confirmed" /\ Begin(p, "complete", "write", row)
    BY <1>5 DEF CompleteRaffle
  <2>2. row.status = "complete" /\ row.reason = Last(drawings).reason
    BY <1>2, <2>1 DEF RowFields
  <2> HIDE DEF row
  <2> QED
    BY <1>1, <1>2, <2>1, <2>2, BeginPlan
<1>6. ASSUME NEW reason \in Reasons, RedrawRaffle(p, reason) PROVE Planned'
  <2>1. /\ drawings # <<>> /\ Last(drawings).status \in {"pending", "voided"}
        /\ Begin(p, "redraw", "void", NewDrawing(reason))
    BY <1>6 DEF RedrawRaffle
  <2>2. Last(drawings).status = "pending" /\ Len(drawings) + 1 > 1
    BY <1>1, <1>2, <2>1
  <2> QED
    BY <1>1, <2>1, <2>2, BeginPlan
<1> QED
  BY <1>3, <1>4, <1>5, <1>6

\* The first drawing is inserted.
LEMMA InsertFirstPlan == ASSUME RaffleIInv, Planned, NEW p \in Requests, InsertFirst(p) PROVE Planned'
<1> DEFINE t == [tx[p] EXCEPT !.at = "entries", !.view = <<tx[p].row>>, !.writes = <<tx[p].row>>]
<1>1. tx[p].at = "insert" /\ tx' = [tx EXCEPT ![p] = t] /\ drawings' = drawings
  BY DEF InsertFirst
<1>2. TxOk(tx[p]) /\ PlanOk(tx[p])
  BY DEF RaffleIInv, Planned
<1>3. /\ t.at = "entries" /\ t.view = <<tx[p].row>> /\ t.writes = <<tx[p].row>>
      /\ t.op = tx[p].op /\ t.row = tx[p].row
  BY <1>2 DEF TxOk, TxFields
<1>4. tx[p].op = "process" /\ tx[p].view = <<>> /\ tx[p].row.status = "ongoing"
  BY <1>1, <1>2 DEF TxOk, PhaseOk, PlanOk, Processes
<1>5. tx[p].row.reason = Initial
  <2>1. Number(tx[p]) = 0
    BY <1>4 DEF Number
  <2> QED
    BY <1>2, <2>1 DEF PlanOk, StartsInitial
<1> HIDE DEF t
<1>6. Len(t.view) = 1 /\ DOMAIN t.writes = {1} /\ t.writes[1] = tx[p].row /\ t.view[1] = tx[p].row
  BY <1>3
<1>7. StartsInitial(t)
  BY <1>3, <1>5, <1>6 DEF StartsInitial
<1>8. Processes(t)
  BY <1>3, <1>4, <1>6 DEF Processes
<1> QED
  BY <1>1, <1>3, <1>4, <1>7, <1>8, PlanGoes DEF PlanOk

\* The latest drawing, which is pending, is voided.
LEMMA VoidLatestPlan == ASSUME RaffleIInv, Planned, NEW p \in Requests, VoidLatest(p) PROVE Planned'
<1> DEFINE m == Len(tx[p].view)
           voided == [tx[p].view[m] EXCEPT !.status = "voided"]
           t == [tx[p] EXCEPT !.at = "entries", !.writes = Write(tx[p].writes, m, voided)]
<1>1. tx[p].at = "void" /\ tx' = [tx EXCEPT ![p] = t] /\ drawings' = drawings
  BY DEF VoidLatest
<1>2. TxOk(tx[p]) /\ PlanOk(tx[p])
  BY DEF RaffleIInv, Planned
<1>3. /\ t.at = "entries" /\ t.writes = Write(tx[p].writes, m, voided)
      /\ t.op = tx[p].op /\ t.view = tx[p].view /\ t.row = tx[p].row
  BY <1>2 DEF TxOk, TxFields
<1>4. tx[p].op = "redraw" /\ Redraws(tx[p]) /\ DOMAIN tx[p].writes = {} /\ m >= 1
  BY <1>1, <1>2 DEF TxOk, PhaseOk, NumbersOk, PlanOk
<1>5. DOMAIN tx[p].view[m] = RowFields /\ tx[p].view # <<>>
  <2>1. Len(tx[p].view) \in Nat /\ DOMAIN tx[p].view = 1..Len(tx[p].view)
    BY <1>2, SeqFacts DEF TxOk, RowsOk
  <2>2. m \in DOMAIN tx[p].view
    BY <1>4, <2>1
  <2> QED
    BY <1>2, <1>4, <2>2 DEF TxOk, RowsOk, RowOk
<1>6. voided.status = "voided" /\ voided.reason = tx[p].view[m].reason
  BY <1>5 DEF RowFields
<1>7. DOMAIN t.writes = {m} /\ t.writes[m] = voided
  BY <1>3, <1>4 DEF Write
<1> HIDE DEF t, voided
<1>8. StartsInitial(t)
  <2>1. Number(t) = Number(tx[p])
    BY <1>3 DEF Number
  <2>2. 1 \in DOMAIN t.writes => t.writes[1].reason = Initial
    BY <1>2, <1>5, <1>6, <1>7 DEF PlanOk, StartsInitial
  <2> QED
    BY <1>2, <1>3, <2>1, <2>2 DEF PlanOk, StartsInitial
<1>9. Redraws(t)
  BY <1>3, <1>4, <1>6, <1>7 DEF Redraws
<1> QED
  BY <1>1, <1>3, <1>4, <1>8, <1>9, PlanGoes DEF PlanOk

\* Steps that write nothing: a drawn row is drawn or complete, and what a redraw
\* draws is always ongoing.
LEMMA ComputePlan ==
  ASSUME RaffleIInv, Planned, NEW p \in Requests, ReadEntries(p) \/ ProcessOngoingRaffle(p)
  PROVE  Planned'
<1>1. TxOk(tx[p]) /\ PlanOk(tx[p])
  BY DEF RaffleIInv, Planned
<1>2. PICK t : /\ tx' = [tx EXCEPT ![p] = t]
               /\ t.op = tx[p].op /\ t.view = tx[p].view /\ t.writes = tx[p].writes
               /\ \/ /\ tx[p].at = "entries" /\ t.row = tx[p].row
                     /\ t.at = IF tx[p].row.status = "ongoing" THEN "compute" ELSE "commit"
                  \/ /\ tx[p].at = "compute" /\ t.at = "write" /\ t.row = Drawn(p) /\ over
                  \/ /\ tx[p].at = "compute" /\ t.at = "commit" /\ t.row = tx[p].row /\ ~over
  <2>1. CASE ReadEntries(p)
    <3> DEFINE next == IF tx[p].row.status = "ongoing" THEN "compute" ELSE "commit"
    <3> WITNESS [tx[p] EXCEPT !.list = tickets, !.at = next]
    <3> QED
      BY <1>1, <2>1 DEF ReadEntries, TxOk, TxFields
  <2>2. CASE ProcessOngoingRaffle(p) /\ over
    <3> WITNESS [tx[p] EXCEPT !.at = "write", !.row = Drawn(p)]
    <3> QED
      BY <1>1, <2>2 DEF ProcessOngoingRaffle, TxOk, TxFields
  <2>3. CASE ProcessOngoingRaffle(p) /\ ~over
    <3> WITNESS [tx[p] EXCEPT !.at = "commit"]
    <3> QED
      BY <1>1, <2>3 DEF ProcessOngoingRaffle, TxOk, TxFields
  <2> QED
    BY <2>1, <2>2, <2>3
<1>3. drawings' = drawings
  BY DEF ReadEntries, ProcessOngoingRaffle
<1>4. tx[p].at \in {"entries", "compute"} /\ (tx[p].at = "compute" => tx[p].row.status = "ongoing")
  BY <1>1, <1>2 DEF TxOk, PhaseOk
<1>5. tx[p].op \notin {"confirm", "complete"}
  BY <1>1, <1>4 DEF PlanOk, Confirms
<1>6. tx[p].op = "redraw" => tx[p].row.status = "ongoing" /\ over
  BY <1>1, <1>4 DEF TxOk, PhaseOk
<1>7. t.row.reason = tx[p].row.reason /\ (t.at = "write" => t.row.status \in {"pending", "complete"})
  <2>1. CASE t.at = "write"
    <3>1. tx[p].at = "compute" /\ over /\ t.row = Drawn(p)
      BY <1>2, <2>1
    <3>2. DOMAIN tx[p].row = RowFields
      BY <1>1 DEF TxOk, RowsOk, RowOk
    <3>3. Drawn(p).reason = tx[p].row.reason
      BY <3>2 DEF Drawn, RowFields
    <3> QED
      BY <3>1, <3>3, DrawnOk
  <2>2. CASE t.at # "write"
    BY <1>2, <2>2
  <2> QED
    BY <2>1, <2>2
<1>8. StartsInitial(t)
  <2>1. Number(t) = Number(tx[p])
    BY <1>2 DEF Number
  <2> QED
    BY <1>1, <1>2, <1>7, <2>1 DEF PlanOk, StartsInitial
<1>9. t.op = "redraw" => Redraws(t)
  <2> SUFFICES ASSUME t.op = "redraw" PROVE Redraws(t)
    OBVIOUS
  <2>1. Redraws(tx[p]) /\ t.at \in {"compute", "write"}
    BY <1>1, <1>2, <1>6 DEF PlanOk
  <2> QED
    BY <1>2, <1>4, <1>7, <2>1 DEF Redraws
<1>10. t.op = "process" => Processes(t)
  <2> SUFFICES ASSUME t.op = "process" PROVE Processes(t)
    OBVIOUS
  <2>1. Processes(tx[p]) /\ t.at \in {"compute", "write", "commit"}
    BY <1>1, <1>2 DEF PlanOk
  <2>2. tx[p].row.status = tx[p].view[Len(tx[p].view)].status
    BY <1>4, <2>1 DEF Processes
  <2>3. /\ t.at = "compute" => t.row.status = t.view[Len(t.view)].status
        /\ t.at = "write" => t.view[Len(t.view)].status = "ongoing"
    BY <1>2, <1>4, <2>2
  <2> QED
    BY <1>2, <1>7, <2>1, <2>3 DEF Processes
<1>11. t.op \in {"process", "confirm", "complete", "redraw"}
  BY <1>1, <1>2, <1>4 DEF PlanOk
<1> QED
  BY <1>2, <1>3, <1>5, <1>8, <1>9, <1>10, <1>11, PlanGoes DEF PlanOk

\* The row of the call is written.
LEMMA WriteDrawingPlan == ASSUME RaffleIInv, Planned, NEW p \in Requests, WriteDrawing(p) PROVE Planned'
<1> DEFINE n == Number(tx[p])
           m == Len(tx[p].view)
           t == [tx[p] EXCEPT !.at = "commit", !.writes = Write(tx[p].writes, n, tx[p].row)]
<1>1. tx[p].at = "write" /\ tx' = [tx EXCEPT ![p] = t] /\ drawings' = drawings
  BY DEF WriteDrawing
<1>2. TxOk(tx[p]) /\ PlanOk(tx[p])
  BY DEF RaffleIInv, Planned
<1>3. /\ t.at = "commit" /\ t.writes = Write(tx[p].writes, n, tx[p].row)
      /\ t.op = tx[p].op /\ t.view = tx[p].view /\ t.row = tx[p].row
  BY <1>2 DEF TxOk, TxFields
<1>4. Number(t) = n
  BY <1>3 DEF Number
<1>5. m \in Nat /\ n = IF tx[p].op = "redraw" THEN m + 1 ELSE m + 0
  BY <1>2, SeqFacts DEF Number, TxOk, RowsOk
<1> HIDE DEF n, t
<1>6. /\ DOMAIN t.writes = DOMAIN tx[p].writes \cup {n}
      /\ \A i \in DOMAIN t.writes : t.writes[i] = IF i = n THEN tx[p].row ELSE tx[p].writes[i]
  BY <1>3 DEF Write
<1>7. StartsInitial(t)
  <2>1. 1 \in DOMAIN t.writes => t.writes[1].reason = Initial
    BY <1>2, <1>6 DEF PlanOk, StartsInitial, n
  <2> QED
    BY <1>2, <1>3, <1>4, <2>1 DEF PlanOk, StartsInitial, n
<1>8. tx[p].op \in {"confirm", "complete"} => Confirms(t)
  <2> SUFFICES ASSUME tx[p].op \in {"confirm", "complete"} PROVE Confirms(t)
    OBVIOUS
  <2>1. n = m /\ Confirms(tx[p])
    BY <1>2, <1>5 DEF PlanOk
  <2> QED
    BY <1>3, <1>6, <2>1 DEF Confirms
<1>9. tx[p].op = "redraw" => Redraws(t)
  <2> SUFFICES ASSUME tx[p].op = "redraw" PROVE Redraws(t)
    OBVIOUS
  <2>1. n = m + 1 /\ m # n /\ Redraws(tx[p])
    BY <1>2, <1>5 DEF PlanOk
  <2>2. /\ m \in DOMAIN tx[p].writes /\ tx[p].writes[m].status = "voided"
        /\ tx[p].row.status \in {"pending", "complete"} /\ tx[p].view[m].status = "pending"
    BY <1>1, <2>1 DEF Redraws
  <2>3. /\ m \in DOMAIN t.writes /\ t.writes[m].status = "voided"
        /\ n \in DOMAIN t.writes /\ t.writes[n].status \in {"pending", "complete"}
    BY <1>6, <2>1, <2>2
  <2> QED
    BY <1>3, <2>1, <2>2, <2>3 DEF Redraws
<1>10. tx[p].op = "process" => Processes(t)
  <2> SUFFICES ASSUME tx[p].op = "process" PROVE Processes(t)
    OBVIOUS
  <2>1. n = m /\ Processes(tx[p])
    BY <1>2, <1>5 DEF PlanOk
  <2>2. tx[p].view[m].status = "ongoing" /\ tx[p].row.status \in {"pending", "complete"}
    BY <1>1, <2>1 DEF Processes
  <2>3. ASSUME NEW i \in DOMAIN t.writes
        PROVE  i = m /\ t.view[i].status = "ongoing" /\ t.writes[i].status \in {"pending", "complete"}
    BY <1>3, <1>6, <2>1, <2>2 DEF Processes
  <2> QED
    BY <1>3, <2>3 DEF Processes
<1>11. t.op \in {"process", "confirm", "complete", "redraw"}
  BY <1>1, <1>2, <1>3 DEF PlanOk
<1> QED
  BY <1>1, <1>3, <1>7, <1>8, <1>9, <1>10, <1>11, PlanGoes DEF PlanOk

\* The call is over, and what it has written is there.
LEMMA CommitPlan == ASSUME RaffleIInv, Planned, NEW p \in Requests, Commit(p) PROVE Planned'
<1>1. drawings' = Visible(p) /\ tx' = [tx EXCEPT ![p] = NoTransaction]
  BY DEF Commit
<1>2. ASSUME drawings' # <<>> PROVE drawings'[1].reason = Initial
  <2>1. IsSeq(Visible(p)) /\ tx[p].at = "commit"
    BY VisibleOk DEF Commit
  <2>2. 1 \in DOMAIN Visible(p)
    BY <1>1, <1>2, <2>1, SeqFacts DEF IsSeq
  <2>3. \/ 1 \in DOMAIN tx[p].writes /\ Visible(p)[1] = tx[p].writes[1]
        \/ 1 \in DOMAIN drawings /\ Visible(p)[1] = drawings[1]
    BY <2>2 DEF Visible
  <2>4. 1 \in DOMAIN drawings => drawings # <<>>
    OBVIOUS
  <2> QED
    BY <1>1, <2>3, <2>4 DEF Planned, PlanOk, StartsInitial
<1>3. ASSUME NEW q \in Requests PROVE PlanOk(tx'[q])
  <2>1. tx'[q] = IF q = p THEN NoTransaction ELSE tx[q]
    BY <1>1 DEF RaffleIInv
  <2> QED
    BY <2>1, IdlePlan DEF Planned
<1>4. \A q \in Requests : PlanOk(tx[q])'
  BY <1>3 DEF PlanOk, Confirms, Redraws, Processes, StartsInitial, Number
<1> QED
  BY <1>2, <1>4 DEF Planned

\* Every call keeps to its plan.
LEMMA PlanKept == ASSUME RaffleIInv, Planned, [RaffleNext]_raffleVars PROVE Planned'
<1>1. ASSUME UNCHANGED <<drawings, tx>> PROVE Planned'
  <2>1. \A q \in Requests : PlanOk(tx[q])' <=> PlanOk(tx[q])
    BY <1>1 DEF PlanOk, Confirms, Redraws, Processes, StartsInitial, Number
  <2> QED
    BY <1>1, <2>1 DEF Planned
<1>2. ASSUME NEW p \in Requests, Rollback(p) PROVE Planned'
  BY <1>2, IdlePlan, PlanGoes DEF Rollback
<1> QED
  BY <1>1, <1>2, OperationsPlan, InsertFirstPlan, VoidLatestPlan, ComputePlan, WriteDrawingPlan, CommitPlan
     DEF RaffleNext, raffleVars, IssueTicket, PeriodEnds

\* What a call commits while the drawings are those it has read, or while there
\* are none and it brings the first one.
LEMMA FreshCommit ==
  ASSUME RaffleIInv, Planned, NEW p \in Requests, Commit(p), drawings' # drawings,
         tx[p].view = drawings \/ (tx[p].op = "process" /\ drawings = <<>>)
  PROVE  Arrows(drawings, drawings')
<1> DEFINE w == tx[p].writes
           m == Len(tx[p].view)
           s == Visible(p)
<1>1. tx[p].at = "commit" /\ drawings' = s
  BY DEF Commit
<1>2. TxOk(tx[p]) /\ PlanOk(tx[p]) /\ IsSeq(drawings)
  BY DEF RaffleIInv, DrawingsOk, Planned
<1>3. /\ IsSeq(s) /\ Len(drawings) <= Len(s)
      /\ Len(s) \in DOMAIN w \/ Len(s) = Len(drawings)
  BY <1>1, VisibleOk
<1>4. /\ DOMAIN s = DOMAIN drawings \cup DOMAIN w
      /\ \A n \in DOMAIN s : s[n] = IF n \in DOMAIN w THEN w[n] ELSE drawings[n]
  BY DEF Visible
<1>5. /\ m \in Nat /\ m >= 1 /\ DOMAIN w \subseteq {m, Number(tx[p])}
      /\ m <= Len(drawings) \/ (tx[p].op = "process" /\ m = 1)
  BY <1>1, <1>2, SeqFacts DEF TxOk, RowsOk, NumbersOk
<1>6. Len(s) \in Nat /\ DOMAIN s = 1..Len(s) /\ Len(drawings) \in Nat /\ DOMAIN drawings = 1..Len(drawings)
  BY <1>2, <1>3, SeqFacts
<1> HIDE DEF s, w, m
<1>7. DOMAIN w # {}
  <2> SUFFICES ASSUME DOMAIN w = {} PROVE FALSE
    OBVIOUS
  <2>1. Len(s) = Len(drawings) /\ \A n \in 1..Len(s) : s[n] = drawings[n]
    BY <1>3, <1>4, <1>6
  <2>2. s = drawings
    BY <1>2, <1>3, <1>6, <2>1 DEF IsSeq
  <2> QED
    BY <1>1, <2>2
<1>8. CASE drawings = <<>>
  <2>1. tx[p].op = "process" /\ m = 1
    BY <1>5, <1>8
  <2>2. Processes(tx[p]) /\ StartsInitial(tx[p])
    BY <1>2, <2>1 DEF PlanOk
  <2>3. 1 \in DOMAIN w /\ DOMAIN s = DOMAIN w
    BY <1>4, <1>7, <1>8, <2>1, <2>2 DEF Processes, m, w
  <2>4. s[1] = w[1] /\ w[1].reason = Initial
    BY <1>4, <2>2, <2>3 DEF StartsInitial, w
  <2>5. w[1].status \in {"ongoing", "pending", "complete"}
    BY <2>2, <2>3 DEF Processes, w
  <2> QED
    BY <1>1, <1>8, <2>4, <2>5 DEF Arrows
<1>9. CASE drawings # <<>> /\ tx[p].view = drawings
  <2>1. m = Len(drawings) /\ drawings[m] = tx[p].view[m]
    BY <1>9 DEF m
  <2>2. SubSeq(drawings, 1, m - 1) = SubSeq(s, 1, m - 1)
    <3>1. \A n \in 1..(m - 1) : n \notin DOMAIN w
      <4>1. Number(tx[p]) = IF tx[p].op = "redraw" THEN m + 1 ELSE m + 0
        BY DEF Number, m
      <4> QED
        BY <1>5, <4>1
    <3>2. \A n \in 1..(m - 1) : s[n] = drawings[n]
      BY <1>3, <1>4, <1>5, <1>6, <2>1, <3>1
    <3>3. m - 1 \in 0..Len(drawings) /\ m - 1 \in 0..Len(s)
      <4>1. m \in Nat /\ m >= 1 /\ m <= Len(drawings) /\ m <= Len(s)
        BY <1>3, <1>5, <2>1
      <4>2. Len(drawings) \in Nat /\ Len(s) \in Nat
        BY <1>6
      <4> QED
        BY <4>1, <4>2
    <3>4. SubSeq(drawings, 1, m - 1) = [n \in 1..(m - 1) |-> drawings[n]]
      BY <1>2, <3>3, FirstTerms
    <3>5. SubSeq(s, 1, m - 1) = [n \in 1..(m - 1) |-> s[n]]
      BY <1>3, <3>3, FirstTerms
    <3> QED
      BY <3>2, <3>4, <3>5
  <2>3. CASE tx[p].op \in {"confirm", "complete"}
    <3>1. Confirms(tx[p])
      BY <1>2, <2>3 DEF PlanOk
    <3>2. m \in DOMAIN w /\ DOMAIN w = {m}
      BY <1>7, <3>1 DEF Confirms, m, w
    <3>3. Len(s) = m /\ s[m] = w[m]
      BY <1>3, <1>4, <1>6, <2>1, <3>2
    <3>4. <<drawings[m].status, s[m].status>> \in {<<"pending", "confirmed">>, <<"confirmed", "complete">>}
      BY <2>1, <3>1, <3>2, <3>3 DEF Confirms, m, w
    <3> QED
      BY <1>1, <2>1, <2>2, <3>3, <3>4 DEF Arrows
  <2>4. CASE tx[p].op = "redraw"
    <3>1. Redraws(tx[p])
      BY <1>2, <2>4 DEF PlanOk
    <3>2. /\ m \in DOMAIN w /\ w[m].status = "voided" /\ drawings[m].status = "pending"
          /\ m + 1 \in DOMAIN w /\ w[m + 1].status \in {"pending", "complete"}
      BY <1>1, <2>1, <3>1 DEF Redraws, m, w
    <3>3. DOMAIN w \subseteq {m, m + 1}
      BY <1>5, <2>4 DEF Number, m
    <3>4. Len(s) = m + 1 /\ s[m] = w[m] /\ s[m + 1] = w[m + 1]
      BY <1>3, <1>4, <1>5, <1>6, <2>1, <3>2, <3>3
    <3> QED
      BY <1>1, <2>1, <2>2, <3>2, <3>4 DEF Arrows
  <2>5. CASE tx[p].op = "process"
    <3>1. Processes(tx[p])
      BY <1>2, <2>5 DEF PlanOk
    <3>2. DOMAIN w = {m}
      BY <1>7, <3>1 DEF Processes, m, w
    <3>3. Len(s) = m /\ s[m] = w[m]
      BY <1>3, <1>4, <1>6, <2>1, <3>2
    <3>4. w[m] # drawings[m]
      <4> SUFFICES ASSUME w[m] = drawings[m] PROVE FALSE
        OBVIOUS
      <4>1. \A n \in 1..Len(s) : s[n] = drawings[n]
        BY <1>4, <1>6, <3>2
      <4>2. s = drawings
        BY <1>2, <1>3, <1>6, <2>1, <3>3, <4>1 DEF IsSeq
      <4> QED
        BY <1>1, <4>2
    <3>5. drawings[m].status = "ongoing" /\ s[m].status \in {"pending", "complete"}
      BY <2>1, <3>1, <3>2, <3>3, <3>4 DEF Processes, m, w
    <3> QED
      BY <1>1, <2>1, <2>2, <3>3, <3>5 DEF Arrows
  <2>6. tx[p].op \in {"process", "confirm", "complete", "redraw"}
    BY <1>1, <1>2 DEF PlanOk, StartsInitial
  <2> QED
    BY <2>3, <2>4, <2>5, <2>6
<1> QED
  BY <1>8, <1>9

\* A call that commits what it has made of the drawings that are there takes the
\* raffle along one arrow of its life (types/raffle_drawing.go:13-19), whatever
\* other calls have begun meanwhile: only those that overtake each other do not.
THEOREM FreshCommitsFollow == RaffleSpec => FreshCommitsFollowArrows
<1>1. RaffleInit => Planned
  BY IdlePlan DEF RaffleInit, Planned
<1>2. RaffleIInv /\ Planned /\ [RaffleNext]_raffleVars => Planned'
  BY PlanKept
<1>3. ASSUME RaffleIInv, Planned, [RaffleNext]_raffleVars, NEW p \in Requests,
             tx[p].at = "commit", tx[p]' = NoTransaction, drawings' # drawings,
             tx[p].view = drawings \/ (tx[p].op = "process" /\ drawings = <<>>)
      PROVE  Arrows(drawings, drawings')
  <2>1. PICK q \in Requests : Commit(q)
    <3>1. ASSUME NEW q \in Requests, NEW op, NEW next, NEW row, Begin(q, op, next, row) PROVE UNCHANGED drawings
      BY <3>1 DEF Begin
    <3>2. ASSUME NEW q \in Requests,
                 \/ ProcessRaffle(q) \/ ConfirmRaffleWinner(q) \/ CompleteRaffle(q)
                 \/ \E reason \in Reasons : RedrawRaffle(q, reason)
          PROVE  UNCHANGED drawings
      BY <3>1, <3>2 DEF ProcessRaffle, ConfirmRaffleWinner, CompleteRaffle, RedrawRaffle
    <3>3. ASSUME NEW q \in Requests,
                 \/ InsertFirst(q) \/ VoidLatest(q) \/ ReadEntries(q) \/ ProcessOngoingRaffle(q)
                 \/ WriteDrawing(q) \/ Rollback(q)
          PROVE  UNCHANGED drawings
      BY <3>3 DEF InsertFirst, VoidLatest, ReadEntries, ProcessOngoingRaffle, WriteDrawing, Rollback
    <3>4. (\E u \in Viewers : IssueTicket(u)) \/ PeriodEnds \/ UNCHANGED raffleVars => UNCHANGED drawings
      BY DEF IssueTicket, PeriodEnds, raffleVars
    <3> QED
      BY <1>3, <3>2, <3>3, <3>4 DEF RaffleNext
  <2>2. q = p
    <3>1. q # p => tx'[p] = tx[p]
      BY <2>1 DEF Commit, RaffleIInv
    <3> QED
      BY <1>3, <3>1 DEF NoTransaction
  <2> QED
    BY <1>3, <2>1, <2>2, FreshCommit
<1>4. RaffleIInv /\ Planned /\ [RaffleNext]_raffleVars
        => [\A p \in Requests : tx[p].at = "commit" /\ tx[p]' = NoTransaction /\ drawings' # drawings
               /\ (tx[p].view = drawings \/ (tx[p].op = "process" /\ drawings = <<>>))
             => Arrows(drawings, drawings')]_raffleVars
  BY <1>3
<1> QED
  BY <1>1, <1>2, <1>4, RaffleInductive, PTL DEF RaffleSpec, FreshCommitsFollowArrows

-----------------------------------------------------------------------------
(***************************************************************************)
(* Safety of withdrawals, for any number of users, calls, blocks and       *)
(* stops.                                                                  *)
(*                                                                         *)
(* A call that has inserted its rows keeps others from inserting for the   *)
(* same users (CommitsAreFree), so what the worker has read stays pending  *)
(* until it records it (WorkerHolds).  Every row and block carries the     *)
(* started_at of its withdrawal, which is never given out again (Past):    *)
(* so what is pending was not recorded, nor was its block sent, unless by  *)
(* the transaction that runs or by one that was rolled back.               *)
(*                                                                         *)
(* What a user has been given is counted reward by reward (Rewards), so    *)
(* that the sums over rows add up (Parts) and each step can be shown to    *)
(* move rewards and make none (Booked).                                    *)
(***************************************************************************)

\* A block is for a pending withdrawal.
For(b, p) == b.user = p.user /\ b.started = p.started

\* What the calls look like, and the counts.
CoreTypes ==
  /\ call = [c \in Calls |-> call[c]]
  /\ \A c \in Calls : DOMAIN call[c] = {"at", "of", "amount"}
  /\ started \in Nat /\ sent \in Nat

OnePerUser == \A p, q \in pending : p.user = q.user => p = q

\* The rows of a call that can commit conflict with no other's.
CommitsAreFree ==
  /\ \A c \in Calls : call[c].at = "commit" => \A p \in pending : p.user \notin call[c].of
  /\ \A c, d \in Calls : call[c].at = "commit" /\ call[d].at = "commit" /\ c # d
                           => call[c].of \cap call[d].of = {}

\* The worker works on pending withdrawals, each of them in one place, and its
\* block is the latest and for the withdrawal it works on.
WorkerHolds ==
  /\ current \subseteq pending /\ queue \subseteq pending /\ queue \cap current = {}
  /\ \A p, q \in current : p = q
  /\ completing = "idle" => current = {}
  /\ completing # "record" => block = {}
  /\ \A b \in block : b.number = sent /\ \E p \in current : For(b, p)
  /\ \A b, d \in block : b = d

\* started_at and the order of blocks are those of the past.
Past ==
  /\ \A p \in pending : p.started \in Nat /\ p.started <= started
  /\ \A b \in ledger \cup withdrawals : b.started \in Nat /\ b.started <= started
  /\ \A b \in unrecorded : b.number \in Nat /\ b.number <= sent
  /\ \A b \in unrecorded, d \in block : b.number < d.number

NotYetRecorded == \A b \in withdrawals, p \in pending : ~For(b, p)

NotYetSent == \A b \in ledger \ (unrecorded \cup block), p \in pending : ~For(b, p)

NeverTwice == /\ \A b, d \in withdrawals : b.started = d.started /\ b.user = d.user => b = d
              /\ withdrawals \cap unrecorded = {}

WithdrawalsIInv == /\ CoreTypes /\ OnePerUser /\ CommitsAreFree /\ WorkerHolds /\ Past
        /\ NotYetRecorded /\ NotYetSent /\ NeverTwice

-----------------------------------------------------------------------------
(* Calls                                                                   *)

\* A call that goes on without committing disturbs only itself.
LEMMA WithdrawalsCallGoes ==
  ASSUME WithdrawalsIInv, NEW c \in Calls, NEW t, Goes(c, t), UNCHANGED <<tables, started>>,
         DOMAIN t = {"at", "of", "amount"},
         t.at = "commit" => /\ \A p \in pending : p.user \notin t.of
                            /\ \A d \in Calls \ {c} : call[d].at = "commit" => call[d].of \cap t.of = {}
  PROVE  WithdrawalsIInv'
<1> USE DEF WithdrawalsIInv, Goes, tables, working
<1>1. call'[c] = t /\ \A d \in Calls \ {c} : call'[d] = call[d]
  BY DEF CoreTypes
<1>2. CoreTypes'
  BY <1>1 DEF CoreTypes
<1>3. OnePerUser'
  BY DEF OnePerUser
<1>4. CommitsAreFree'
  BY <1>1 DEF CommitsAreFree
<1>5. WorkerHolds' /\ Past'
  BY DEF WorkerHolds, Past, For
<1>6. NotYetRecorded' /\ NotYetSent' /\ NeverTwice'
  BY DEF NotYetRecorded, NotYetSent, NeverTwice, For
<1> QED
  BY <1>2, <1>3, <1>4, <1>5, <1>6

\* Withdraw only reads.
LEMMA WithdrawKeeps == ASSUME WithdrawalsIInv, NEW c \in Calls, NEW u \in Users, Withdraw(c, u) PROVE WithdrawalsIInv'
<1> DEFINE t == [at |-> "check", of |-> {u}, amount |-> Of({u})]
<1>1. Goes(c, t) /\ UNCHANGED <<tables, started>> /\ DOMAIN t = {"at", "of", "amount"} /\ t.at # "commit"
  BY DEF Withdraw
<1> HIDE DEF t
<1> QED
  BY <1>1, WithdrawalsCallGoes

\* AutoWithdrawBalances only reads, before it zeroes.
LEMMA AutoWithdrawKeeps == ASSUME WithdrawalsIInv, NEW c \in Calls, AutoWithdrawBalances(c) PROVE WithdrawalsIInv'
<1>1. PICK us : Goes(c, [at |-> "zero", of |-> us, amount |-> Of(us)])
  BY DEF AutoWithdrawBalances
<1> DEFINE t == [at |-> "zero", of |-> us, amount |-> Of(us)]
<1>2. Goes(c, t) /\ UNCHANGED <<tables, started>> /\ DOMAIN t = {"at", "of", "amount"} /\ t.at # "commit"
  BY <1>1 DEF AutoWithdrawBalances
<1> HIDE DEF t
<1> QED
  BY <1>2, WithdrawalsCallGoes

\* A call that is over looks like one that has not begun.
LEMMA IdleShape == DOMAIN NoCall = {"at", "of", "amount"} /\ NoCall.at # "commit"
BY DEF NoCall

\* A call that ends without a commit leaves nothing behind.
LEMMA IdleKeeps == ASSUME WithdrawalsIInv, NEW c \in Calls, Goes(c, NoCall), UNCHANGED <<tables, started>> PROVE WithdrawalsIInv'
BY IdleShape, WithdrawalsCallGoes

\* Looking for a pending withdrawal takes nothing.
LEMMA CheckPendingKeeps == ASSUME WithdrawalsIInv, NEW c \in Calls, CheckPending(c) PROVE WithdrawalsIInv'
<1>1. CASE Goes(c, NoCall)
  BY <1>1, IdleKeeps DEF CheckPending
<1>2. CASE Goes(c, [call[c] EXCEPT !.at = "zero"])
  <2> DEFINE t == [call[c] EXCEPT !.at = "zero"]
  <2>1. DOMAIN t = {"at", "of", "amount"} /\ t.at # "commit"
    BY DEF WithdrawalsIInv, CoreTypes
  <2>2. Goes(c, t) /\ UNCHANGED <<tables, started>>
    BY <1>2 DEF CheckPending
  <2> HIDE DEF t
  <2> QED
    BY <2>1, <2>2, WithdrawalsCallGoes
<1> QED
  BY <1>1, <1>2 DEF CheckPending

\* Balances are not part of the invariant.
LEMMA ZeroBalancesKeeps == ASSUME WithdrawalsIInv, NEW c \in Calls, ZeroBalances(c) PROVE WithdrawalsIInv'
<1> DEFINE t == [call[c] EXCEPT !.at = "insert"]
<1>1. DOMAIN t = {"at", "of", "amount"} /\ t.at # "commit"
  BY DEF WithdrawalsIInv, CoreTypes
<1>2. Goes(c, t) /\ UNCHANGED <<tables, started>>
  BY DEF ZeroBalances
<1> HIDE DEF t
<1> QED
  BY <1>1, <1>2, WithdrawalsCallGoes

\* The key of the table is what makes two calls for one user exclude each other.
LEMMA InsertPendingKeeps == ASSUME WithdrawalsIInv, NEW c \in Calls, InsertPending(c) PROVE WithdrawalsIInv'
<1>1. CASE \E u \in call[c].of : HasPending(u)
  BY <1>1, IdleKeeps DEF InsertPending
<1>2. CASE ~ \E u \in call[c].of : HasPending(u)
  <2> DEFINE t == [call[c] EXCEPT !.at = "commit"]
  <2>1. DOMAIN t = {"at", "of", "amount"} /\ t.of = call[c].of
    BY DEF WithdrawalsIInv, CoreTypes
  <2>2. \A p \in pending : p.user \notin t.of
    BY <1>2, <2>1 DEF HasPending
  <2>3. \A d \in Calls \ {c} : call[d].at = "commit" => call[d].of \cap t.of = {}
    BY <2>1 DEF InsertPending, PendingUnlocked
  <2>4. Goes(c, t) /\ UNCHANGED <<tables, started>>
    BY <1>2 DEF InsertPending
  <2> HIDE DEF t
  <2> QED
    BY <2>1, <2>2, <2>3, <2>4, WithdrawalsCallGoes
<1> QED
  BY <1>1, <1>2

\* The rows of a commit are for users who have none, with a new started_at.
LEMMA CommitWithdrawKeeps == ASSUME WithdrawalsIInv, NEW c \in Calls, CommitWithdraw(c) PROVE WithdrawalsIInv'
<1> DEFINE new == {[user |-> u, amount |-> call[c].amount[u], started |-> started + 1] : u \in call[c].of}
<1>1. /\ pending' = pending \cup new
      /\ started' = started + 1
      /\ call[c].at = "commit"
      /\ call' = [call EXCEPT ![c] = NoCall]
      /\ UNCHANGED <<withdrawals, ledger, queue, completing, current, block, sent, unrecorded>>
  BY DEF CommitWithdraw, Goes, working
<1>2. \A p \in new : p.user \in call[c].of /\ p.started = started + 1
  OBVIOUS
<1>3. \A p, q \in new : p.user = q.user => p = q
  OBVIOUS
<1> HIDE DEF new
<1>4. call'[c] = NoCall /\ \A d \in Calls \ {c} : call'[d] = call[d]
  BY <1>1 DEF WithdrawalsIInv, CoreTypes
<1> USE DEF WithdrawalsIInv
<1>5. CoreTypes'
  BY <1>1, <1>4, IdleShape DEF CoreTypes
<1>6. OnePerUser'
  BY <1>1, <1>2, <1>3 DEF OnePerUser, CommitsAreFree
<1>7. CommitsAreFree'
  BY <1>1, <1>2, <1>4, IdleShape DEF CommitsAreFree
<1>8. WorkerHolds'
  BY <1>1 DEF WorkerHolds, For
<1>9. Past'
  BY <1>1, <1>2 DEF Past, CoreTypes
<1>10. \A b \in ledger \cup withdrawals, p \in new : ~For(b, p)
  BY <1>2 DEF Past, CoreTypes, For
<1>11. NotYetRecorded' /\ NotYetSent'
  BY <1>1, <1>10 DEF NotYetRecorded, NotYetSent, For
<1>12. NeverTwice'
  BY <1>1 DEF NeverTwice
<1> QED
  BY <1>5, <1>6, <1>7, <1>8, <1>9, <1>11, <1>12

-----------------------------------------------------------------------------
(* The worker and the surroundings                                         *)

\* Rewards go to balances only.
LEMMA RewardKeeps == ASSUME WithdrawalsIInv, NEW u \in Users, Reward(u) PROVE WithdrawalsIInv'
<1> USE DEF WithdrawalsIInv, Reward, working
<1>1. CoreTypes' /\ OnePerUser' /\ CommitsAreFree'
  BY DEF CoreTypes, OnePerUser, CommitsAreFree
<1>2. WorkerHolds' /\ Past'
  BY DEF WorkerHolds, Past, For
<1>3. NotYetRecorded' /\ NotYetSent' /\ NeverTwice'
  BY DEF NotYetRecorded, NotYetSent, NeverTwice, For
<1> QED
  BY <1>1, <1>2, <1>3

\* The worker takes up the list, or one withdrawal of it: the tables and the
\* blocks are as before, and the worker has no block.
LEMMA ReadingKeeps ==
  ASSUME WithdrawalsIInv, completing = "idle",
         UNCHANGED <<tables, ledger, call, block, started, sent, unrecorded>>,
         current' \subseteq pending, queue' \subseteq pending, queue' \cap current' = {},
         \A p, q \in current' : p = q,
         completing' = "idle" => current' = {}
  PROVE  WithdrawalsIInv'
<1> USE DEF WithdrawalsIInv, tables
<1>1. CoreTypes' /\ OnePerUser' /\ CommitsAreFree'
  BY DEF CoreTypes, OnePerUser, CommitsAreFree
<1>2. block = {}
  BY DEF WorkerHolds
<1>3. WorkerHolds' /\ Past'
  BY <1>2 DEF WorkerHolds, Past
<1>4. NotYetRecorded' /\ NotYetSent' /\ NeverTwice'
  BY DEF NotYetRecorded, NotYetSent, NeverTwice, For
<1> QED
  BY <1>1, <1>3, <1>4

\* The list is what is pending.
LEMMA CompleteAllKeeps == ASSUME WithdrawalsIInv, CompleteAllPendingWithdrawals PROVE WithdrawalsIInv'
<1>1. current = {}
  BY DEF WithdrawalsIInv, WorkerHolds, CompleteAllPendingWithdrawals
<1> QED
  BY <1>1, ReadingKeeps DEF CompleteAllPendingWithdrawals, tables

\* The worker takes one withdrawal of its list, which is still pending.
LEMMA DeletePendingKeeps == ASSUME WithdrawalsIInv, DeletePending PROVE WithdrawalsIInv'
<1>1. PICK p \in queue : IF HasPending(p.user)
                         THEN completing' = "send" /\ current' = {p} /\ queue' = queue \ {p}
                         ELSE queue' = {} /\ UNCHANGED <<completing, current>>
  BY DEF DeletePending
<1>2. queue \subseteq pending /\ current = {}
  BY DEF WithdrawalsIInv, WorkerHolds, DeletePending
<1> QED
  BY <1>1, <1>2, ReadingKeeps DEF DeletePending, tables

\* The new block is the latest, and for the withdrawal the worker has deleted.
LEMMA SendKeeps == ASSUME WithdrawalsIInv, Send PROVE WithdrawalsIInv'
<1>1. PICK p \in current :
        LET b == [user |-> p.user, amount |-> p.amount, started |-> p.started, number |-> sent + 1]
        IN  block' = {b} /\ ledger' = ledger \cup {b}
  BY DEF Send
<1> DEFINE new == [user |-> p.user, amount |-> p.amount, started |-> p.started, number |-> sent + 1]
<1>2. block' = {new} /\ ledger' = ledger \cup {new}
  BY <1>1
<1>3. For(new, p) /\ new.number = sent + 1 /\ new.started = p.started
  BY DEF For
<1> HIDE DEF new
<1>4. block = {} /\ p \in pending
  BY DEF Send, WithdrawalsIInv, WorkerHolds
<1> USE DEF WithdrawalsIInv, Send, tables
<1>5. CoreTypes' /\ OnePerUser' /\ CommitsAreFree'
  BY DEF CoreTypes, OnePerUser, CommitsAreFree
<1>6. WorkerHolds'
  BY <1>2, <1>3 DEF WorkerHolds, For
<1>7. Past'
  BY <1>2, <1>3, <1>4 DEF Past, CoreTypes
<1>8. NotYetRecorded' /\ NeverTwice'
  BY DEF NotYetRecorded, NeverTwice, For
<1>9. NotYetSent'
  BY <1>2, <1>4 DEF NotYetSent, For
<1> QED
  BY <1>5, <1>6, <1>7, <1>8, <1>9

\* What the worker holds in memory is gone; its block, if any, stays out.
LEMMA ForgettingKeeps ==
  ASSUME WithdrawalsIInv, UNCHANGED <<tables, ledger, started, sent>>,
         unrecorded' = unrecorded \cup block,
         queue' = {}, completing' = "idle", current' = {}, block' = {},
         CoreTypes', CommitsAreFree'
  PROVE  WithdrawalsIInv'
<1> USE DEF WithdrawalsIInv, tables
<1>1. OnePerUser' /\ WorkerHolds'
  BY DEF OnePerUser, WorkerHolds
<1>2. \A b \in block : b.number = sent
  BY DEF WorkerHolds
<1>3. Past'
  BY <1>2 DEF Past, CoreTypes
<1>4. NotYetRecorded' /\ NotYetSent'
  BY DEF NotYetRecorded, NotYetSent, For
<1>5. withdrawals \cap block = {}
  BY DEF WorkerHolds, NotYetRecorded
<1>6. NeverTwice'
  BY <1>5 DEF NeverTwice
<1> QED
  BY <1>1, <1>3, <1>4, <1>6

\* A transaction that fails is forgotten, its block is not.
LEMMA CompleteFailsKeeps == ASSUME WithdrawalsIInv, CompleteFails PROVE WithdrawalsIInv'
<1>1. CoreTypes' /\ CommitsAreFree'
  BY DEF WithdrawalsIInv, CoreTypes, CommitsAreFree, CompleteFails, tables
<1> QED
  BY <1>1, ForgettingKeeps DEF CompleteFails

\* So is one that a stop interrupts, along with the calls.
LEMMA RestartKeeps == ASSUME WithdrawalsIInv, Restart PROVE WithdrawalsIInv'
<1>1. \A c \in Calls : call'[c] = NoCall
  BY DEF Restart
<1>2. CoreTypes' /\ CommitsAreFree'
  BY <1>1, IdleShape DEF WithdrawalsIInv, CoreTypes, CommitsAreFree, Restart
<1> QED
  BY <1>2, ForgettingKeeps DEF Restart

\* The withdrawal and the deletion of its row are committed together.
LEMMA RecordKeeps == ASSUME WithdrawalsIInv, Record PROVE WithdrawalsIInv'
<1> USE DEF WithdrawalsIInv, Record
<1>1. /\ pending' = {p \in pending : \A q \in current : p.user # q.user}
      /\ pending' \subseteq pending
  OBVIOUS
<1>2. \A p \in pending' : p \notin current /\ \A b \in block : ~For(b, p)
  BY <1>1 DEF WorkerHolds, For
<1>3. CoreTypes' /\ OnePerUser' /\ CommitsAreFree'
  BY <1>1 DEF CoreTypes, OnePerUser, CommitsAreFree
<1>4. queue \subseteq pending'
  BY <1>1 DEF WorkerHolds, OnePerUser
<1>5. WorkerHolds'
  BY <1>4 DEF WorkerHolds
<1>6. \A b \in block : /\ \A d \in withdrawals : ~(b.started = d.started /\ b.user = d.user)
                       /\ b \notin unrecorded
                       /\ b.started \in Nat /\ b.started <= started
  BY DEF WorkerHolds, NotYetRecorded, For, Past, CoreTypes
<1>7. Past'
  BY <1>1, <1>6 DEF Past
<1>8. NotYetRecorded' /\ NotYetSent'
  BY <1>1, <1>2 DEF NotYetRecorded, NotYetSent, For
<1>9. NeverTwice'
  BY <1>6 DEF NeverTwice, WorkerHolds
<1> QED
  BY <1>3, <1>5, <1>7, <1>8, <1>9

\* Undoing removes withdrawals that were recorded.
LEMMA UndoKeeps == ASSUME WithdrawalsIInv, FindAndUndoInvalidWithdrawals PROVE WithdrawalsIInv'
<1>1. withdrawals' \subseteq withdrawals
  BY DEF FindAndUndoInvalidWithdrawals
<1>2. UNCHANGED <<pending, ledger, call, queue, completing, current, block, started, sent, unrecorded>>
  BY DEF FindAndUndoInvalidWithdrawals, working
<1> USE <1>1, <1>2 DEF WithdrawalsIInv
<1>3. CoreTypes' /\ OnePerUser' /\ CommitsAreFree'
  BY DEF CoreTypes, OnePerUser, CommitsAreFree
<1>4. WorkerHolds' /\ Past'
  BY DEF WorkerHolds, Past
<1>5. NotYetRecorded' /\ NotYetSent' /\ NeverTwice'
  BY DEF NotYetRecorded, NotYetSent, NeverTwice, For
<1> QED
  BY <1>3, <1>4, <1>5

\* The ledger may lose any block.
LEMMA LoseBlockKeeps == ASSUME WithdrawalsIInv, LoseBlock PROVE WithdrawalsIInv'
<1>1. ledger' \subseteq ledger
  BY DEF LoseBlock
<1>2. UNCHANGED <<tables, call, working, started, sent, unrecorded>>
  BY DEF LoseBlock
<1> USE <1>1, <1>2 DEF WithdrawalsIInv, tables, working
<1>3. CoreTypes' /\ OnePerUser' /\ CommitsAreFree'
  BY DEF CoreTypes, OnePerUser, CommitsAreFree
<1>4. WorkerHolds' /\ Past'
  BY DEF WorkerHolds, Past
<1>5. NotYetRecorded' /\ NotYetSent' /\ NeverTwice'
  BY DEF NotYetRecorded, NotYetSent, NeverTwice, For
<1> QED
  BY <1>3, <1>4, <1>5

-----------------------------------------------------------------------------
(* The theorems                                                            *)

\* Nothing is pending at the start.
LEMMA WithdrawalsStarts == WithdrawalsInit => WithdrawalsIInv
  BY IdleShape DEF WithdrawalsInit, WithdrawalsIInv, CoreTypes, OnePerUser, CommitsAreFree, WorkerHolds, Past,
                   NotYetRecorded, NotYetSent, NeverTwice

\* Every step of a call, of the worker or of the surroundings keeps it.
LEMMA WithdrawalsStep == WithdrawalsIInv /\ [WithdrawalsNext]_withdrawalsVars => WithdrawalsIInv'
<1> SUFFICES ASSUME WithdrawalsIInv, [WithdrawalsNext]_withdrawalsVars PROVE WithdrawalsIInv'
  OBVIOUS
<1>1. CASE \E u \in Users : Reward(u)
  BY <1>1, RewardKeeps
<1>2. ASSUME NEW c \in Calls, NEW u \in Users, Withdraw(c, u) PROVE WithdrawalsIInv'
  BY <1>2, WithdrawKeeps
<1>3. ASSUME NEW c \in Calls,
             \/ CheckPending(c) \/ AutoWithdrawBalances(c) \/ ZeroBalances(c)
             \/ InsertPending(c) \/ CommitWithdraw(c) \/ RollbackWithdraw(c)
      PROVE  WithdrawalsIInv'
  <2>1. CASE RollbackWithdraw(c)
    BY <2>1, IdleKeeps DEF RollbackWithdraw
  <2> QED
    BY <1>3, <2>1, CheckPendingKeeps, AutoWithdrawKeeps, ZeroBalancesKeeps, InsertPendingKeeps,
       CommitWithdrawKeeps
<1>4. CASE CompleteAllPendingWithdrawals \/ DeletePending \/ Send \/ CompleteFails \/ Record
  BY <1>4, CompleteAllKeeps, DeletePendingKeeps, SendKeeps, CompleteFailsKeeps, RecordKeeps
<1>5. CASE FindAndUndoInvalidWithdrawals \/ LoseBlock \/ Restart
  BY <1>5, UndoKeeps, LoseBlockKeeps, RestartKeeps
<1>6. CASE UNCHANGED withdrawalsVars
  <2> USE <1>6 DEF WithdrawalsIInv, withdrawalsVars, tables, working
  <2>1. CoreTypes' /\ OnePerUser' /\ CommitsAreFree'
    BY DEF CoreTypes, OnePerUser, CommitsAreFree
  <2>2. WorkerHolds' /\ Past'
    BY DEF WorkerHolds, Past
  <2>3. NotYetRecorded' /\ NotYetSent' /\ NeverTwice'
    BY DEF NotYetRecorded, NotYetSent, NeverTwice
  <2> QED
    BY <2>1, <2>2, <2>3
<1> QED
  BY <1>1, <1>2, <1>3, <1>4, <1>5, <1>6 DEF WithdrawalsNext

\* The invariant holds at the start and every step of a call, of the worker or of
\* the surroundings keeps it.
THEOREM WithdrawalsInductive == WithdrawalsSpec => []WithdrawalsIInv
  BY WithdrawalsStarts, WithdrawalsStep, PTL DEF WithdrawalsSpec

\* The worker sends what is pending: no call replaces, and nothing deletes, a row
\* that the worker has read and not completed (withdrawal_handler.go:225-226, 240).
THEOREM SendsPending == WithdrawalsSpec => []SendsWhatIsPending
<1>1. WithdrawalsIInv => SendsWhatIsPending
  BY DEF WithdrawalsIInv, WorkerHolds, SendsWhatIsPending
<1> QED
  BY <1>1, WithdrawalsInductive, PTL

\* A withdrawal is recorded once, and only the rollback of a transaction that sent
\* a block leaves a withdrawal pending whose block went out
\* (withdrawal_handler.go:165-166, 213-261).
THEOREM RecordsOnce == WithdrawalsSpec => []RecordedOnce
<1>1. WithdrawalsIInv => RecordedOnce
  <2> SUFFICES ASSUME WithdrawalsIInv PROVE RecordedOnce
    OBVIOUS
  <2>1. ASSUME NEW b \in ledger \ unrecorded, NEW p \in pending \ current PROVE ~For(b, p)
    <3>1. CASE b \in block
      BY <2>1, <3>1 DEF WithdrawalsIInv, WorkerHolds, OnePerUser, For
    <3>2. CASE b \notin block
      BY <2>1, <3>2 DEF WithdrawalsIInv, NotYetSent
    <3> QED
      BY <3>1, <3>2
  <2> QED
    BY <2>1 DEF WithdrawalsIInv, NeverTwice, RecordedOnce, For
<1> QED
  BY <1>1, WithdrawalsInductive, PTL
-----------------------------------------------------------------------------
(* What a user has been given                                              *)

\* Amounts are numbers of rewards, of which there are finitely many; the worker's
\* block is worth what it deleted.
Booked ==
  /\ balance \in [Users -> Nat] /\ earned \in [Users -> Nat]
  /\ \A c \in Calls : call[c].of \subseteq Users /\ call[c].amount \in [Users -> Nat]
  /\ \A p \in pending : p.amount \in Nat
  /\ \A b \in withdrawals : b.amount \in Nat
  /\ completing \in {"idle", "send", "record"}
  /\ completing # "idle" => current # {}
  /\ completing = "record" => block # {}
  /\ \A b \in block, p \in current : b.amount = p.amount
  /\ IsFiniteSet(Rewards(withdrawals))

\* One row is worth its amount.
LEMMA OneRow ==
  ASSUME NEW b, b.amount \in Nat
  PROVE  IsFiniteSet(Rewards({b})) /\ Sum({b}) = b.amount
<1> DEFINE f == [i \in 1..b.amount |-> <<b, i>>]
<1>1. Rewards({b}) = {b} \X (1..b.amount)
  BY DEF Rewards
<1>2. f \in [1..b.amount -> Rewards({b})]
  BY <1>1
<1>3. \A i, j \in 1..b.amount : f[i] = f[j] => i = j
  OBVIOUS
<1>4. \A x \in Rewards({b}) : \E i \in 1..b.amount : f[i] = x
  BY <1>1
<1>5. ExistsBijection(1..b.amount, Rewards({b}))
  <2>1. f \in Injection(1..b.amount, Rewards({b})) /\ f \in Surjection(1..b.amount, Rewards({b}))
    BY <1>2, <1>3, <1>4 DEF Injection, Surjection, IsInjective
  <2> QED
    BY <2>1 DEF Bijection, ExistsBijection
<1>6. Cardinality(Rewards({b})) = b.amount
  BY <1>5, FS_CountingElements
<1>7. IsFiniteSet(Rewards({b}))
  BY <1>5, FS_NatBijection
<1> QED
  BY <1>6, <1>7 DEF Sum

LEMMA NoRows == IsFiniteSet(Rewards({})) /\ Sum({}) = 0
<1>1. Rewards({}) = {}
  BY DEF Rewards
<1> QED
  BY <1>1, FS_EmptySet DEF Sum

\* Rows are worth what their parts are.
LEMMA Parts ==
  ASSUME NEW A, NEW B, A \cap B = {}, IsFiniteSet(Rewards(A)), IsFiniteSet(Rewards(B))
  PROVE  IsFiniteSet(Rewards(A \cup B)) /\ Sum(A \cup B) = Sum(A) + Sum(B)
<1>1. Rewards(A \cup B) = Rewards(A) \cup Rewards(B)
  BY DEF Rewards
<1>2. Rewards(A) \cap Rewards(B) = {}
  <2> SUFFICES ASSUME NEW x \in Rewards(A), x \in Rewards(B) PROVE FALSE
    OBVIOUS
  <2>1. x[1] \in A /\ x[1] \in B
    BY DEF Rewards
  <2> QED
    BY <2>1
<1>3. /\ IsFiniteSet(Rewards(A) \cup Rewards(B))
      /\ Cardinality(Rewards(A) \cup Rewards(B))
           = Cardinality(Rewards(A)) + Cardinality(Rewards(B)) - Cardinality(Rewards(A) \cap Rewards(B))
  BY FS_Union
<1>4. Cardinality(Rewards(A) \cap Rewards(B)) = 0
  BY <1>2, FS_EmptySet
<1>5. Sum(A) \in Nat /\ Sum(B) \in Nat
  BY FS_CardinalityType DEF Sum
<1>6. Sum(A \cup B) = Sum(A) + Sum(B) - 0
  BY <1>1, <1>3, <1>4 DEF Sum
<1>7. Sum(A \cup B) = Sum(A) + Sum(B)
  BY <1>5, <1>6
<1> QED
  BY <1>1, <1>3, <1>7

LEMMA SomeRows ==
  ASSUME NEW A, NEW B \in SUBSET A, IsFiniteSet(Rewards(A))
  PROVE  IsFiniteSet(Rewards(B)) /\ Sum(B) \in Nat
<1>1. Rewards(B) \subseteq Rewards(A)
  BY DEF Rewards
<1>2. IsFiniteSet(Rewards(B))
  BY <1>1, FS_Subset
<1> QED
  BY <1>2, FS_CardinalityType DEF Sum

\* What is pending for a user is one row at most.
LEMMA PendingRow ==
  ASSUME WithdrawalsIInv, Booked, NEW u
  PROVE  /\ Sum(OfUser(pending, u)) \in Nat /\ IsFiniteSet(Rewards(OfUser(pending, u)))
         /\ \A p \in pending : p.user = u => OfUser(pending, u) = {p} /\ Sum(OfUser(pending, u)) = p.amount
<1>1. ASSUME NEW p \in pending, p.user = u
      PROVE  /\ OfUser(pending, u) = {p} /\ Sum(OfUser(pending, u)) = p.amount /\ p.amount \in Nat
             /\ IsFiniteSet(Rewards(OfUser(pending, u)))
  <2>1. OfUser(pending, u) = {p}
    BY <1>1 DEF WithdrawalsIInv, OnePerUser, OfUser
  <2>2. p.amount \in Nat
    BY DEF Booked
  <2> QED
    BY <2>1, <2>2, OneRow
<1>2. CASE OfUser(pending, u) = {}
  <2>1. \A p \in pending : p.user # u
    BY <1>2 DEF OfUser
  <2> QED
    BY <1>2, <2>1, NoRows
<1>3. CASE OfUser(pending, u) # {}
  <2>1. PICK p \in pending : p.user = u
    BY <1>3 DEF OfUser
  <2> QED
    BY <1>1, <2>1
<1> QED
  BY <1>2, <1>3

LEMMA RecordedRows ==
  ASSUME Booked, NEW u
  PROVE  Sum(OfUser(withdrawals, u)) \in Nat /\ IsFiniteSet(Rewards(OfUser(withdrawals, u)))
<1>1. OfUser(withdrawals, u) \subseteq withdrawals /\ IsFiniteSet(Rewards(withdrawals))
  BY DEF OfUser, Booked
<1> QED
  BY <1>1, SomeRows

\* What a user has been given is the same, or what the user earned more.
Counts(u) == Total(u)' = Total(u) + (earned[u]' - earned[u])

\* A step that leaves the tables and what was earned.
LEMMA NothingCounted ==
  ASSUME WithdrawalsIInv, Booked, UNCHANGED <<tables, earned>>, NEW u \in Users
  PROVE  Counts(u)
<1>1. Total(u)' = Total(u) /\ earned[u]' = earned[u]
  BY DEF tables, Total, OfUser
<1>2. Sum(OfUser(pending, u)) \in Nat /\ Sum(OfUser(withdrawals, u)) \in Nat
  BY PendingRow, RecordedRows
<1>3. balance[u] \in Nat /\ earned[u] \in Nat
  BY DEF Booked
<1>4. Total(u) \in Nat
  BY <1>2, <1>3 DEF Total
<1> QED
  BY <1>1, <1>3, <1>4 DEF Counts

LEMMA RewardCounted ==
  ASSUME WithdrawalsIInv, Booked, NEW v \in Users, Reward(v), NEW u \in Users
  PROVE  Booked' /\ Counts(u)
<1>1. /\ balance' = [balance EXCEPT ![v] = @ + 1] /\ earned' = [earned EXCEPT ![v] = @ + 1]
      /\ UNCHANGED <<pending, withdrawals, call, completing, current, block>>
  BY DEF Reward, working
<1>2. balance \in [Users -> Nat] /\ earned \in [Users -> Nat]
  BY DEF Booked
<1>3. balance' \in [Users -> Nat] /\ earned' \in [Users -> Nat]
  BY <1>1, <1>2
<1>4. Booked'
  BY <1>1, <1>3 DEF Booked
<1>5. /\ UNCHANGED <<Sum(OfUser(pending, u)), Sum(OfUser(withdrawals, u))>>
      /\ Sum(OfUser(pending, u)) \in Nat /\ Sum(OfUser(withdrawals, u)) \in Nat
  BY <1>1, PendingRow, RecordedRows DEF OfUser
<1>6. balance[u]' - balance[u] = earned[u]' - earned[u]
  <2>1. CASE u = v
    <3>1. balance[u]' = balance[u] + 1 /\ earned[u]' = earned[u] + 1
      BY <1>1, <1>2, <2>1
    <3>2. balance[u] \in Nat /\ earned[u] \in Nat
      BY <1>2
    <3> QED
      BY <3>1, <3>2
  <2>2. CASE u # v
    <3>1. balance[u]' = balance[u] /\ earned[u]' = earned[u]
      BY <1>1, <1>2, <2>2
    <3>2. balance[u] \in Nat /\ earned[u] \in Nat
      BY <1>2
    <3> QED
      BY <3>1, <3>2
  <2> QED
    BY <2>1, <2>2
<1>7. balance[u] \in Nat /\ balance[u]' \in Nat /\ earned[u] \in Nat /\ earned[u]' \in Nat
  BY <1>2, <1>3
<1>8. Counts(u)
  <2> DEFINE P == Sum(OfUser(pending, u))
             W == Sum(OfUser(withdrawals, u))
  <2>1. Total(u) = balance[u] + P + W
    BY DEF Total
  <2>2. Total(u)' = balance[u]' + P + W
    BY <1>5 DEF Total
  <2>3. P \in Nat /\ W \in Nat
    BY <1>5
  <2> HIDE DEF P, W
  <2>4. Total(u)' = Total(u) + (earned[u]' - earned[u])
    BY <1>6, <1>7, <2>1, <2>2, <2>3
  <2> QED
    BY <2>4 DEF Counts
<1> QED
  BY <1>4, <1>8

\* A call goes on or ends without committing.
LEMMA CallBooked ==
  ASSUME Booked, NEW c \in Calls, NEW t, Goes(c, t), UNCHANGED tables,
         t.of \subseteq Users, t.amount \in [Users -> Nat]
  PROVE  Booked'
<1>1. /\ call' = [call EXCEPT ![c] = t]
      /\ UNCHANGED <<balance, pending, withdrawals, completing, current, block, earned>>
  BY DEF Goes, tables, working
<1>2. \A d \in Calls : call'[d].of \subseteq Users /\ call'[d].amount \in [Users -> Nat]
  BY <1>1 DEF Booked
<1> QED
  BY <1>1, <1>2 DEF Booked

LEMMA IdleBooked == NoCall.of \subseteq Users /\ NoCall.amount \in [Users -> Nat]
  BY DEF NoCall

LEMMA OfBooked == ASSUME Booked, NEW us PROVE Of(us) \in [Users -> Nat]
  BY DEF Booked, Of

LEMMA CallsBooked ==
  ASSUME WithdrawalsIInv, Booked, NEW c \in Calls,
         \/ \E u \in Users : Withdraw(c, u)
         \/ AutoWithdrawBalances(c) \/ CheckPending(c) \/ ZeroBalances(c) \/ InsertPending(c) \/ RollbackWithdraw(c)
  PROVE  Booked' /\ UNCHANGED <<tables, earned>>
<1>1. UNCHANGED <<tables, earned>>
  BY DEF Withdraw, AutoWithdrawBalances, CheckPending, ZeroBalances, InsertPending, RollbackWithdraw, Goes
<1>2. ASSUME NEW u \in Users, Withdraw(c, u) PROVE Booked'
  <2> DEFINE t == [at |-> "check", of |-> {u}, amount |-> Of({u})]
  <2>1. t.of \subseteq Users /\ t.amount \in [Users -> Nat]
    BY OfBooked
  <2>2. Goes(c, t)
    BY <1>2 DEF Withdraw
  <2> HIDE DEF t
  <2> QED
    BY <1>1, <2>1, <2>2, CallBooked
<1>3. ASSUME AutoWithdrawBalances(c) PROVE Booked'
  <2>1. PICK us \in SUBSET Users : Goes(c, [at |-> "zero", of |-> us, amount |-> Of(us)])
    BY <1>3 DEF AutoWithdrawBalances
  <2> DEFINE t == [at |-> "zero", of |-> us, amount |-> Of(us)]
  <2>2. t.of \subseteq Users /\ t.amount \in [Users -> Nat]
    BY OfBooked
  <2>3. Goes(c, t)
    BY <2>1
  <2> HIDE DEF t
  <2> QED
    BY <1>1, <2>2, <2>3, CallBooked
<1>4. ASSUME Goes(c, NoCall) PROVE Booked'
  BY <1>1, <1>4, CallBooked, IdleBooked
<1>5. ASSUME NEW at, Goes(c, [call[c] EXCEPT !.at = at]) PROVE Booked'
  <2> DEFINE t == [call[c] EXCEPT !.at = at]
  <2>1. DOMAIN call[c] = {"at", "of", "amount"}
    BY DEF WithdrawalsIInv, CoreTypes
  <2>2. t.of = call[c].of /\ t.amount = call[c].amount
    BY <2>1
  <2>3. t.of \subseteq Users /\ t.amount \in [Users -> Nat]
    BY <2>2 DEF Booked
  <2>4. Goes(c, t)
    BY <1>5
  <2> HIDE DEF t
  <2> QED
    BY <1>1, <2>3, <2>4, CallBooked
<1>6. ASSUME CheckPending(c) PROVE Booked'
  <2>1. Goes(c, NoCall) \/ Goes(c, [call[c] EXCEPT !.at = "zero"])
    BY <1>6 DEF CheckPending
  <2> QED
    BY <2>1, <1>4, <1>5
<1>7. ASSUME ZeroBalances(c) PROVE Booked'
  BY <1>5, <1>7 DEF ZeroBalances
<1>8. ASSUME InsertPending(c) PROVE Booked'
  <2>1. Goes(c, NoCall) \/ Goes(c, [call[c] EXCEPT !.at = "commit"])
    BY <1>8 DEF InsertPending
  <2> QED
    BY <2>1, <1>4, <1>5
<1>9. ASSUME RollbackWithdraw(c) PROVE Booked'
  BY <1>4, <1>9 DEF RollbackWithdraw
<1> QED
  BY <1>1, <1>2, <1>3, <1>6, <1>7, <1>8, <1>9

\* A call that withdraws what the balance is moves it to a pending withdrawal.
LEMMA CommitCounted ==
  ASSUME WithdrawalsIInv, Booked, NEW c \in Calls, CommitWithdraw(c)
  PROVE  Booked' /\ \A u \in Users : Counts(u) \/ (Stale(c, u) /\ call[c]' = NoCall)
<1> DEFINE row(v) == [user |-> v, amount |-> call[c].amount[v], started |-> started + 1]
<1>1. /\ call[c].at = "commit"
      /\ balance' = [v \in Users |-> IF v \in call[c].of THEN 0 ELSE balance[v]]
      /\ pending' = pending \cup {row(v) : v \in call[c].of}
      /\ call' = [call EXCEPT ![c] = NoCall]
      /\ UNCHANGED <<withdrawals, completing, current, block, earned>>
  BY DEF CommitWithdraw, Goes, working
<1>2. balance \in [Users -> Nat] /\ call[c].of \subseteq Users /\ call[c].amount \in [Users -> Nat]
  BY DEF Booked
<1>3. call[c]' = NoCall
  BY <1>1 DEF WithdrawalsIInv, CoreTypes
<1>4. Booked'
  <2>1. \A p \in pending' : p.amount \in Nat
    BY <1>1, <1>2 DEF Booked
  <2>2. \A d \in Calls : call'[d].of \subseteq Users /\ call'[d].amount \in [Users -> Nat]
    BY <1>1, IdleBooked DEF Booked
  <2>3. balance' \in [Users -> Nat]
    BY <1>1, <1>2
  <2> QED
    BY <1>1, <2>1, <2>2, <2>3 DEF Booked
<1>5. ASSUME NEW u \in Users PROVE Counts(u) \/ (Stale(c, u) /\ call[c]' = NoCall)
  <2>1. /\ UNCHANGED Sum(OfUser(withdrawals, u)) /\ earned[u]' = earned[u] /\ earned[u] \in Nat
        /\ Sum(OfUser(withdrawals, u)) \in Nat /\ Sum(OfUser(pending, u)) \in Nat
    <3>1. OfUser(withdrawals, u)' = OfUser(withdrawals, u) /\ earned[u]' = earned[u]
      BY <1>1 DEF OfUser
    <3>2. Sum(OfUser(withdrawals, u))' = Sum(OfUser(withdrawals, u))
      BY <3>1 DEF Sum, Rewards
    <3>3. earned[u] \in Nat
      BY DEF Booked
    <3> QED
      BY <3>1, <3>2, <3>3, PendingRow, RecordedRows
  <2>2. CASE u \notin call[c].of
    <3>1. balance[u]' = balance[u] /\ balance[u] \in Nat
      BY <1>1, <1>2, <2>2
    <3>2. OfUser(pending, u)' = OfUser(pending, u)
      BY <1>1, <2>2 DEF OfUser
    <3>3. Total(u)' = Total(u) /\ Total(u) \in Nat
      BY <2>1, <3>1, <3>2 DEF Total
    <3> QED
      BY <1>4, <2>1, <3>3 DEF Counts
  <2>3. CASE u \in call[c].of /\ call[c].amount[u] # balance[u]
    BY <1>1, <1>3, <1>4, <2>3 DEF Stale
  <2>4. CASE u \in call[c].of /\ call[c].amount[u] = balance[u]
    <3>1. balance[u]' = 0 /\ balance[u] \in Nat
      BY <1>1, <1>2, <2>4
    <3>2. OfUser(pending, u) = {}
      BY <1>1, <2>4 DEF OfUser, WithdrawalsIInv, CommitsAreFree
    <3>3. OfUser(pending, u)' = {row(u)}
      <4>1. \A v \in call[c].of : row(v).user = v
        OBVIOUS
      <4> QED
        BY <1>1, <2>4, <3>2, <4>1 DEF OfUser
    <3>4. row(u).amount = balance[u]
      BY <2>4
    <3> HIDE DEF row
    <3>5. Sum(OfUser(pending, u)) = 0 /\ Sum(OfUser(pending, u)') = balance[u]
      BY <3>1, <3>2, <3>3, <3>4, OneRow, NoRows
    <3>6. Sum(OfUser(pending, u))' = Sum(OfUser(pending, u)')
      BY DEF Sum, Rewards
    <3>7. Total(u)' = Total(u) /\ Total(u) \in Nat
      BY <2>1, <3>1, <3>5, <3>6 DEF Total
    <3> QED
      BY <1>4, <2>1, <3>7 DEF Counts
  <2> QED
    BY <2>2, <2>3, <2>4
<1> QED
  BY <1>4, <1>5

\* The worker reads, deletes, sends or gives up; the tables stay.
LEMMA WorkerBooked ==
  ASSUME WithdrawalsIInv, Booked,
         \/ CompleteAllPendingWithdrawals \/ DeletePending \/ Send \/ CompleteFails \/ Restart \/ LoseBlock
         \/ UNCHANGED withdrawalsVars
  PROVE  Booked' /\ UNCHANGED <<tables, earned>>
<1>1. UNCHANGED <<tables, earned>>
  <2>1. ASSUME CompleteAllPendingWithdrawals \/ DeletePending \/ Send PROVE UNCHANGED <<tables, earned>>
    BY <2>1 DEF CompleteAllPendingWithdrawals, DeletePending, Send
  <2>2. ASSUME CompleteFails \/ Restart \/ LoseBlock \/ UNCHANGED withdrawalsVars
        PROVE  UNCHANGED <<tables, earned>>
    BY <2>2 DEF CompleteFails, Restart, LoseBlock, withdrawalsVars
  <2> QED
    BY <2>1, <2>2
<1> DEFINE Tables == /\ balance' = balance /\ earned' = earned /\ pending' = pending /\ withdrawals' = withdrawals
<1>2. Tables
  BY <1>1 DEF tables
<1>3. ASSUME call' = call, completing' = completing, current' = current, block' = block PROVE Booked'
  BY <1>2, <1>3 DEF Booked
<1>4. ASSUME CompleteAllPendingWithdrawals PROVE Booked'
  BY <1>3, <1>4 DEF CompleteAllPendingWithdrawals
<1>5. ASSUME DeletePending PROVE Booked'
  <2>1. call' = call /\ block' = block /\ block = {}
    BY <1>5 DEF DeletePending, WithdrawalsIInv, WorkerHolds
  <2>2. CASE completing' = "send" /\ current' # {}
    BY <1>2, <2>1, <2>2 DEF Booked
  <2>3. CASE completing' = completing /\ current' = current
    BY <1>3, <2>1, <2>3
  <2>4. (completing' = "send" /\ current' # {}) \/ (completing' = completing /\ current' = current)
    BY <1>5 DEF DeletePending
  <2> QED
    BY <2>2, <2>3, <2>4
<1>6. ASSUME Send PROVE Booked'
  <2>1. PICK p \in current : block' = {[user |-> p.user, amount |-> p.amount, started |-> p.started, number |-> sent + 1]}
    BY <1>6 DEF Send
  <2>2. \A q \in current : q = p
    BY DEF WithdrawalsIInv, WorkerHolds
  <2>3. \A b \in block', q \in current : b.amount = q.amount
    BY <2>1, <2>2
  <2>4. call' = call /\ current' = current /\ completing' = "record" /\ block' # {} /\ current # {}
    BY <1>6, <2>1 DEF Send
  <2> QED
    BY <1>2, <2>3, <2>4 DEF Booked
<1>7. ASSUME CompleteFails PROVE Booked'
  <2>1. call' = call /\ completing' = "idle" /\ current' = {} /\ block' = {}
    BY <1>7 DEF CompleteFails
  <2> QED
    BY <1>2, <2>1 DEF Booked
<1>8. ASSUME Restart PROVE Booked'
  <2>1. call' = [c \in Calls |-> NoCall] /\ completing' = "idle" /\ current' = {} /\ block' = {}
    BY <1>8 DEF Restart
  <2>2. \A c \in Calls : call'[c].of \subseteq Users /\ call'[c].amount \in [Users -> Nat]
    BY <2>1, IdleBooked
  <2> QED
    BY <1>2, <2>1, <2>2 DEF Booked
<1>9. ASSUME LoseBlock PROVE Booked'
  BY <1>3, <1>9 DEF LoseBlock, working
<1>10. ASSUME UNCHANGED withdrawalsVars PROVE Booked'
  BY <1>3, <1>10 DEF withdrawalsVars, working
<1> QED
  BY <1>1, <1>4, <1>5, <1>6, <1>7, <1>8, <1>9, <1>10

\* What is recorded is what was pending.
LEMMA RecordCounted ==
  ASSUME WithdrawalsIInv, Booked, Record
  PROVE  Booked' /\ \A u \in Users : Counts(u)
<1>1. /\ withdrawals' = withdrawals \cup block
      /\ pending' = {p \in pending : \A q \in current : p.user # q.user}
      /\ completing' = "idle" /\ current' = {} /\ block' = {}
      /\ UNCHANGED <<balance, call, earned>>
  BY DEF Record
<1>2. PICK p \in current, b \in block : TRUE
  BY DEF Record, Booked
<1>3. /\ current = {p} /\ block = {b} /\ p \in pending /\ For(b, p) /\ b.amount = p.amount
      /\ b \notin withdrawals
  <2>1. current = {p} /\ block = {b} /\ p \in pending /\ For(b, p)
    BY <1>2 DEF WithdrawalsIInv, WorkerHolds
  <2>2. b \notin withdrawals
    BY <2>1 DEF WithdrawalsIInv, NotYetRecorded
  <2> QED
    BY <1>2, <2>1, <2>2 DEF Booked
<1>4. p.amount \in Nat /\ b.user = p.user
  BY <1>3 DEF Booked, For
<1>5. IsFiniteSet(Rewards({b})) /\ Sum({b}) = p.amount
  BY <1>3, <1>4, OneRow
<1>6. Booked'
  <2>1. IsFiniteSet(Rewards(withdrawals \cup {b}))
    <3>1. IsFiniteSet(Rewards(withdrawals)) /\ withdrawals \cap {b} = {}
      BY <1>3 DEF Booked
    <3> QED
      BY <1>5, <3>1, Parts
  <2>2. IsFiniteSet(Rewards(withdrawals))'
    BY <1>1, <1>3, <2>1 DEF Rewards
  <2>3. \A d \in withdrawals' : d.amount \in Nat
    BY <1>1, <1>3, <1>4 DEF Booked
  <2>4. \A q \in pending' : q.amount \in Nat
    BY <1>1 DEF Booked
  <2>5. UNCHANGED <<balance, call, earned>> /\ completing' = "idle" /\ current' = {} /\ block' = {}
    BY <1>1
  <2> QED
    BY <2>2, <2>3, <2>4, <2>5 DEF Booked
<1>7. ASSUME NEW u \in Users PROVE Counts(u)
  <2>1. /\ Sum(OfUser(pending, u)) \in Nat /\ Sum(OfUser(withdrawals, u)) \in Nat
        /\ balance[u] \in Nat /\ earned[u] \in Nat /\ balance[u]' = balance[u] /\ earned[u]' = earned[u]
    <3>1. balance[u] \in Nat /\ earned[u] \in Nat /\ balance[u]' = balance[u] /\ earned[u]' = earned[u]
      BY <1>1 DEF Booked
    <3> QED
      BY <3>1, PendingRow, RecordedRows
  <2>2. Sum(OfUser(pending, u))' = Sum(OfUser(pending', u)) /\ Sum(OfUser(withdrawals, u))' = Sum(OfUser(withdrawals', u))
    BY DEF Sum, Rewards, OfUser
  <2>3. CASE u = p.user
    <3>1. Sum(OfUser(pending, u)) = p.amount
      BY <1>3, <2>3, PendingRow
    <3>2. OfUser(pending', u) = {}
      BY <1>1, <1>3, <2>3 DEF OfUser
    <3>3. OfUser(withdrawals', u) = OfUser(withdrawals, u) \cup {b}
      BY <1>1, <1>3, <1>4, <2>3 DEF OfUser
    <3>4. OfUser(withdrawals, u) \cap {b} = {} /\ IsFiniteSet(Rewards(OfUser(withdrawals, u)))
      BY <1>3, RecordedRows DEF OfUser
    <3>5. Sum(OfUser(withdrawals, u) \cup {b}) = Sum(OfUser(withdrawals, u)) + Sum({b})
      BY <1>5, <3>4, Parts
    <3>6. Sum(OfUser(withdrawals, u))' = Sum(OfUser(withdrawals, u)) + p.amount
      BY <1>5, <2>2, <3>3, <3>5
    <3>7. Sum(OfUser(pending, u))' = 0
      BY <2>2, <3>2, NoRows
    <3>8. Total(u)' = Total(u) /\ Total(u) \in Nat
      BY <1>4, <2>1, <3>1, <3>6, <3>7 DEF Total
    <3> QED
      BY <1>6, <2>1, <3>8 DEF Counts
  <2>4. CASE u # p.user
    <3>1. OfUser(pending', u) = OfUser(pending, u)
      BY <1>1, <1>3, <2>4 DEF OfUser
    <3>2. OfUser(withdrawals', u) = OfUser(withdrawals, u)
      BY <1>1, <1>3, <1>4, <2>4 DEF OfUser
    <3>3. Total(u)' = Total(u) /\ Total(u) \in Nat
      BY <2>1, <2>2, <3>1, <3>2 DEF Total
    <3> QED
      BY <1>6, <2>1, <3>3 DEF Counts
  <2> QED
    BY <2>3, <2>4
<1> QED
  BY <1>6, <1>7

\* What is undone goes back to the balance.
LEMMA UndoCounted ==
  ASSUME WithdrawalsIInv, Booked, FindAndUndoInvalidWithdrawals
  PROVE  Booked' /\ \A u \in Users : Counts(u)
<1> DEFINE invalid == withdrawals \ ledger
<1>1. /\ withdrawals' = withdrawals \ invalid
      /\ balance' = [v \in Users |-> balance[v] + Sum(OfUser(invalid, v))]
      /\ UNCHANGED <<pending, call, completing, current, block, earned>>
  BY DEF FindAndUndoInvalidWithdrawals, working
<1>2. balance \in [Users -> Nat] /\ earned \in [Users -> Nat] /\ IsFiniteSet(Rewards(withdrawals))
  BY DEF Booked
<1>3. ASSUME NEW v PROVE /\ IsFiniteSet(Rewards(OfUser(invalid, v))) /\ Sum(OfUser(invalid, v)) \in Nat
                         /\ IsFiniteSet(Rewards(OfUser(withdrawals \ invalid, v)))
                         /\ Sum(OfUser(withdrawals \ invalid, v)) \in Nat
  <2>1. OfUser(invalid, v) \in SUBSET withdrawals /\ OfUser(withdrawals \ invalid, v) \in SUBSET withdrawals
    BY DEF OfUser
  <2> QED
    BY <1>2, <2>1, SomeRows
<1>4. Booked'
  <2>1. balance' \in [Users -> Nat]
    <3> HIDE DEF invalid
    <3>1. ASSUME NEW v \in Users PROVE balance[v] + Sum(OfUser(invalid, v)) \in Nat
      <4>1. Sum(OfUser(invalid, v)) \in Nat
        BY <1>3
      <4>2. balance[v] \in Nat
        BY <1>2
      <4> QED
        BY <4>1, <4>2
    <3> QED
      BY <1>1, <3>1
  <2>2. withdrawals' \in SUBSET withdrawals
    BY <1>1
  <2>3. IsFiniteSet(Rewards(withdrawals'))
    BY <1>2, <2>2, SomeRows
  <2>4. IsFiniteSet(Rewards(withdrawals))'
    BY <2>3 DEF Rewards
  <2> QED
    BY <1>1, <2>1, <2>2, <2>4 DEF Booked
<1>5. ASSUME NEW u \in Users PROVE Counts(u)
  <2>1. OfUser(withdrawals, u) = OfUser(invalid, u) \cup OfUser(withdrawals \ invalid, u)
        /\ OfUser(invalid, u) \cap OfUser(withdrawals \ invalid, u) = {}
    BY DEF OfUser
  <2>2. Sum(OfUser(withdrawals, u)) = Sum(OfUser(invalid, u)) + Sum(OfUser(withdrawals \ invalid, u))
    BY <1>3, <2>1, Parts
  <2>3. balance[u]' = balance[u] + Sum(OfUser(invalid, u)) /\ balance[u] \in Nat
        /\ earned[u]' = earned[u] /\ earned[u] \in Nat
    BY <1>1, <1>2
  <2>4. Sum(OfUser(pending, u)) \in Nat /\ Sum(OfUser(pending, u))' = Sum(OfUser(pending, u))
    <3>1. Sum(OfUser(pending, u))' = Sum(OfUser(pending, u))
      BY <1>1 DEF Sum, Rewards, OfUser
    <3> QED
      BY <3>1, PendingRow
  <2>5. Sum(OfUser(withdrawals, u))' = Sum(OfUser(withdrawals \ invalid, u))
    <3>1. OfUser(withdrawals, u)' = OfUser(withdrawals \ invalid, u)
      BY <1>1 DEF OfUser
    <3> QED
      BY <3>1 DEF Sum, Rewards
  <2>6. Sum(OfUser(invalid, u)) \in Nat /\ Sum(OfUser(withdrawals \ invalid, u)) \in Nat
    BY <1>3
  <2>7. Total(u)' = Total(u) /\ Total(u) \in Nat
    <3> HIDE DEF invalid
    <3>1. Total(u)' = balance[u] + Sum(OfUser(invalid, u)) + Sum(OfUser(pending, u)) + Sum(OfUser(withdrawals \ invalid, u))
      BY <2>3, <2>4, <2>5 DEF Total
    <3>2. Total(u) = balance[u] + Sum(OfUser(pending, u)) + (Sum(OfUser(invalid, u)) + Sum(OfUser(withdrawals \ invalid, u)))
      BY <2>2 DEF Total
    <3> QED
      BY <2>3, <2>4, <2>6, <3>1, <3>2
  <2> QED
    BY <1>4, <2>3, <2>7 DEF Counts
<1> QED
  BY <1>4, <1>5

LEMMA BookedStarts == WithdrawalsInit => Booked
<1> SUFFICES ASSUME WithdrawalsInit PROVE Booked
  OBVIOUS
<1>1. \A c \in Calls : call[c].of \subseteq Users /\ call[c].amount \in [Users -> Nat]
  BY IdleBooked DEF WithdrawalsInit
<1>2. IsFiniteSet(Rewards(withdrawals))
  BY NoRows DEF WithdrawalsInit
<1> QED
  BY <1>1, <1>2 DEF WithdrawalsInit, Booked

\* Every step but that of a stale call counts what it moves.
Kept == \A u \in Users : Counts(u) \/ \E c \in Calls : Stale(c, u) /\ call[c]' = NoCall

LEMMA BookedStep == WithdrawalsIInv /\ Booked /\ [WithdrawalsNext]_withdrawalsVars => Booked' /\ Kept
<1> SUFFICES ASSUME WithdrawalsIInv, Booked, [WithdrawalsNext]_withdrawalsVars PROVE Booked' /\ Kept
  OBVIOUS
<1>1. ASSUME NEW v \in Users, Reward(v) PROVE Booked' /\ Kept
  BY <1>1, RewardCounted DEF Kept
<1>2. ASSUME NEW c \in Calls,
             \/ \E u \in Users : Withdraw(c, u)
             \/ AutoWithdrawBalances(c) \/ CheckPending(c) \/ ZeroBalances(c) \/ InsertPending(c)
             \/ RollbackWithdraw(c)
      PROVE  Booked' /\ Kept
  <2>1. Booked' /\ UNCHANGED <<tables, earned>>
    BY <1>2, CallsBooked
  <2> QED
    BY <2>1, NothingCounted DEF Kept
<1>3. ASSUME NEW c \in Calls, CommitWithdraw(c) PROVE Booked' /\ Kept
  BY <1>3, CommitCounted DEF Kept
<1>4. ASSUME \/ CompleteAllPendingWithdrawals \/ DeletePending \/ Send \/ CompleteFails \/ Restart \/ LoseBlock
             \/ UNCHANGED withdrawalsVars
      PROVE  Booked' /\ Kept
  <2>1. Booked' /\ UNCHANGED <<tables, earned>>
    BY <1>4, WorkerBooked
  <2> QED
    BY <2>1, NothingCounted DEF Kept
<1>5. ASSUME Record PROVE Booked' /\ Kept
  BY <1>5, RecordCounted DEF Kept
<1>6. ASSUME FindAndUndoInvalidWithdrawals PROVE Booked' /\ Kept
  BY <1>6, UndoCounted DEF Kept
<1> QED
  BY <1>1, <1>2, <1>3, <1>4, <1>5, <1>6 DEF WithdrawalsNext

\* Nothing is created and nothing lost in the database, but for calls that
\* withdraw another balance than the one they zero: rewards only move between a
\* balance, what is pending and what is recorded, however many fail, are sent
\* again or are undone (withdrawal_handler.go:223, 320-345).
THEOREM OnlyStaleMiscount == WithdrawalsSpec => OnlyStaleCallsMiscount
<1>1. Kept => \A u \in Users : Total(u)' = Total(u) + (earned[u]' - earned[u])
                               \/ \E c \in Calls : Stale(c, u) /\ call[c]' = NoCall
  BY DEF Kept, Counts
<1> QED
  BY <1>1, BookedStarts, BookedStep, WithdrawalsInductive, PTL DEF WithdrawalsSpec, OnlyStaleCallsMiscount
=============================================================================
