-------------------------------- MODULE MoneyMC --------------------------------
(* Where money changes hands: the drawings of the raffle, the withdrawals,  *)
(* the payment of tickets and the conversion of Banano to points.  Each     *)
(* behaviour is about one of them, as they share neither table nor account; *)
(* the others stay as they start.                                           *)
EXTENDS RaffleMC, Withdrawals, EnqueueTicket, BananoConversion

VARIABLE about \* which of them this behaviour is about

MCInit ==
  /\ RaffleInit /\ WithdrawalsInit /\ Init /\ FlowInit
  /\ about \in {"raffle", "withdrawals", "tickets", "conversions"}
MCNext ==
  /\ UNCHANGED about
  /\ \/ about = "raffle" /\ RaffleNext /\ UNCHANGED <<withdrawalsVars, vars, flowVars>>
     \/ about = "withdrawals" /\ WithdrawalsNext /\ UNCHANGED <<raffleVars, vars, flowVars>>
     \/ about = "tickets" /\ Next /\ UNCHANGED <<raffleVars, withdrawalsVars, flowVars>>
     \/ about = "conversions" /\ ConversionNext /\ UNCHANGED <<raffleVars, withdrawalsVars, ticketVars>>
MCSpec == MCInit /\ [][MCNext]_<<raffleVars, withdrawalsVars, vars, flowVars, about>>

(* The type invariants of the parts.                                        *)
MoneyTypeOK ==
  CASE about = "raffle" -> RaffleTypeOK
    [] about = "withdrawals" -> WithdrawalsTypeOK
    [] OTHER -> TypeOK
=============================================================================
