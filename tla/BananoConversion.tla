--------------------------- MODULE BananoConversion ---------------------------
(***************************************************************************)
(* The conversion of Banano to points for one user                         *)
(* (server/components/pointsmanager/banano_conversion.go).  A flow has a   *)
(* receiver of PaymentPool, by which it is named here, and a worker, whose *)
(* loop is one step per choice of its select.  A conversion is one of      *)
(* them: what is credited during it is notified and converted after it,    *)
(* and whoever waits for the lock of the flow has not called yet.          *)
(***************************************************************************)
EXTENDS PaymentPool

VARIABLES
  flow,        \* where the worker of each flow is
  points,      \* sessionPointsTotal: what the user was given
  age,         \* of a flow: "fresh", "near" its expiration, "expired" or "over"
  expireRead,  \* flows whose expireTimer.C was received from
  reconnected, \* flows whose onClientReconnected holds a notification
  userFlow,    \* the entry of the user in bananoConversionFlows
  owed         \* history: flows that failed to convert the last notification

timeVars == <<age, expireRead, reconnected>>
flowVars == <<flow, points, timeVars, userFlow, owed>>
conversionVars == <<poolVars, flowVars>>

-----------------------------------------------------------------------------
(* CreateOrRecoverBananoConversionFlow                                     *)

\* It has an account for a new flow, and bananoConversionFlowsLock.
Creating(r) == account[r] # NoAccount /\ flow[r] = "none"
Locked == \E r \in Receivers : Creating(r)

\* The user has a flow that expires in more than ten seconds.
HasFlow == userFlow # NoReceiver /\ age[userFlow] = "fresh"

\* A worker that waits for its timer for ever keeps the lock of its flow.
Blocked == userFlow # NoReceiver /\ flow[userFlow] = "drain"

\* The worker is told: the notification waits until it subscribes.
Recover ==
  /\ ~Locked /\ ~Blocked /\ HasFlow
  /\ reconnected' = reconnected \cup {userFlow}
  /\ UNCHANGED <<poolVars, flow, points, age, expireRead, userFlow, owed>>

\* The flow that is replaced may still be open.  A new one has the next name.
Unused == {r \in Receivers : account[r] = NoAccount}

RequestFlow ==
  /\ ~Locked /\ ~Blocked /\ ~HasFlow
  /\ Unused # {}
  /\ \E a \in Accounts : RequestAccount(CHOOSE r \in Unused : TRUE, a)
  /\ UNCHANGED flowVars

CreateFlow(r) ==
  /\ Creating(r)
  /\ ReceivePayment(r)
  /\ flow' = [flow EXCEPT ![r] = "starting"]
  /\ userFlow' = r
  /\ UNCHANGED <<points, timeVars, owed>>

-----------------------------------------------------------------------------
(* The worker of a flow                                                    *)

\* Mutant: what was notified before the worker subscribed is lost.
Start_Loses(r) ==
  /\ flow[r] = "starting"
  /\ flow' = [flow EXCEPT ![r] = "select"]
  /\ inbox' = [inbox EXCEPT ![r] = <<>>]
  /\ UNCHANGED <<chain, accounts, account, monitoredAccounts, seenPendings, receivable, mu, group,
                 processing, freeing, outcome, points, timeVars, userFlow, owed>>

\* It subscribes to the payments.  Those credited before were notified with
\* deferral: the first subscriber gets them all.
Start(r) ==
  /\ flow[r] = "starting"
  /\ flow' = [flow EXCEPT ![r] = "select"]
  /\ UNCHANGED <<poolVars, points, timeVars, userFlow, owed>>

\* Its timers.
FlowTimePasses(r) ==
  /\ flow[r] = "select" /\ age[r] # "over"
  /\ age' = [age EXCEPT ![r] = CASE @ = "fresh" -> "near" [] @ = "near" -> "expired" [] OTHER -> "over"]
  /\ UNCHANGED <<poolVars, flow, points, expireRead, reconnected, userFlow, owed>>

\* The timers are stopped and set again.  One that has fired is received from,
\* which waits for ever if the worker has done so before.
Reconnect(r) ==
  /\ flow[r] = "select" /\ r \in reconnected
  /\ reconnected' = reconnected \ {r}
  /\ age' = [age EXCEPT ![r] = "fresh"]
  /\ flow' = [flow EXCEPT ![r] = IF r \in expireRead THEN "drain" ELSE @]
  /\ UNCHANGED <<poolVars, points, expireRead, userFlow, owed>>

\* The client is told that the flow has expired.
FlowExpires(r) ==
  /\ flow[r] = "select" /\ age[r] \in {"expired", "over"} /\ r \notin expireRead
  /\ expireRead' = expireRead \cup {r}
  /\ UNCHANGED <<poolVars, flow, points, age, reconnected, userFlow, owed>>

\* What a number of payments is worth.  Half a point remains of an odd number.
Points(paid) == (3 * paid) \div 2

\* Mutant: each payment is converted for itself.
Expected_Alone(r) == points[r] + Points(1)

\* expectedTotalPointsAmount, from a balance that may have grown since the
\* notification.
Expected(r) == Points(receivable[r][Head(inbox[r])])

\* What the conversion of a notification leaves alone.
TakePayment(r) ==
  /\ flow[r] = "select" /\ inbox[r] # <<>>
  /\ inbox' = [inbox EXCEPT ![r] = Tail(@)]
  /\ UNCHANGED <<chain, accounts, account, monitoredAccounts, seenPendings, receivable, mu, group,
                 processing, freeing, outcome, flow, timeVars, userFlow>>

\* Without points to give there is no transaction.
Convert(r) ==
  /\ TakePayment(r)
  /\ points' = [points EXCEPT ![r] = IF Expected(r) > @ THEN Expected(r) ELSE @]
  /\ owed' = owed \ {r}

ConvertFails(r) ==
  /\ TakePayment(r)
  /\ Expected(r) > points[r]
  /\ owed' = owed \cup {r}
  /\ UNCHANGED points

\* The timers are stopped.  Whatever is left in the channels is lost.
End(r) ==
  /\ flow[r] = "select" /\ age[r] = "over"
  /\ Close(r)
  /\ flow' = [flow EXCEPT ![r] = "cleanup"]
  /\ expireRead' = expireRead \ {r} /\ reconnected' = reconnected \ {r}
  /\ UNCHANGED <<points, age, userFlow, owed>>

\* The entry of the user goes away, whichever flow it is.
Cleanup(r) ==
  /\ flow[r] = "cleanup" /\ ~Locked
  /\ flow' = [flow EXCEPT ![r] = "ended"]
  /\ userFlow' = NoReceiver
  /\ UNCHANGED <<poolVars, points, timeVars, owed>>

-----------------------------------------------------------------------------
FlowInit ==
  /\ flow = [r \in Receivers |-> "none"]
  /\ points = [r \in Receivers |-> 0]
  /\ age = [r \in Receivers |-> "fresh"]
  /\ expireRead = {} /\ reconnected = {} /\ owed = {}
  /\ userFlow = NoReceiver

ConversionInit == PoolInit /\ FlowInit

OfPool(A) == A /\ UNCHANGED flowVars

ConversionNext ==
  \/ OfPool(CopyMonitored) \/ OfPool(ReadFails) \/ OfPool(LockReceiver) \/ OfPool(UnlockReceiver)
  \/ \E a \in Accounts : OfPool(DropAccount(a)) \/ \E p \in Payments : OfPool(Pay(a, p))
  \/ \E p \in Payments : OfPool(ProcessPayment(p))
  \/ Recover \/ RequestFlow
  \/ \E r \in Receivers :
       \/ OfPool(ReadPendings(r))
       \/ OfPool(FreeReceive(r)) \/ OfPool(FreeSend(r)) \/ OfPool(FreeSendErrs(r)) \/ OfPool(ReturnAccount(r))
       \/ OfPool(FreeFails(r)) \/ OfPool(FreeDone(r))
       \/ CreateFlow(r) \/ FlowTimePasses(r)
       \/ Start(r) \/ Reconnect(r) \/ FlowExpires(r) \/ Convert(r) \/ ConvertFails(r) \/ End(r) \/ Cleanup(r)

ConversionSpec == ConversionInit /\ [][ConversionNext]_conversionVars

-----------------------------------------------------------------------------
(* Properties                                                              *)

\* The worker converted the last payment that it was notified of.
Settled(r) == flow[r] # "none" /\ inbox[r] = <<>> /\ r \notin owed

\* A flow never gives more points than what was credited to it until it was
\* closed is worth, rounded once, however the payments were put together; and it
\* gives as many once nothing is left for its worker to read, whether the payments
\* came before the worker had subscribed or after, unless the conversion of the
\* last one failed, which the next one makes up for (banano_conversion.go:77-91,
\* 165, 194-205).  Whatever flows the user had, no payment counts for two of them:
\* CreditedToOneReceiver.
PointsFollowPayments ==
  \A r \in Receivers :
    LET worth == Points(Cardinality(CreditedOpen(r)))
    IN  points[r] <= worth /\ (Settled(r) => points[r] = worth)
=============================================================================
