-------------------------------- MODULE Modals ---------------------------------
(***************************************************************************)
(* The dialogs of the web client (app/src/modal/modal.ts) on top of the    *)
(* component that shows one of them: dialogs asked for while another is    *)
(* shown wait, a promise is settled for each, and closeModal is awaited by *)
(* those that go on when the dialog is gone.                               *)
(***************************************************************************)
EXTENDS Integers, SequencesExt

CONSTANTS
  Dialogs,  \* what getModalResult is called for, each once
  Closers,  \* who awaits closeModal, each once
  Nothing   \* no dialog, nobody

VARIABLES
  deferredModalOpeningQueue,
  modalCurrentlyActuallyClosed,
  currentModal,
  timer,    \* the 100 ms before the next dialog is opened are running
  window,   \* the dialog the component shows
  leaving,  \* the dialog whose closing is animated
  result,   \* the promise of each dialog: "none", "asked", "opened" (it saw
            \* itself in currentModal) and settled, "response" or "abort"
  closer,   \* of each closer: "idle", "waiting", "resumed" or "forgotten"
  resolver  \* currentModalClosePromiseResolve: the closer it resumes

dialogVars == <<deferredModalOpeningQueue, modalCurrentlyActuallyClosed, timer>>
modalVars == <<dialogVars, currentModal, window, leaving, result, closer, resolver>>

-----------------------------------------------------------------------------
\* currentModal.set: a dialog that saw itself there and sees another is aborted.
Aborted(rs, m) ==
  [d \in Dialogs |-> IF rs[d] = "opened" /\ d # m THEN "abort" ELSE rs[d]]

\* processModalQueue, with a given queue and given results; the dialogs that
\* wait are opened one at a time, the last that was asked for first.
ProcessModalQueue(queue, closed, rs) ==
  /\ deferredModalOpeningQueue' = queue
  /\ IF closed /\ queue # <<>>
     THEN /\ modalCurrentlyActuallyClosed' = FALSE /\ timer' = TRUE
          /\ result' = rs /\ UNCHANGED currentModal
     ELSE /\ modalCurrentlyActuallyClosed' = closed /\ UNCHANGED timer
          /\ currentModal' = IF closed THEN Nothing ELSE currentModal
          /\ result' = IF closed THEN Aborted(rs, Nothing) ELSE rs

\* getModalResult
Ask(m) ==
  /\ result[m] = "none"
  /\ ProcessModalQueue(Append(deferredModalOpeningQueue, m),
                       modalCurrentlyActuallyClosed,
                       [result EXCEPT ![m] = "asked"])
  /\ UNCHANGED <<window, leaving, closer, resolver>>

\* The callback of the timer of processModalQueue.
OpenNext ==
  /\ timer
  /\ LET m == Last(deferredModalOpeningQueue)
     IN  /\ window' = m /\ currentModal' = m
         /\ result' = [Aborted(result, m) EXCEPT ![m] = "opened"]
  /\ deferredModalOpeningQueue' = Front(deferredModalOpeningQueue)
  /\ timer' = FALSE
  /\ UNCHANGED <<modalCurrentlyActuallyClosed, leaving, closer, resolver>>

\* The close of the component: nothing if it shows nothing.
CloseWindow ==
  /\ window' = Nothing
  /\ leaving' = IF window = Nothing THEN leaving ELSE window

\* closeModal, up to its await: its promise replaces the one of another call
\* that still waits, which is not resumed any more.
Close(c) ==
  /\ resolver' = c
  /\ closer' = [k \in Closers |->
       CASE k = c            -> IF currentModal # Nothing THEN "waiting" ELSE "resumed"
         [] k = resolver /\ k # c /\ closer[k] = "waiting" -> "forgotten"
         [] OTHER            -> closer[k]]
  /\ CloseWindow

\* Called with await, and without: by the navigation, by buttons.
CloseModal(c) ==
  /\ closer[c] = "idle"
  /\ Close(c)
  /\ UNCHANGED <<dialogVars, currentModal, result>>

Navigate ==
  /\ Close(Nothing)
  /\ UNCHANGED <<dialogVars, currentModal, result>>

\* The component closes it by itself (Escape, a click outside).
Dismiss ==
  /\ window # Nothing
  /\ CloseWindow
  /\ UNCHANGED <<dialogVars, currentModal, result, closer, resolver>>

\* resultCallback of getModalResult; the buttons are there until the closing
\* animation ends.
Answer(m) ==
  /\ m \in {window, leaving}
  /\ result[m] \in {"opened", "response"}
  /\ result' = [result EXCEPT ![m] = "response"]
  /\ Close(Nothing)
  /\ UNCHANGED <<dialogVars, currentModal>>

\* Mutant: the next dialog is not let in.
Closed_NotReady ==
  /\ leaving # Nothing
  /\ leaving' = Nothing /\ resolver' = Nothing
  /\ closer' = [k \in Closers |-> IF k = resolver THEN "resumed" ELSE closer[k]]
  /\ ProcessModalQueue(deferredModalOpeningQueue, modalCurrentlyActuallyClosed, result)
  /\ UNCHANGED window

\* onModalClosed
Closed ==
  /\ leaving # Nothing
  /\ leaving' = Nothing /\ resolver' = Nothing
  /\ closer' = [k \in Closers |-> IF k = resolver THEN "resumed" ELSE closer[k]]
  /\ ProcessModalQueue(deferredModalOpeningQueue, TRUE, result)
  /\ UNCHANGED window

-----------------------------------------------------------------------------
ModalsInit ==
  /\ deferredModalOpeningQueue = <<>>
  /\ modalCurrentlyActuallyClosed = TRUE
  /\ timer = FALSE
  /\ currentModal = Nothing /\ window = Nothing /\ leaving = Nothing
  /\ result = [m \in Dialogs |-> "none"]
  /\ closer = [c \in Closers |-> "idle"] /\ resolver = Nothing

ModalsNext ==
  \/ \E m \in Dialogs : Ask(m) \/ Answer(m)
  \/ \E c \in Closers : CloseModal(c)
  \/ OpenNext \/ Navigate \/ Dismiss \/ Closed

\* Timers fire, animations end, and the user closes what is shown.
ModalsFairness ==
  /\ WF_modalVars(OpenNext) /\ WF_modalVars(Closed) /\ WF_modalVars(Dismiss)

ModalsSpec == ModalsInit /\ [][ModalsNext]_modalVars
ModalsFairSpec == ModalsSpec /\ ModalsFairness

-----------------------------------------------------------------------------
ModalsTypeOK ==
  /\ deferredModalOpeningQueue \in Seq(Dialogs)
  /\ modalCurrentlyActuallyClosed \in BOOLEAN
  /\ timer \in BOOLEAN /\ (timer => deferredModalOpeningQueue # <<>>)
  /\ {currentModal, window, leaving} \subseteq Dialogs \union {Nothing}
  /\ result \in [Dialogs -> {"none", "asked", "opened", "response", "abort"}]
  /\ closer \in [Closers -> {"idle", "waiting", "resumed", "forgotten"}]
  /\ resolver \in Closers \union {Nothing}

(***************************************************************************)
(* Every dialog asked for gives its result, however many wait and however  *)
(* they are closed, and whoever awaits that the dialog is closed goes on,  *)
(* unless another call of closeModal took the place of its promise         *)
(* (modal.ts).                                                             *)
(***************************************************************************)
ResultsSettle ==
  /\ \A m \in Dialogs :
       (result[m] = "asked") ~> (result[m] \in {"response", "abort"})
  /\ \A c \in Closers :
       (closer[c] = "waiting") ~> (closer[c] \in {"resumed", "forgotten"})
=============================================================================
