-------------------------- MODULE ActionClientProofs --------------------------
(***************************************************************************)
(* Proofs, for any number of activations and whether the response timeout  *)
(* is on or off, of the safety properties of ActionClient.                 *)
(***************************************************************************)
EXTENDS ActionClient, TLAPS

\* What the client has been told about a goal is so.
KnownOK ==
  \A g \in Goals :
    /\ g \in replied => goals[g] \in {"rejected"} \cup Live \cup Terminal
    /\ g \in resulted => goals[g] \in Terminal
    /\ goals[g] = "unsent" => cancelState[g] = "none"

\* Where the tick thread is in an activation, and how far its one cancel request.
TickOK ==
  /\ pc # "ready" => status = "running"
  /\ status = "running" => current \in Goals /\ goals[current] # "unsent"
  /\ status = "running" /\ pc \notin {"cancel_ack", "cancel_result"}
       => cancelState[current] = "none"
  /\ pc = "cancel_ack" => cancelState[current] # "none"
  /\ pc = "cancel_result" => cancelState[current] = "acked"
  /\ pc \notin Cancelling => ~cancelExpired
  /\ resultReceived => result \in resulted

\* Owed, but for an answer to the cancel request.
OwedGoal(g) == \/ goals[g] = "sent"
               \/ goals[g] = "rejected" /\ g \notin replied
               \/ goals[g] \in Live \cup Terminal /\ g \notin resulted

\* As long as no deadline of a cancel has passed with an answer still owed, only the
\* goal of the activation that runs is owed one, the members are about that goal,
\* and a deadline that has passed finds it answered.
PromptOK ==
  ~late =>
    /\ \A g \in Goals : Owed(g) => g = current /\ status = "running"
    /\ status = "running" =>
         /\ resultReceived <=> current \in resulted
         /\ resultReceived => result = current
         /\ \/ goalRunning \/ resultReceived
            \/ goals[current] = "rejected" /\ current \in replied
    /\ cancelExpired =>
         /\ ~OwedGoal(current)
         /\ Owed(current) => pc = "cancel_ack" /\ blocking

IInv ==
  /\ TypeOK
  /\ KnownOK
  /\ TickOK
  /\ PromptOK

-----------------------------------------------------------------------------
(* The words the definitions are written in, and the conjuncts of IInv.    *)
USE ClientAssumption
USE DEF Live, Terminal, Cancelling, Spinning, SetGoal, InFlight, Owed, OwedGoal, client, wire,
        serverVars
USE DEF IInv, TypeOK, KnownOK, TickOK, PromptOK

LEMMA InitInv == Init => IInv
<1>. SUFFICES ASSUME Init  PROVE IInv
  OBVIOUS
<1>1. {goalRunning, resultReceived, expired, cancelExpired, blocking, serverUp, late}
        \subseteq BOOLEAN
  BY Zenon DEF Init
<1>2. TypeOK
  BY <1>1, SMTT(60) DEF Init
<1>. QED
  BY <1>2, SMTT(60) DEF Init

-----------------------------------------------------------------------------
(* tick() and cancel_active_goal().                                        *)

LEMMA TickSendInv ==
  ASSUME IInv, NEW g \in Goals, TickSend(g)
  PROVE  IInv'
<1>1. {goalRunning, resultReceived, expired, cancelExpired, blocking, serverUp, late}'
        \subseteq BOOLEAN
  BY Zenon DEF TickSend
<1>. QED
  BY <1>1, SMTT(60) DEF TickSend

LEMMA TickUpdateFailsInv ==
  ASSUME IInv, TickUpdateFails
  PROVE  IInv'
BY SMTT(60) DEF TickUpdateFails

LEMMA TickAgainInv ==
  ASSUME IInv, TickAgain
  PROVE  IInv'
BY SMTT(60) DEF TickAgain

LEMMA TickAnswerInv ==
  ASSUME IInv, TickAnswer
  PROVE  IInv'
BY SMTT(60) DEF TickAnswer

LEMMA ResetStatusInv ==
  ASSUME IInv, ResetStatus
  PROVE  IInv'
BY SMTT(60) DEF ResetStatus

LEMMA CancelActiveGoalInv ==
  ASSUME IInv, NEW c \in {"halt", "tick"}, status = "running", pc \in {"ready", "tick"},
         CancelActiveGoal(c)
  PROVE  IInv'
<1>1. CASE ~InFlight
  <2>1. {goalRunning, resultReceived, expired, cancelExpired, blocking, serverUp, late}'
        \subseteq BOOLEAN
    BY <1>1, Zenon DEF CancelActiveGoal, Return
  <2>. QED
    BY <1>1, <2>1, SMTT(60) DEF CancelActiveGoal, Return
<1>2. CASE InFlight /\ handle # NoGoal
  <2>1. SendCancel(handle, FALSE) /\ caller' = c
        /\ UNCHANGED <<handle, status, cancelExpired, current, goalRunning, resultReceived,
                       result, expired, replied, resulted, serverVars>>
    BY <1>2, Zenon DEF CancelActiveGoal
  <2>2. {goalRunning, resultReceived, expired, cancelExpired, blocking, serverUp, late}'
        \subseteq BOOLEAN
    BY <2>1, Zenon DEF SendCancel
  <2>. QED
    BY <1>2, <2>1, <2>2, SMTT(60) DEF SendCancel
<1>3. CASE InFlight /\ handle = NoGoal
  BY <1>3, SMTT(60) DEF CancelActiveGoal
<1>. QED
  BY <1>1, <1>2, <1>3

LEMMA HaltInv ==
  ASSUME IInv, Halt
  PROVE  IInv'
BY CancelActiveGoalInv, Zenon DEF Halt

LEMMA TickTimeoutInv ==
  ASSUME IInv, TickTimeout
  PROVE  IInv'
<1>1. status = "running"
  BY SMTT(30) DEF TickTimeout
<1>. QED
  BY <1>1, CancelActiveGoalInv, Zenon DEF TickTimeout

LEMMA CancelWaitEndInv ==
  ASSUME IInv, CancelWaitEnd
  PROVE  IInv'
<1>1. CASE cancelExpired /\ SendCancel(NoGoal, TRUE)
  <2>1. {goalRunning, resultReceived, expired, cancelExpired, blocking, serverUp, late}'
          \subseteq BOOLEAN
    BY <1>1, Zenon DEF CancelWaitEnd, SendCancel
  <2>. QED
    BY <1>1, <2>1, SMTT(60) DEF CancelWaitEnd, SendCancel
<1>2. CASE ~cancelExpired /\ SendCancel(handle, FALSE)
  <2>1. {goalRunning, resultReceived, expired, cancelExpired, blocking, serverUp, late}'
          \subseteq BOOLEAN
    BY <1>2, Zenon DEF CancelWaitEnd, SendCancel
  <2>. QED
    BY <1>2, <2>1, SMTT(60) DEF CancelWaitEnd, SendCancel
<1>. QED
  BY <1>1, <1>2, Zenon DEF CancelWaitEnd

LEMMA CancelAcknowledgedInv ==
  ASSUME IInv, CancelAcknowledged
  PROVE  IInv'
BY SMTT(60) DEF CancelAcknowledged

LEMMA CancelEndInv ==
  ASSUME IInv, CancelEnd
  PROVE  IInv'
<1>1. {goalRunning, resultReceived, expired, cancelExpired, blocking, serverUp, late}'
        \subseteq BOOLEAN
  BY Zenon DEF CancelEnd, Return
<1>. QED
  BY <1>1, SMTT(60) DEF CancelEnd, Return

-----------------------------------------------------------------------------
(* The callbacks, the server and time.                                     *)

LEMMA DeliverRejectionInv ==
  ASSUME IInv, NEW g \in Goals, DeliverRejection(g)
  PROVE  IInv'
<1>1. {goalRunning, resultReceived, expired, cancelExpired, blocking, serverUp, late}'
        \subseteq BOOLEAN
  BY Zenon DEF DeliverRejection
<1>. QED
  BY <1>1, SMTT(60) DEF DeliverRejection

LEMMA DeliverAcceptanceInv ==
  ASSUME IInv, NEW g \in Goals, DeliverAcceptance(g)
  PROVE  IInv'
BY SMTT(60) DEF DeliverAcceptance

LEMMA DeliverResultInv ==
  ASSUME IInv, NEW g \in Goals, DeliverResult(g)
  PROVE  IInv'
<1>1. {goalRunning, resultReceived, expired, cancelExpired, blocking, serverUp, late}'
        \subseteq BOOLEAN
  BY Zenon DEF DeliverResult
<1>. QED
  BY <1>1, SMTT(60) DEF DeliverResult

LEMMA DeliverCancelReplyInv ==
  ASSUME IInv, NEW g \in Goals, DeliverCancelReply(g)
  PROVE  IInv'
BY SMTT(60) DEF DeliverCancelReply

LEMMA ServerAnswerInv ==
  ASSUME IInv, NEW g \in Goals, ServerAnswer(g)
  PROVE  IInv'
BY SMTT(60) DEF ServerAnswer

LEMMA ServerEndInv ==
  ASSUME IInv, NEW g \in Goals, ServerEnd(g)
  PROVE  IInv'
BY SMTT(60) DEF ServerEnd

LEMMA ServerCancelInv ==
  ASSUME IInv, NEW g \in Goals, ServerCancel(g)
  PROVE  IInv'
BY SMTT(60) DEF ServerCancel

LEMMA ServerDiesInv ==
  ASSUME IInv, ServerDies
  PROVE  IInv'
<1>1. {goalRunning, resultReceived, expired, cancelExpired, blocking, serverUp, late}'
        \subseteq BOOLEAN
  BY Zenon DEF ServerDies
<1>. QED
  BY <1>1, SMTT(60) DEF ServerDies

LEMMA ExpireResponseInv ==
  ASSUME IInv, ExpireResponse
  PROVE  IInv'
BY SMTT(60) DEF ExpireResponse

LEMMA ExpireCancelInv ==
  ASSUME IInv, ExpireCancel
  PROVE  IInv'
<1>1. UNCHANGED <<status, pc, caller, current, goalRunning, resultReceived, handle, result,
                  expired, blocking, wire, goals, serverUp>>
      /\ cancelExpired' = TRUE /\ late' \in BOOLEAN /\ pc \in Cancelling
  BY Zenon DEF ExpireCancel
<1>2. ~late' => ~late /\ \A g \in Goals : ~Owed(g)
  BY Zenon DEF ExpireCancel
<1>3. {goalRunning, resultReceived, expired, cancelExpired, blocking, serverUp, late}'
        \subseteq BOOLEAN
  BY <1>1, Zenon
<1>4. TypeOK' /\ KnownOK' /\ TickOK'
  BY <1>1, <1>3, SMTT(60)
<1>5. PromptOK'
  BY <1>1, <1>2, SMTT(60)
<1>. QED
  BY <1>4, <1>5, Zenon

-----------------------------------------------------------------------------
(* From here on IInv is opaque.                                            *)
HIDE DEF IInv

LEMMA ClientStepInv ==
  ASSUME IInv, ClientStep
  PROVE  IInv'
BY TickAgainInv, TickAnswerInv, TickTimeoutInv, CancelWaitEndInv, CancelAcknowledgedInv,
   CancelEndInv, Zenon DEF ClientStep

LEMMA NextInv ==
  ASSUME IInv, [Next]_vars
  PROVE  IInv'
<1>1. CASE UNCHANGED vars
  BY <1>1, SMTT(60) DEF IInv, vars
<1>2. ASSUME NEW g \in Goals, TickSend(g) \/ Deliver(g) \/ Serve(g)
      PROVE  IInv'
  BY <1>2, TickSendInv, DeliverRejectionInv, DeliverAcceptanceInv, DeliverResultInv,
     DeliverCancelReplyInv, ServerAnswerInv, ServerEndInv, ServerCancelInv, Zenon
     DEF Deliver, Serve
<1>3. CASE TickUpdateFails \/ ResetStatus \/ Halt \/ ClientStep
  BY <1>3, TickUpdateFailsInv, ResetStatusInv, HaltInv, ClientStepInv, Zenon
<1>4. CASE ServerDies \/ ExpireResponse \/ ExpireCancel
  BY <1>4, ServerDiesInv, ExpireResponseInv, ExpireCancelInv, Zenon
<1>. QED
  BY <1>1, <1>2, <1>3, <1>4, Zenon DEF Next

\* IInv is inductive, hence an invariant: the basis of every theorem below.
THEOREM Invariance == Spec => []IInv
<1>1. Init => IInv
  BY InitInv
<1>2. IInv /\ [Next]_vars => IInv'
  BY NextInv
<1>. QED
  BY <1>1, <1>2, PTL DEF Spec

\* The members of the node, what is on the wire and the server's goals keep their
\* types; a result is processed only after the goal's acceptance.
THEOREM TypeCorrect == Spec => []TypeOK
<1>1. IInv => TypeOK
  BY Zenon DEF IInv
<1>. QED
  BY <1>1, Invariance, PTL

\* As long as the server answers within the cancel deadline, the node never has two
\* goals there, however many activations were halted, refused or timed out.
THEOREM LiveGoal == Spec => []OneLiveGoal
<1>1. IInv => OneLiveGoal
  <2>. SUFFICES ASSUME IInv, ~late, NEW g \in Goals, NEW h \in Goals,
                       {goals[g], goals[h]} \subseteq Live \cup {"sent"}
                PROVE  g = h
    BY Zenon DEF OneLiveGoal
  <2>1. Owed(g) /\ Owed(h)
    BY SMTT(30) DEF IInv
  <2>. QED
    BY <2>1, Zenon DEF IInv, PromptOK
<1>. QED
  BY <1>1, Invariance, PTL

-----------------------------------------------------------------------------
(* on_success() is about the activation's own goal.                        *)

\* Only tick(), after its spin, completes an activation with success.
LEMMA SuccessIsAnswered ==
  ASSUME [Next]_vars, status = "running", status' = "success"
  PROVE  TickAnswer
<1>1. ~UNCHANGED status
  OBVIOUS
<1>2. ASSUME NEW g \in Goals, TickSend(g) \/ Deliver(g) \/ Serve(g)
      PROVE  FALSE
  <2>1. CASE TickSend(g)
    BY <2>1, Zenon DEF TickSend
  <2>2. CASE Deliver(g)
    BY <2>2, <1>1, Zenon DEF Deliver, DeliverRejection, DeliverAcceptance, DeliverResult,
       DeliverCancelReply
  <2>3. CASE Serve(g)
    BY <2>3, <1>1, Zenon DEF Serve, ServerAnswer, ServerEnd, ServerCancel
  <2>. QED
    BY <1>2, <2>1, <2>2, <2>3
<1>3. ASSUME NEW c \in {"halt", "tick"}, CancelActiveGoal(c)
      PROVE  FALSE
  BY <1>3, SMTT(30) DEF CancelActiveGoal, Return
<1>4. ~(Halt \/ TickTimeout \/ CancelEnd)
  <2>1. ~Halt /\ ~TickTimeout
    BY <1>3, Zenon DEF Halt, TickTimeout
  <2>2. ~CancelEnd
    BY SMTT(30) DEF CancelEnd, Return
  <2>. QED
    BY <2>1, <2>2
<1>5. ~(TickUpdateFails \/ ResetStatus \/ TickAgain \/ CancelWaitEnd \/ CancelAcknowledged)
  BY <1>1, SMTT(30)
     DEF TickUpdateFails, ResetStatus, TickAgain, CancelWaitEnd, CancelAcknowledged
<1>6. ~(ServerDies \/ ExpireResponse \/ ExpireCancel)
  BY <1>1, SMTT(30) DEF ServerDies, ExpireResponse, ExpireCancel
<1>7. ~UNCHANGED vars
  BY <1>1, SMTT(30) DEF vars
<1>. QED
  BY <1>2, <1>4, <1>5, <1>6, <1>7, Zenon DEF Next, ClientStep

\* tick() succeeds only for the goal this activation sent, whatever earlier
\* activations have left in the members, unless a cancel deadline was missed.
THEOREM OwnSuccess == Spec => SuccessIsOwnUnlessLate
<1>1. ASSUME IInv, [Next]_vars, ~late, status = "running", status' = "success"
      PROVE  goals[current] = "succeeded"
  <2>1. TickAnswer
    BY <1>1, SuccessIsAnswered, Zenon
  <2>2. resultReceived /\ goals[result] = "succeeded"
    BY <1>1, <2>1, SMTT(30) DEF TickAnswer
  <2>. QED
    BY <1>1, <2>2, Zenon DEF IInv, PromptOK
<1>2. IInv /\ [Next]_vars =>
        [~late /\ status = "running" /\ status' = "success"
           => goals[current] = "succeeded"]_vars
  BY <1>1, Zenon
<1>. QED
  BY <1>2, Invariance, PTL DEF Spec, SuccessIsOwnUnlessLate
=============================================================================
