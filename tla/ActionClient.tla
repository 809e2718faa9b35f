---------------------------- MODULE ActionClient ----------------------------
(***************************************************************************)
(* BTActionNode, the base of the behaviour tree's action nodes             *)
(* (sh_base_template/bt_action_node.hpp), against a ROS 2 action server.   *)
(* tick() and halt() run on the tick thread; the client's callbacks run    *)
(* only inside the calls that spin the node's own executor, so a message   *)
(* is delivered only while pc is at such a call.  A callback carries no    *)
(* goal identity in the code: it acts on the members whatever goal it is   *)
(* about.  A deadline is a flag that time raises.                          *)
(***************************************************************************)
EXTENDS Naturals, FiniteSets

CONSTANTS
  Goals,           \* the goals of the node's successive activations
  Foreign,         \* a long goal another client has on the same server
  NoGoal,          \* a null goal handle
  All,             \* the target of async_cancel_all_goals
  TimeoutEnabled   \* action_response_timeout_ > 0

ASSUME ClientAssumption ==
  /\ NoGoal \notin Goals /\ All \notin Goals /\ Foreign \notin Goals
  /\ NoGoal # All /\ NoGoal # Foreign
  /\ TimeoutEnabled \in BOOLEAN

VARIABLES
  status,          \* status() of the tree node
  pc,              \* where the tick thread is
  caller,          \* what called cancel_active_goal
  current,         \* the goal of the last send_a_goal
  goalRunning,     \* goal_running_
  resultReceived,  \* goal_result_received_
  handle,          \* goal_handle_
  result,          \* the goal result_ is about
  expired,         \* now() > timeout_deadline_
  cancelExpired,   \* now() >= cancel_deadline
  blocking,        \* the wait for the cancel response got a negative timeout
  goals,           \* the state of each goal on the server
  replied,         \* the goals whose goal response the client has processed
  resulted,        \* the goals whose result the client has processed
  cancelState,     \* the cancel request sent for each activation
  cancelTarget,    \* and the goal, or All, it names
  serverUp,        \* FALSE: the server answers nothing any more
  late             \* history: a cancel deadline passed with an answer still owed

client == <<status, pc, caller, current, goalRunning, resultReceived, handle,
            result, expired, cancelExpired, blocking>>
wire   == <<replied, resulted, cancelState, cancelTarget>>
serverVars == <<goals, serverUp, late>>
vars   == <<client, wire, serverVars>>

Live     == {"executing", "canceling"}
Terminal == {"succeeded", "aborted", "canceled"}

\* The calls that spin the node's executor.
Cancelling == {"cancel_wait", "cancel_ack", "cancel_result"}
Spinning   == {"tick"} \cup Cancelling

Init ==
  /\ status = "idle" /\ pc = "ready" /\ caller = "halt"
  /\ current = NoGoal /\ handle = NoGoal /\ result = NoGoal
  /\ goalRunning = FALSE /\ resultReceived = FALSE
  /\ expired = FALSE /\ cancelExpired = FALSE /\ blocking = FALSE
  /\ goals = [g \in Goals \cup {Foreign} |->
                IF g = Foreign THEN "executing" ELSE "unsent"]
  /\ replied = {} /\ resulted = {}
  /\ cancelState = [g \in Goals |-> "none"]
  /\ cancelTarget = [g \in Goals |-> NoGoal]
  /\ serverUp = TRUE /\ late = FALSE

SetGoal(g, s) == goals' = [goals EXCEPT ![g] = s]

-----------------------------------------------------------------------------
(* tick(), on the tick thread.                                             *)

\* Mutant: send_a_goal leaves goal_result_received_ as it is.
TickSend_KeepResult(g) ==
  /\ pc = "ready" /\ status = "idle" /\ goals[g] = "unsent"
  /\ status' = "running" /\ pc' = "tick"
  /\ current' = g /\ SetGoal(g, "sent")
  /\ handle' = NoGoal /\ goalRunning' = TRUE
  /\ expired' = FALSE
  /\ UNCHANGED <<caller, resultReceived, result, cancelExpired, blocking, wire,
                 serverUp, late>>

\* A tick of an inactive node sends the next goal (send_a_goal) ...
TickSend(g) ==
  /\ pc = "ready" /\ status = "idle" /\ goals[g] = "unsent"
  /\ status' = "running" /\ pc' = "tick"
  /\ current' = g /\ SetGoal(g, "sent")
  /\ resultReceived' = FALSE /\ handle' = NoGoal /\ goalRunning' = TRUE
  /\ expired' = FALSE
  /\ UNCHANGED <<caller, result, cancelExpired, blocking, wire, serverUp, late>>

\* ... unless update_goal() of the derived node has nothing to send.
TickUpdateFails ==
  /\ pc = "ready" /\ status = "idle"
  /\ status' = "failure"
  /\ UNCHANGED <<pc, caller, current, goalRunning, resultReceived, handle, result,
                 expired, cancelExpired, blocking, wire, serverVars>>

TickAgain ==
  /\ pc = "ready" /\ status = "running"
  /\ pc' = "tick"
  /\ UNCHANGED <<status, caller, current, goalRunning, resultReceived, handle,
                 result, expired, cancelExpired, blocking, wire, serverVars>>

\* The rest of tick() after spin_some, when the timeout has not struck.
TickAnswer ==
  /\ pc = "tick" /\ ~(TimeoutEnabled /\ expired)
  /\ pc' = "ready"
  /\ status' = IF ~resultReceived THEN "running"
               ELSE IF goals[result] = "succeeded" THEN "success" ELSE "failure"
  /\ UNCHANGED <<caller, current, goalRunning, resultReceived, handle, result,
                 expired, cancelExpired, blocking, wire, serverVars>>

\* The parent resets a node that has completed before it ticks it again.
ResetStatus ==
  /\ pc = "ready" /\ status \in {"success", "failure"}
  /\ status' = "idle"
  /\ UNCHANGED <<pc, caller, current, goalRunning, resultReceived, handle, result,
                 expired, cancelExpired, blocking, wire, serverVars>>

-----------------------------------------------------------------------------
(* cancel_active_goal(), called by halt() and by a tick that timed out.    *)

InFlight == goalRunning /\ ~resultReceived

\* cancel_active_goal has returned: halt() resets the status, tick() fails.
\* Its local variables are gone.
Return(c) == /\ pc' = "ready"
             /\ status' = IF c = "halt" THEN "idle" ELSE "failure"
             /\ caller' = "halt" /\ cancelExpired' = FALSE /\ blocking' = FALSE

\* async_cancel_goal(h) or, without a handle, async_cancel_all_goals(); then
\* spin_until_future_complete with what is left until the cancel deadline.
\* A negative rest means no timeout at all to rclcpp.
SendCancel(h, overdue) ==
  /\ cancelState' = [cancelState EXCEPT ![current] = "sent"]
  /\ cancelTarget' = [cancelTarget EXCEPT ![current] = IF h = NoGoal THEN All ELSE h]
  /\ blocking' = overdue
  /\ pc' = "cancel_ack"

CancelActiveGoal(c) ==
  /\ IF ~InFlight
       THEN /\ handle' = NoGoal
            /\ Return(c)
            /\ UNCHANGED <<cancelState, cancelTarget>>
       ELSE /\ caller' = c
            /\ IF handle # NoGoal
                 THEN SendCancel(handle, FALSE)
                 ELSE pc' = "cancel_wait" /\ UNCHANGED <<cancelState, cancelTarget, blocking>>
            /\ UNCHANGED <<handle, status, cancelExpired>>
  /\ UNCHANGED <<current, goalRunning, resultReceived, result, expired, replied,
                 resulted, serverVars>>

\* halt() of a RUNNING node.
Halt == pc = "ready" /\ status = "running" /\ CancelActiveGoal("halt")

\* Mutant: the timeout counts only while a goal is in flight.
TickTimeout_InFlight ==
  pc = "tick" /\ TimeoutEnabled /\ expired /\ InFlight /\ CancelActiveGoal("tick")

\* The timeout is looked at before the result.
TickTimeout == pc = "tick" /\ TimeoutEnabled /\ expired /\ CancelActiveGoal("tick")

\* The loop that waits for the handle ends: at the deadline with the null
\* handle its last look at goal_handle_ left, or with what it finds there.
CancelWaitEnd ==
  /\ pc = "cancel_wait"
  /\ \/ cancelExpired /\ SendCancel(NoGoal, TRUE)
     \/ /\ ~cancelExpired
        /\ handle # NoGoal \/ resultReceived \/ ~goalRunning
        /\ SendCancel(handle, FALSE)
  /\ UNCHANGED <<status, caller, current, goalRunning, resultReceived, handle,
                 result, expired, cancelExpired, replied, resulted, serverVars>>

CancelAcknowledged ==
  /\ pc = "cancel_ack" /\ cancelState[current] = "acked"
  /\ pc' = "cancel_result"
  /\ UNCHANGED <<status, caller, current, goalRunning, resultReceived, handle,
                 result, expired, cancelExpired, blocking, wire, serverVars>>

\* Mutant: an acknowledged cancel is not followed to the goal's result.
CancelEnd_AckIsEnough ==
  /\ \/ pc = "cancel_ack" /\ cancelState[current] # "acked" /\ cancelExpired /\ ~blocking
     \/ pc = "cancel_result"
  /\ handle' = NoGoal /\ goalRunning' = FALSE
  /\ Return(caller)
  /\ UNCHANGED <<current, resultReceived, result, expired, wire, serverVars>>

\* Mutant: the wait for the result has no deadline.
CancelEnd_UntilResult ==
  /\ \/ pc = "cancel_ack" /\ cancelState[current] # "acked" /\ cancelExpired /\ ~blocking
     \/ pc = "cancel_result" /\ resultReceived
  /\ handle' = NoGoal /\ goalRunning' = FALSE
  /\ Return(caller)
  /\ UNCHANGED <<current, resultReceived, result, expired, wire, serverVars>>

\* No cancel response before the deadline, or the loop that waits for the
\* result ends: the goal is forgotten.
CancelEnd ==
  /\ \/ pc = "cancel_ack" /\ cancelState[current] # "acked" /\ cancelExpired /\ ~blocking
     \/ pc = "cancel_result" /\ (cancelExpired \/ resultReceived)
  /\ handle' = NoGoal /\ goalRunning' = FALSE
  /\ Return(caller)
  /\ UNCHANGED <<current, resultReceived, result, expired, wire, serverVars>>

-----------------------------------------------------------------------------
(* The client's callbacks, inside a call that spins.                       *)

\* goal_response_callback with a null handle.
DeliverRejection(g) ==
  /\ pc \in Spinning /\ goals[g] = "rejected" /\ g \notin replied
  /\ replied' = replied \cup {g}
  /\ goalRunning' = FALSE
  /\ UNCHANGED <<status, pc, caller, current, resultReceived, handle, result,
                 expired, cancelExpired, blocking, resulted, cancelState,
                 cancelTarget, serverVars>>

\* goal_response_callback with a handle; the client asks for the result now.
DeliverAcceptance(g) ==
  /\ pc \in Spinning /\ goals[g] \in Live \cup Terminal /\ g \notin replied
  /\ replied' = replied \cup {g}
  /\ handle' = g
  /\ UNCHANGED <<status, pc, caller, current, goalRunning, resultReceived, result,
                 expired, cancelExpired, blocking, resulted, cancelState,
                 cancelTarget, serverVars>>

\* Mutant: a result is asked for before the goal is accepted.
DeliverResult_Unasked(g) ==
  /\ pc \in Spinning /\ goals[g] \in Terminal /\ g \notin resulted
  /\ resulted' = resulted \cup {g}
  /\ resultReceived' = TRUE /\ result' = g
  /\ handle' = NoGoal /\ goalRunning' = FALSE
  /\ UNCHANGED <<status, pc, caller, current, expired, cancelExpired, blocking,
                 replied, cancelState, cancelTarget, serverVars>>

\* result_callback.
DeliverResult(g) ==
  /\ pc \in Spinning /\ goals[g] \in Terminal /\ g \in replied \ resulted
  /\ resulted' = resulted \cup {g}
  /\ resultReceived' = TRUE /\ result' = g
  /\ handle' = NoGoal /\ goalRunning' = FALSE
  /\ UNCHANGED <<status, pc, caller, current, expired, cancelExpired, blocking,
                 replied, cancelState, cancelTarget, serverVars>>

\* The response to a cancel request sets that request's own future.
DeliverCancelReply(g) ==
  /\ pc \in Spinning /\ cancelState[g] = "served"
  /\ cancelState' = [cancelState EXCEPT ![g] = "acked"]
  /\ UNCHANGED <<client, replied, resulted, cancelTarget, serverVars>>

Deliver(g) == \/ DeliverRejection(g) \/ DeliverAcceptance(g)
              \/ DeliverResult(g) \/ DeliverCancelReply(g)

-----------------------------------------------------------------------------
(* The action server, as the client can observe it.                        *)

ServerAnswer(g) ==
  /\ serverUp /\ goals[g] = "sent"
  /\ \E s \in {"executing", "rejected"} : SetGoal(g, s)
  /\ UNCHANGED <<client, wire, serverUp, late>>

ServerEnd(g) ==
  /\ serverUp /\ goals[g] \in Live
  /\ \E s \in Terminal :
       /\ s = "canceled" => goals[g] = "canceling"
       /\ SetGoal(g, s)
  /\ UNCHANGED <<client, wire, serverUp, late>>

ServerCancel(g) ==
  /\ serverUp /\ cancelState[g] = "sent"
  /\ cancelState' = [cancelState EXCEPT ![g] = "served"]
  /\ goals' = [h \in DOMAIN goals |->
                 IF cancelTarget[g] \in {h, All} /\ goals[h] = "executing"
                   THEN "canceling" ELSE goals[h]]
  /\ cancelTarget' = [cancelTarget EXCEPT ![g] = NoGoal]
  /\ UNCHANGED <<client, replied, resulted, serverUp, late>>

Serve(g) == ServerAnswer(g) \/ ServerEnd(g) \/ ServerCancel(g)

ServerDies ==
  /\ serverUp
  /\ serverUp' = FALSE
  /\ UNCHANGED <<client, goals, wire, late>>

-----------------------------------------------------------------------------
(* Time.                                                                   *)

ExpireResponse ==
  /\ TimeoutEnabled /\ status = "running" /\ ~expired
  /\ expired' = TRUE
  /\ UNCHANGED <<status, pc, caller, current, goalRunning, resultReceived, handle,
                 result, cancelExpired, blocking, wire, serverVars>>

\* The server owes the client an answer about g.
Owed(g) == \/ goals[g] = "sent"
           \/ goals[g] = "rejected" /\ g \notin replied
           \/ goals[g] \in Live \cup Terminal /\ g \notin resulted
           \/ cancelState[g] \in {"sent", "served"}

ExpireCancel ==
  /\ pc \in Cancelling /\ ~cancelExpired
  /\ cancelExpired' = TRUE
  /\ late' = (late \/ \E g \in Goals : Owed(g))
  /\ UNCHANGED <<status, pc, caller, current, goalRunning, resultReceived, handle,
                 result, expired, blocking, wire, goals, serverUp>>

-----------------------------------------------------------------------------
\* What the tick thread does without being asked again by the tree.
ClientStep == \/ TickAgain \/ TickAnswer \/ TickTimeout
              \/ CancelWaitEnd \/ CancelAcknowledged \/ CancelEnd

Next ==
  \/ \E g \in Goals : TickSend(g) \/ Deliver(g) \/ Serve(g)
  \/ TickUpdateFails \/ ResetStatus \/ Halt \/ ClientStep
  \/ ServerDies \/ ExpireResponse \/ ExpireCancel

\* A RUNNING node is ticked again, time passes, a live server answers and ends
\* its goals, and what has arrived is delivered by a later spin.
Fairness ==
  /\ WF_vars(ClientStep) /\ WF_vars(ExpireResponse) /\ WF_vars(ExpireCancel)
  /\ \A g \in Goals : WF_vars(Serve(g)) /\ SF_vars(Deliver(g))

Spec == Init /\ [][Next]_vars /\ Fairness

-----------------------------------------------------------------------------
TypeOK ==
  /\ status \in {"idle", "running", "success", "failure"}
  /\ pc \in {"ready"} \cup Spinning
  /\ caller \in {"halt", "tick"}
  /\ {current, handle, result} \subseteq Goals \cup {NoGoal}
  /\ {goalRunning, resultReceived, expired, cancelExpired, blocking, serverUp, late}
       \subseteq BOOLEAN
  /\ goals \in [Goals \cup {Foreign} ->
                  {"unsent", "sent", "rejected"} \cup Live \cup Terminal]
  /\ replied \subseteq Goals /\ resulted \subseteq replied
  /\ cancelState \in [Goals -> {"none", "sent", "served", "acked"}]
  /\ cancelTarget \in [Goals -> Goals \cup {NoGoal, All}]

\* A server that answers within the cancel deadline never has two goals of one
\* node: the goal of an activation has ended before the next one is sent.
OneLiveGoal ==
  ~late => \A g, h \in Goals :
             {goals[g], goals[h]} \subseteq Live \cup {"sent"} => g = h

\* on_success() is "invoked by tick() when the action finishes with success":
\* tick() succeeds only when the goal this activation sent has succeeded ...
SuccessIsOwn ==
  [][status = "running" /\ status' = "success" => goals[current] = "succeeded"]_vars

\* ... which does hold as long as no cancel ran into its deadline before.
SuccessIsOwnUnlessLate ==
  [][~late /\ status = "running" /\ status' = "success"
       => goals[current] = "succeeded"]_vars

\* tick() "Waits for an action response to arrive or the timeout expires": with
\* a live server an activation does not stay RUNNING for ever, not even when
\* late answers to earlier activations arrive in it.
ActivationEnds == status = "running" ~> status # "running" \/ ~serverUp

\* While the server lives, cancelling returns: a late goal response, a refused
\* goal or a cancel without timeout cannot keep halt() or a timed-out tick.
CancelReturns == pc \in Cancelling ~> pc = "ready" \/ ~serverUp
=============================================================================
