----------------------------- MODULE RotateRobot -----------------------------
(***************************************************************************)
(* RotateRobot (sh_behavior_tree, navigation) on its base                  *)
(* BTSubscriptionNode (sh_base_template/bt_subscription_node.hpp), with    *)
(* the odometry it listens to and the base it turns.  The node's own       *)
(* executor is spun by tick() only: between two ticks a message waits in   *)
(* the subscription, whose queue holds one.  Angles are whole steps of a   *)
(* circle, a deadline is a flag that time raises, and of a velocity only   *)
(* the direction is kept: the limit max_w does not change it.              *)
(***************************************************************************)
EXTENDS Integers

CONSTANTS
  Half,         \* half a turn (M_PI), in steps
  Angle,        \* angle_rad
  Tolerance,    \* angle_tolerance
  Rate,         \* the integral grows by 1/Rate of the error per message (0.033)
  MaxIntegral,  \* bound: |integral_error_| * Rate
  NoMsg, NoGoal

Yaws == (1 - Half)..Half
Msgs == [yaw : Yaws, fresh : BOOLEAN]

ASSUME RotateAssumption ==
  /\ Half \in Nat \ {0} /\ Angle \in Yaws /\ Tolerance \in Nat
  /\ Rate \in Nat \ {0} /\ MaxIntegral \in Nat
  /\ NoMsg \notin Msgs /\ NoGoal \notin Int

VARIABLES
  status,      \* status() of the tree node
  pc,          \* "spin": the activation's first tick() is about to spin
  expired,     \* now() > timeout_deadline_
  queue,       \* the subscription's queue, depth 1
  lastMsg,     \* last_msg_
  timeouts,    \* timeout_count_
  goalYaw,     \* goal_yaw_, NoGoal while goal_initialized_ is false
  integral,    \* integral_error_ * Rate
  yaw,         \* where the robot points
  twist,       \* the direction of the last velocity published
  silent,      \* no odometry is published any more
  interrupted, \* history: the last activation was halted or failed
  first,       \* history: the yaw of this activation's first message
  stale,       \* history: messages older than the activation it has used
  gaps,        \* history: deadlines this activation has missed in a row, up to 4
  delta,       \* history: the last yaw_delta for this goal
  crossed      \* history: yaw_delta has changed sign for this goal

control == <<status, pc, expired>>
sub     == <<queue, lastMsg>>
rotate  == <<timeouts, goalYaw, integral, twist>>
base    == <<yaw, silent>>
history == <<interrupted, first, stale, gaps, delta, crossed>>
vars    == <<control, sub, rotate, base, history>>

\* The base's constructor: topic and timeout are there, nothing has arrived.
NodeInit == /\ status = "idle" /\ pc = "out" /\ expired = FALSE
            /\ lastMsg = NoMsg

Init ==
  /\ NodeInit
  /\ queue = NoMsg
  /\ timeouts = 0 /\ goalYaw = NoGoal /\ integral = 0 /\ twist = 0
  /\ yaw = 0 /\ silent = FALSE
  /\ interrupted = FALSE /\ first = NoGoal /\ stale = 0 /\ gaps = 0
  /\ delta = 0 /\ crossed = FALSE

-----------------------------------------------------------------------------
(* tick() of BTSubscriptionNode.                                           *)

ResetDeadline == expired' = FALSE

Aged(m) == IF m = NoMsg THEN NoMsg ELSE [m EXCEPT !.fresh = FALSE]

\* A tick of an inactive node starts an activation ...
Activate ==
  /\ pc = "out" /\ status = "idle"
  /\ pc' = "spin" /\ status' = "running" /\ ResetDeadline
  /\ queue' = Aged(queue) /\ lastMsg' = Aged(lastMsg)
  /\ UNCHANGED <<rotate, base, history>>

\* What last_msg_ is after spin_some(): the callback keeps what has arrived.
Spun == IF queue = NoMsg THEN lastMsg ELSE queue

\* on_timeout() of RotateRobot: the status the tick returns.
OnTimeout ==
  IF timeouts + 1 < 3
    THEN timeouts' = timeouts + 1 /\ status' = "running" /\ UNCHANGED <<integral, interrupted>>
    ELSE timeouts' = 0 /\ integral' = 0 /\ status' = "failure" /\ interrupted' = TRUE

\* ... the deadline has passed: a message that came with it stays in last_msg_ ...
TickTimeout ==
  /\ status = "running" /\ expired
  /\ pc' = "out" /\ queue' = NoMsg /\ lastMsg' = Spun
  /\ OnTimeout /\ ResetDeadline
  /\ gaps' = IF gaps = 4 THEN 4 ELSE gaps + 1
  /\ UNCHANGED <<goalYaw, twist, base, first, stale, delta, crossed>>

\* Mutant: a tick without a message starts counting anew.
TickWaits_Recount ==
  /\ status = "running" /\ ~expired /\ Spun = NoMsg
  /\ pc' = "out" /\ timeouts' = 0
  /\ UNCHANGED <<status, expired, sub, goalYaw, integral, twist, base, history>>

\* ... nothing has arrived ...
TickWaits ==
  /\ status = "running" /\ ~expired /\ Spun = NoMsg
  /\ pc' = "out"
  /\ UNCHANGED <<status, expired, sub, rotate, base, history>>

Sign(n) == IF n > 0 THEN 1 ELSE IF n < 0 THEN -1 ELSE 0

\* Mutant: the difference of two angles is taken as it is.
Wrap_Never(d) == d

\* An angle between half a turn and its opposite.
Wrap(d) == IF d > Half THEN d - 2 * Half ELSE IF d < -Half THEN d + 2 * Half ELSE d

\* Mutant: goal_initialized_ stays set.
GoalAfter_Keep(goal, done) == goal

\* At the goal goal_initialized_ is cleared.
GoalAfter(goal, done) == IF done THEN NoGoal ELSE goal

\* on_tick() of RotateRobot towards this goal, from this integral.  Both gains are
\* read from port 'kp': the integral weighs as much as the error.  At the goal no
\* velocity is published.
Steer(m, goal, sum0, isNew) ==
  LET error == Wrap(goal - m.yaw)
      sum   == sum0 + error
      done  == error \in -Tolerance..Tolerance
  IN /\ sum \in -MaxIntegral..MaxIntegral
     /\ timeouts' = 0 /\ integral' = sum
     /\ goalYaw' = GoalAfter(goal, done)
     /\ status' = IF done THEN "success" ELSE "running"
     /\ twist' = IF done THEN twist ELSE Sign(Rate * error + sum)
     /\ interrupted' = (interrupted /\ ~done)
     /\ delta' = IF done THEN 0 ELSE error
     /\ crossed' = (~done /\ ~isNew /\ (crossed \/ delta * error < 0))

\* Mutant: integral_error_ is not reset for a new goal.
OnTick_KeepIntegral(m) ==
  IF goalYaw = NoGoal THEN Steer(m, m.yaw + Angle, integral, TRUE)
                      ELSE Steer(m, goalYaw, integral, FALSE)

\* The first message sets the goal.
OnTick(m) == IF goalYaw = NoGoal THEN Steer(m, m.yaw + Angle, 0, TRUE)
                                 ELSE Steer(m, goalYaw, integral, FALSE)

\* ... or there is a message to use.
TickMessage ==
  /\ status = "running" /\ ~expired /\ Spun # NoMsg
  /\ pc' = "out" /\ queue' = NoMsg /\ lastMsg' = NoMsg
  /\ OnTick(Spun) /\ ResetDeadline
  /\ first' = IF first = NoGoal THEN Spun.yaw ELSE first
  /\ stale' = IF Spun.fresh THEN stale ELSE stale + 1
  /\ gaps' = 0
  /\ UNCHANGED base

\* The activation is over, and its deadline and history with it.
Forget == ResetDeadline /\ first' = NoGoal /\ stale' = 0 /\ gaps' = 0

\* halt() clears the message and the status, nothing of RotateRobot.
Halt ==
  /\ pc = "out" /\ status = "running"
  /\ lastMsg' = NoMsg /\ status' = "idle"
  /\ interrupted' = TRUE /\ Forget
  /\ UNCHANGED <<pc, queue, rotate, base, delta, crossed>>

\* The parent resets a node that has completed before it ticks it again.
ResetStatus ==
  /\ pc = "out" /\ status \in {"success", "failure"}
  /\ status' = "idle" /\ Forget
  /\ UNCHANGED <<pc, sub, rotate, base, interrupted, delta, crossed>>

-----------------------------------------------------------------------------
(* Time, the odometry and the base.                                        *)

Expire ==
  /\ status = "running" /\ ~expired
  /\ expired' = TRUE
  /\ UNCHANGED <<status, pc, sub, rotate, base, history>>

\* A new message replaces one that still waits.
Publish ==
  /\ ~silent
  /\ queue' = [yaw |-> yaw, fresh |-> status = "running"]
  /\ UNCHANGED <<control, lastMsg, rotate, base, history>>

FallSilent ==
  /\ ~silent /\ silent' = TRUE
  /\ UNCHANGED <<control, sub, rotate, yaw, history>>

\* The base goes on turning as it was last told.
Turn ==
  /\ twist # 0
  /\ yaw' = IF yaw + twist = -Half THEN Half ELSE Wrap(yaw + twist)
  /\ UNCHANGED <<control, sub, rotate, silent, history>>

Ticks == TickTimeout \/ TickWaits \/ TickMessage

Next == \/ Activate \/ Ticks \/ Halt \/ ResetStatus
        \/ Expire \/ Publish \/ FallSilent \/ Turn

\* A RUNNING node is ticked again and time passes.
Spec == Init /\ [][Next]_vars /\ WF_vars(Ticks) /\ WF_vars(Expire)

-----------------------------------------------------------------------------
TypeOK ==
  /\ status \in {"idle", "running", "success", "failure"}
  /\ pc \in {"out", "spin"}
  /\ {queue, lastMsg} \subseteq Msgs \cup {NoMsg}
  /\ timeouts \in 0..2
  /\ goalYaw \in {y + Angle : y \in Yaws} \cup {NoGoal}
  /\ integral \in -MaxIntegral..MaxIntegral
  /\ yaw \in Yaws /\ twist \in -1..1
  /\ {expired, silent, interrupted, crossed} \subseteq BOOLEAN
  /\ first \in Yaws \cup {NoGoal} /\ stale \in Nat /\ gaps \in 0..3
  /\ delta \in -Half..Half

\* tick() "Waits for a message to arrive": of what was published before, an
\* activation uses at most one message, the one that was waiting when it began.
\* Unless the activation before it was halted or failed, none of what earlier
\* activations left decides how this one ends: it succeeds where its own first
\* message plus angle_rad says, and "fails after three consecutive timeouts" of
\* its own.
OwnActivation ==
  [][/\ stale' <= 1
     /\ status = "running" /\ ~interrupted
          => /\ status' = "failure" => gaps' = 3
             /\ status' = "success" =>
                  Wrap(Wrap(first' + Angle) - Spun.yaw) \in -Tolerance..Tolerance]_vars

\* The velocity points to the goal as long as the robot has not passed it, by
\* whatever way earlier goals were reached.
TurnsTowardsGoal == ~crossed /\ delta # 0 => twist = Sign(delta)

\* Without odometry the robot does not turn on for ever: the node fails.
SilenceEnds == silent /\ status = "running" ~> status # "running"
=============================================================================
