-------------------------- MODULE RotateRobotProofs --------------------------
(***************************************************************************)
(* Proofs, for any angle, tolerance and rate, of the safety properties of  *)
(* RotateRobot.                                                            *)
(***************************************************************************)
EXTENDS RotateRobot, TLAPS

\* The velocity is that of the last error, and the integral has grown its way, as
\* long as the robot has not passed the goal; without a goal there is no error.
SteerOK ==
  /\ goalYaw = NoGoal => delta = 0
  /\ goalYaw # NoGoal => delta # 0
  /\ goalYaw # NoGoal /\ ~crossed =>
       /\ twist = Sign(delta)
       /\ delta > 0 => integral >= 0
       /\ delta < 0 => integral <= 0

\* What waits for an activation that has used a message published before it is
\* newer than it.
Fresh(m) == m = NoMsg \/ m.fresh

StaleOK ==
  /\ stale \in 0..1
  /\ status = "idle" => stale = 0
  /\ status = "running" /\ stale = 1 => Fresh(queue) /\ Fresh(lastMsg)

\* The deadlines an activation has missed in a row are among those that count; after
\* one that has succeeded all that count are its own.
GapsOK ==
  /\ status = "idle" => gaps = 0
  /\ status = "running" => gaps <= timeouts
  /\ status = "running" /\ ~interrupted => gaps = timeouts
  /\ status \in {"idle", "success"} /\ ~interrupted => timeouts = 0

\* So is its goal.
GoalOK ==
  /\ status = "failure" => interrupted
  /\ status = "idle" => first = NoGoal
  /\ status \in {"idle", "success"} /\ ~interrupted => goalYaw = NoGoal
  /\ status = "running" /\ ~interrupted =>
       /\ goalYaw = NoGoal <=> first = NoGoal
       /\ goalYaw # NoGoal => goalYaw = first + Angle

IInv ==
  /\ TypeOK
  /\ SteerOK
  /\ StaleOK
  /\ GapsOK
  /\ GoalOK

-----------------------------------------------------------------------------
(* Angles.                                                                 *)

USE RotateAssumption
USE DEF Yaws

\* One turn is enough for the difference of a goal and a yaw.
LEMMA WrapFacts ==
  ASSUME NEW y \in Yaws, NEW z \in Yaws
  PROVE  LET goal == y + Angle
         IN  /\ Wrap(goal - z) \in -Half..Half
             /\ \A t \in Nat : Wrap(goal - z) \in -t..t => Wrap(Wrap(goal) - z) \in -t..t
BY SMTT(60) DEF Wrap

LEMMA TurnFacts ==
  ASSUME NEW y \in Yaws, NEW w \in -1..1
  PROVE  (IF y + w = -Half THEN Half ELSE Wrap(y + w)) \in Yaws
BY SMTT(60) DEF Wrap

\* The velocity that two terms of the same sign make.
LEMMA SignFacts ==
  ASSUME NEW e \in Int, NEW i \in Int
  PROVE  /\ Sign(Rate * e + i) \in -1..1
         /\ e > 0 /\ i >= 0 => Sign(Rate * e + i) = Sign(e)
         /\ e < 0 /\ i <= 0 => Sign(Rate * e + i) = Sign(e)
<1>1. Rate * e \in Int /\ (e > 0 => Rate * e > 0) /\ (e < 0 => Rate * e < 0)
  BY SMT
<1>. DEFINE x == Rate * e
<1>. HIDE DEF x
<1>2. x \in Int /\ (e > 0 => x > 0) /\ (e < 0 => x < 0)
  BY <1>1 DEF x
<1>3. /\ Sign(x + i) \in -1..1
      /\ e > 0 /\ i >= 0 => Sign(x + i) = Sign(e)
      /\ e < 0 /\ i <= 0 => Sign(x + i) = Sign(e)
  BY <1>2 DEF Sign
<1>. QED
  BY <1>3 DEF x

LEMMA ProductFacts ==
  ASSUME NEW d \in Int, NEW e \in Int, ~(d * e < 0)
  PROVE  (e > 0 => d >= 0) /\ (e < 0 => d <= 0)
BY SMT

-----------------------------------------------------------------------------
(* Messages.                                                               *)

LEMMA MsgFacts ==
  /\ \A m \in Msgs : m.yaw \in Yaws /\ m.fresh \in BOOLEAN /\ m # NoMsg
  /\ \A m \in Msgs \cup {NoMsg} : Aged(m) \in Msgs \cup {NoMsg}
BY DEF Msgs, Aged

-----------------------------------------------------------------------------
(* The words the definitions are written in, and the conjuncts of IInv.    *)
USE DEF control, sub, rotate, base, history, IInv

LEMMA InitInv == Init => IInv
<1>. SUFFICES ASSUME Init  PROVE IInv
  OBVIOUS
<1>1. {expired, silent, interrupted, crossed} \subseteq BOOLEAN
  BY Zenon DEF Init, NodeInit
<1>. QED
  BY <1>1, SMTT(60) DEF Init, NodeInit, TypeOK, SteerOK, StaleOK, GapsOK, GoalOK

LEMMA ActivateInv ==
  ASSUME IInv, Activate
  PROVE  IInv'
<1>1. {expired, silent, interrupted, crossed}' \subseteq BOOLEAN
  BY Zenon DEF Activate, ResetDeadline, TypeOK
<1>2. TypeOK'
  BY <1>1, MsgFacts, SMTT(60) DEF Activate, TypeOK
<1>. QED
  BY <1>2, SMTT(60) DEF Activate, TypeOK, SteerOK, StaleOK, GapsOK, GoalOK

LEMMA TickTimeoutInv ==
  ASSUME IInv, TickTimeout
  PROVE  IInv'
<1>1. /\ {expired, silent, interrupted, crossed}' \subseteq BOOLEAN
      /\ interrupted => interrupted'
  BY Zenon DEF TickTimeout, OnTimeout, ResetDeadline, TypeOK
<1>2. \/ /\ timeouts < 2 /\ timeouts' = timeouts + 1 /\ status' = "running"
         /\ UNCHANGED <<integral, interrupted>>
      \/ timeouts = 2 /\ timeouts' = 0 /\ integral' = 0 /\ status' = "failure" /\ interrupted'
  BY SMTT(60) DEF TickTimeout, OnTimeout, TypeOK
<1>3. gaps' = gaps + 1 /\ gaps \in 0..2 /\ Spun \in Msgs \cup {NoMsg}
  BY SMTT(60) DEF TickTimeout, TypeOK, GapsOK, Spun
<1>4. TypeOK'
  BY <1>1, <1>2, <1>3, SMTT(60) DEF TickTimeout, TypeOK
<1>5. SteerOK' /\ StaleOK'
  BY <1>2, SMTT(60) DEF TickTimeout, TypeOK, SteerOK, StaleOK, Spun, Fresh
<1>6. GapsOK' /\ GoalOK'
  BY <1>1, <1>2, <1>3, SMTT(60) DEF TickTimeout, TypeOK, GapsOK, GoalOK
<1>. QED
  BY <1>4, <1>5, <1>6, Zenon

LEMMA TickWaitsInv ==
  ASSUME IInv, TickWaits
  PROVE  IInv'
BY SMTT(60) DEF TickWaits, TypeOK, SteerOK, StaleOK, GapsOK, GoalOK, Fresh

-----------------------------------------------------------------------------
(* A message is used.                                                      *)

\* At the goal, and on the way to it.
Arrives(error) ==
  /\ error \in -Tolerance..Tolerance
  /\ goalYaw' = NoGoal /\ status' = "success" /\ twist' = twist
  /\ interrupted' = FALSE /\ delta' = 0 /\ crossed' = FALSE

Proceeds(error, goal, isNew) ==
  /\ error \notin -Tolerance..Tolerance
  /\ goalYaw' = goal /\ status' = "running" /\ twist' = Sign(Rate * error + integral')
  /\ interrupted' = interrupted /\ delta' = error
  /\ crossed' \in BOOLEAN
  /\ ~crossed' => isNew \/ (~crossed /\ ~(delta * error < 0))

LEMMA SteerFacts ==
  ASSUME TypeOK, NEW m, NEW goal, NEW sum0, NEW isNew \in BOOLEAN, Steer(m, goal, sum0, isNew)
  PROVE  LET error == Wrap(goal - m.yaw)
         IN  /\ timeouts' = 0 /\ integral' = sum0 + error
             /\ integral' \in -MaxIntegral..MaxIntegral
             /\ Arrives(error) \/ Proceeds(error, goal, isNew)
<1>. DEFINE error == Wrap(goal - m.yaw)
            sum   == sum0 + error
            done  == error \in -Tolerance..Tolerance
<1>1. /\ sum \in -MaxIntegral..MaxIntegral
      /\ timeouts' = 0 /\ integral' = sum
      /\ goalYaw' = GoalAfter(goal, done)
      /\ status' = IF done THEN "success" ELSE "running"
      /\ twist' = IF done THEN twist ELSE Sign(Rate * error + sum)
      /\ interrupted' = (interrupted /\ ~done)
      /\ delta' = IF done THEN 0 ELSE error
      /\ crossed' = (~done /\ ~isNew /\ (crossed \/ delta * error < 0))
  BY Zenon DEF Steer
<1>2. done <=> error \in -Tolerance..Tolerance
  OBVIOUS
<1>. HIDE DEF error, sum, done
<1>3. ASSUME done  PROVE Arrives(error)
  <2>1. interrupted' = FALSE /\ crossed' = FALSE
    BY <1>1, <1>3, Zenon
  <2>2. goalYaw' = NoGoal /\ status' = "success" /\ twist' = twist /\ delta' = 0
    BY <1>1, <1>3, Zenon DEF GoalAfter
  <2>. QED
    BY <1>2, <1>3, <2>1, <2>2, Zenon DEF Arrives
<1>4. ASSUME ~done  PROVE Proceeds(error, goal, isNew)
  <2>1. crossed \in BOOLEAN /\ interrupted \in BOOLEAN
    BY Zenon DEF TypeOK
  <2>2. /\ goalYaw' = goal /\ status' = "running" /\ twist' = Sign(Rate * error + integral')
        /\ delta' = error
    BY <1>1, <1>4, Zenon DEF GoalAfter
  <2>3. interrupted' = interrupted
    BY <1>1, <1>4, <2>1, Zenon
  <2>4. crossed' \in BOOLEAN /\ (~crossed' => isNew \/ (~crossed /\ ~(delta * error < 0)))
    BY <1>1, <1>4, Zenon
  <2>. QED
    BY <1>2, <1>4, <2>2, <2>3, <2>4, Zenon DEF Proceeds
<1>. QED
  BY <1>1, <1>3, <1>4, Zenon DEF error, sum

\* Where the message turns the robot to, and how far that is.
Goal == IF goalYaw = NoGoal THEN Spun.yaw + Angle ELSE goalYaw
Error == Wrap(Goal - Spun.yaw)

LEMMA MessageFacts ==
  ASSUME TypeOK, TickMessage
  PROVE  /\ timeouts' = 0
         /\ integral' = (IF goalYaw = NoGoal THEN 0 ELSE integral) + Error
         /\ integral' \in -MaxIntegral..MaxIntegral
         /\ Arrives(Error) \/ Proceeds(Error, Goal, goalYaw = NoGoal)
<1>. DEFINE isNew == goalYaw = NoGoal
            sum0  == IF isNew THEN 0 ELSE integral
<1>1. Steer(Spun, Goal, sum0, isNew)
  <2>1. CASE isNew
    <3>1. isNew = TRUE
      BY <2>1
    <3>. QED
      BY <2>1, <3>1, Zenon DEF TickMessage, OnTick, Goal
  <2>2. CASE ~isNew
    <3>1. isNew = FALSE
      BY <2>2
    <3>. QED
      BY <2>2, <3>1, Zenon DEF TickMessage, OnTick, Goal
  <2>. QED
    BY <2>1, <2>2
<1>2. isNew \in BOOLEAN
  OBVIOUS
<1>3. SUFFICES /\ timeouts' = 0
               /\ integral' = sum0 + Error
               /\ integral' \in -MaxIntegral..MaxIntegral
               /\ Arrives(Error) \/ Proceeds(Error, Goal, isNew)
  BY Zenon
<1>. HIDE DEF isNew, sum0
<1>. QED
  BY <1>1, <1>2, SteerFacts, Zenon DEF Error

LEMMA TickMessageInv ==
  ASSUME IInv, TickMessage
  PROVE  IInv'
<1>. DEFINE isNew == goalYaw = NoGoal
            goal  == Goal
            error == Error
<1>1. /\ status = "running" /\ Spun \in Msgs /\ Spun.yaw \in Yaws
      /\ pc' = "out" /\ queue' = NoMsg /\ lastMsg' = NoMsg /\ expired' = FALSE
      /\ first' = (IF first = NoGoal THEN Spun.yaw ELSE first)
      /\ stale' = (IF Spun.fresh THEN stale ELSE stale + 1)
      /\ gaps' = 0 /\ UNCHANGED base
  BY MsgFacts, SMTT(60) DEF TickMessage, ResetDeadline, TypeOK, Spun
<1>2. /\ timeouts' = 0 /\ integral' = (IF isNew THEN 0 ELSE integral) + error
      /\ integral' \in -MaxIntegral..MaxIntegral
      /\ Arrives(error) \/ Proceeds(error, goal, isNew)
  BY MessageFacts, Zenon
<1>3. error \in -Half..Half /\ goal \in {y + Angle : y \in Yaws}
  <2>1. PICK y \in Yaws : goal = y + Angle
    BY <1>1 DEF TypeOK, Goal
  <2>. QED
    BY <1>1, <2>1, WrapFacts, Zenon DEF Error
<1>4. goal # NoGoal /\ goal \in Int /\ error \in Int
  BY <1>3
<1>. HIDE DEF error
<1>5. StaleOK'
  <2>1. stale' \in 0..1
    BY <1>1, MsgFacts, SMTT(60) DEF StaleOK, Fresh, Spun
  <2>2. status' # "idle"
    BY <1>2, SMT DEF Arrives, Proceeds
  <2>. QED
    BY <1>1, <2>1, <2>2, Zenon DEF StaleOK, Fresh
<1>6. GapsOK'
  BY <1>1, <1>2, SMTT(60) DEF GapsOK, Arrives, Proceeds
<1>7. CASE Arrives(error)
  <2>1. {expired, silent, interrupted, crossed}' \subseteq BOOLEAN
    BY <1>1, <1>7, Zenon DEF Arrives, TypeOK
  <2>2. TypeOK'
    BY <1>1, <1>2, <1>5, <1>7, <2>1, SMTT(60) DEF Arrives, TypeOK, StaleOK
  <2>3. SteerOK' /\ GoalOK'
    BY <1>7, SMTT(60) DEF Arrives, SteerOK, GoalOK
  <2>. QED
    BY <1>5, <1>6, <2>2, <2>3, Zenon
<1>8. CASE Proceeds(error, goal, isNew)
  <2>1. {expired, silent, interrupted, crossed}' \subseteq BOOLEAN
    BY <1>1, <1>8, Zenon DEF Proceeds, TypeOK
  <2>2. integral' \in Int /\ twist' \in -1..1
    <3>1. integral' \in Int
      BY <1>2
    <3>. QED
      BY <1>4, <1>8, <3>1, SignFacts, Zenon DEF Proceeds
  <2>3. TypeOK'
    BY <1>1, <1>2, <1>3, <1>5, <1>8, <2>1, <2>2, SMTT(60) DEF Proceeds, TypeOK, StaleOK
  <2>4. error # 0
    BY <1>4, <1>8 DEF Proceeds
  <2>5. ~crossed' => /\ error > 0 => integral' >= 0
                     /\ error < 0 => integral' <= 0
    <3>1. CASE isNew
      BY <1>2, <1>4, <3>1
    <3>2. CASE ~isNew
      <4>1. SUFFICES ASSUME ~crossed'
                     PROVE  (error > 0 => integral' >= 0) /\ (error < 0 => integral' <= 0)
        OBVIOUS
      <4>2. ~crossed /\ ~(delta * error < 0) /\ delta \in Int /\ integral \in Int
        BY <1>8, <3>2, <4>1 DEF Proceeds, TypeOK
      <4>3. (error > 0 => delta >= 0) /\ (error < 0 => delta <= 0)
        BY <1>4, <4>2, ProductFacts
      <4>4. delta # 0 /\ (delta > 0 => integral >= 0) /\ (delta < 0 => integral <= 0)
        BY <3>2, <4>2, Zenon DEF SteerOK
      <4>5. integral' = integral + error
        BY <1>2, <3>2
      <4>. QED
        BY <1>4, <4>2, <4>3, <4>4, <4>5
    <3>. QED
      BY <3>1, <3>2
  <2>6. ~crossed' => twist' = Sign(error)
    <3>1. twist' = Sign(Rate * error + integral')
      BY <1>8, Zenon DEF Proceeds
    <3>2. error > 0 \/ error < 0
      BY <1>4, <2>4
    <3>. QED
      BY <1>4, <2>2, <2>5, <3>1, <3>2, SignFacts, Zenon
  <2>7. SteerOK'
    BY <1>4, <1>8, <2>4, <2>5, <2>6, SMTT(60) DEF Proceeds, SteerOK
  <2>8. GoalOK'
    BY <1>1, <1>4, <1>8, SMTT(60) DEF Proceeds, GoalOK, TypeOK, Goal
  <2>. QED
    BY <1>5, <1>6, <2>3, <2>7, <2>8, Zenon
<1>. QED
  BY <1>2, <1>7, <1>8, Zenon

-----------------------------------------------------------------------------
(* The end of an activation, and the world.                                *)

LEMMA HaltInv ==
  ASSUME IInv, Halt
  PROVE  IInv'
<1>1. {expired, silent, interrupted, crossed}' \subseteq BOOLEAN
  BY Zenon DEF Halt, Forget, ResetDeadline, TypeOK
<1>. QED
  BY <1>1, SMTT(60)
     DEF Halt, Forget, ResetDeadline, TypeOK, SteerOK, StaleOK, GapsOK, GoalOK, Fresh

LEMMA ResetStatusInv ==
  ASSUME IInv, ResetStatus
  PROVE  IInv'
<1>1. {expired, silent, interrupted, crossed}' \subseteq BOOLEAN
  BY Zenon DEF ResetStatus, Forget, ResetDeadline, TypeOK
<1>. QED
  BY <1>1, SMTT(60)
     DEF ResetStatus, Forget, ResetDeadline, TypeOK, SteerOK, StaleOK, GapsOK, GoalOK,
         Fresh

LEMMA ExpireInv ==
  ASSUME IInv, Expire
  PROVE  IInv'
<1>1. {expired, silent, interrupted, crossed}' \subseteq BOOLEAN
  BY Zenon DEF Expire, TypeOK
<1>. QED
  BY <1>1, SMTT(60) DEF Expire, TypeOK, SteerOK, StaleOK, GapsOK, GoalOK, Fresh

LEMMA PublishInv ==
  ASSUME IInv, Publish
  PROVE  IInv'
<1>1. CASE status = "running"
  <2>1. queue' = [yaw |-> yaw, fresh |-> TRUE]
    BY <1>1, Zenon DEF Publish
  <2>2. queue' \in Msgs /\ Fresh(queue')
    BY <2>1 DEF Msgs, Fresh, TypeOK
  <2>. QED
    BY <2>2, SMTT(60) DEF Publish, TypeOK, SteerOK, StaleOK, GapsOK, GoalOK, Fresh
<1>2. CASE status # "running"
  <2>1. (status = "running") = FALSE
    BY <1>2
  <2>2. queue' = [yaw |-> yaw, fresh |-> FALSE]
    BY <2>1, Zenon DEF Publish
  <2>3. queue' \in Msgs
    BY <2>2 DEF Msgs, TypeOK
  <2>. QED
    BY <1>2, <2>3, SMTT(60) DEF Publish, TypeOK, SteerOK, StaleOK, GapsOK, GoalOK
<1>. QED
  BY <1>1, <1>2

LEMMA FallSilentInv ==
  ASSUME IInv, FallSilent
  PROVE  IInv'
<1>1. {expired, silent, interrupted, crossed}' \subseteq BOOLEAN
  BY Zenon DEF FallSilent, TypeOK
<1>. QED
  BY <1>1, SMTT(60) DEF FallSilent, TypeOK, SteerOK, StaleOK, GapsOK, GoalOK, Fresh

LEMMA TurnInv ==
  ASSUME IInv, Turn
  PROVE  IInv'
<1>1. yaw' \in Yaws
  BY TurnFacts, Zenon DEF Turn, TypeOK
<1>. QED
  BY <1>1, SMTT(60) DEF Turn, TypeOK, SteerOK, StaleOK, GapsOK, GoalOK, Fresh

LEMMA StutterInv ==
  ASSUME IInv, UNCHANGED vars
  PROVE  IInv'
BY SMTT(60) DEF vars, TypeOK, SteerOK, StaleOK, GapsOK, GoalOK, Fresh

-----------------------------------------------------------------------------
(* Every step, and the theorems.                                           *)
HIDE DEF IInv

LEMMA NextInv ==
  ASSUME IInv, [Next]_vars
  PROVE  IInv'
BY ActivateInv, TickTimeoutInv, TickWaitsInv, TickMessageInv, HaltInv, ResetStatusInv,
   ExpireInv, PublishInv, FallSilentInv, TurnInv, StutterInv, Zenon DEF Next, Ticks

\* The invariant all the others follow from.
THEOREM Invariance == Spec => []IInv
BY InitInv, NextInv, PTL DEF Spec

\* The node's members keep their types, the timeouts it counts stay below three and
\* every angle within the half turns it is wrapped to.
THEOREM TypeCorrect == Spec => []TypeOK
<1>1. IInv => TypeOK
  BY Zenon DEF IInv
<1>. QED
  BY <1>1, Invariance, PTL

\* As long as the robot has not passed its goal it turns towards it, whatever earlier
\* goals, halts and timeouts have left in the integral.
THEOREM TurnsRight == Spec => []TurnsTowardsGoal
<1>1. IInv => TurnsTowardsGoal
  BY SMTT(60) DEF IInv, SteerOK, TurnsTowardsGoal
<1>. QED
  BY <1>1, Invariance, PTL

\* Of what was published before an activation it uses one message at most.  Unless
\* the one before was halted or has failed, its outcome is decided by its own goal and
\* by three deadlines of its own.
THEOREM Activations == Spec => OwnActivation
<1>1. ASSUME IInv, [Next]_vars  PROVE stale' <= 1
  <2>1. StaleOK'
    BY <1>1, NextInv, Zenon DEF IInv
  <2>. QED
    BY <2>1, SMT DEF StaleOK
<1>2. ASSUME IInv, [Next]_vars, status = "running", ~interrupted, status' # "running"
      PROVE  \/ status' = "failure" /\ gaps' = 3
             \/ /\ status' = "success"
                /\ Wrap(Wrap(first' + Angle) - Spun.yaw) \in -Tolerance..Tolerance
             \/ status' = "idle"
  <2>1. TypeOK /\ GapsOK /\ GoalOK
    BY <1>2, Zenon DEF IInv
  <2>2. CASE TickTimeout
    BY <1>2, <2>1, <2>2, SMTT(60) DEF TickTimeout, OnTimeout, TypeOK, GapsOK
  <2>3. CASE TickMessage
    <3>1. Arrives(Error)
      BY <1>2, <2>1, <2>3, MessageFacts DEF Proceeds
    <3>2. Spun \in Msgs /\ Spun.yaw \in Yaws
      BY <2>1, <2>3, MsgFacts, SMT DEF TickMessage, TypeOK, Spun
    <3>3. first' \in Yaws /\ Goal = first' + Angle
      BY <1>2, <2>1, <2>3, <3>2, SMT DEF TickMessage, TypeOK, GoalOK, Goal
    <3>4. Error \in -Tolerance..Tolerance
          => Wrap(Wrap(first' + Angle) - Spun.yaw) \in -Tolerance..Tolerance
      BY <3>2, <3>3, WrapFacts, Zenon DEF Error
    <3>. QED
      BY <3>1, <3>4, Zenon DEF Arrives
  <2>4. CASE Halt
    BY <2>4, Zenon DEF Halt
  <2>5. CASE Activate \/ ResetStatus
    BY <1>2, <2>5, SMT DEF Activate, ResetStatus
  <2>6. CASE TickWaits \/ Expire \/ Publish \/ FallSilent \/ Turn \/ UNCHANGED vars
    <3>1. status' = status
      BY <2>6, Zenon DEF TickWaits, Expire, Publish, FallSilent, Turn, vars
    <3>. QED
      BY <1>2, <3>1
  <2>. QED
    BY <1>2, <2>2, <2>3, <2>4, <2>5, <2>6, Zenon DEF Next, Ticks
<1>3. IInv /\ [Next]_vars
      => [/\ stale' <= 1
          /\ status = "running" /\ ~interrupted
               => /\ status' = "failure" => gaps' = 3
                  /\ status' = "success" =>
                       Wrap(Wrap(first' + Angle) - Spun.yaw) \in -Tolerance..Tolerance]_vars
  BY <1>1, <1>2
<1>. QED
  BY <1>3, Invariance, PTL DEF Spec, OwnActivation

=============================================================================
