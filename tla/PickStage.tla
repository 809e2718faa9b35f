------------------------------ MODULE PickStage ------------------------------
(***************************************************************************)
(* The tree of sh_behavior_tree/trees/sh_detection_stage_tree.xml with its *)
(* nodes, the services they call and the MoveIt planning scene behind      *)
(* them.  The tick thread walks the tree; a service node sends, waits and  *)
(* gives up at its timeout, but a request it gave up may still be served.  *)
(* A goal starts the tree again on the blackboard the last one left.       *)
(* "apple_1", "apple_2", ... of every detection bear the same names: an    *)
(* object is its number.                                                   *)
(***************************************************************************)
EXTENDS Naturals, Sequences, FiniteSets, Bags

CONSTANTS
  MaxObjects,    \* bound: objects one detection finds
  MaxGoals,      \* bound: goals, that is executions of the tree
  MaxTimeouts,   \* bound: service calls given up, over all goals
  NoObject       \* no name

ASSUME StageAssumption ==
  /\ MaxObjects \in Nat \ {0} /\ MaxGoals \in Nat /\ MaxTimeouts \in Nat
  /\ NoObject \notin Nat

VARIABLES
  pc,          \* the tree node to tick, "idle" outside a goal
  call,        \* the service call of that node
  answer,      \* what its response carries
  moving,      \* the action goal of that node
  outcome,     \* how the tree ended
  tries,       \* try_count_ of PickLoop
  objectName, errorCode, index, collected, total,   \* blackboard entries
  detected,    \* perception_scene: the number of objects in it
  scene,       \* the objects in MoveIt's planning scene
  posted,      \* removals published to MoveIt and not applied yet
  abandoned,   \* requests given up and not served yet
  timeouts, goalsLeft,
  timely,      \* fixed: calls are answered in time, removals applied at once
  actionTimeout,  \* fixed: action_response_timeout > 0 (as shipped it is 0)
  selected,    \* history: this attempt's GetNextObjectToPick succeeded
  reached,     \* history: this attempt's MoveToPick succeeded
  judged       \* history: CheckErrorIds evaluations of this goal

control == <<pc, call, answer, moving, outcome, tries>>
board   == <<objectName, errorCode, index, collected, total, detected>>
world   == <<scene, posted, abandoned>>
budget  == <<timeouts, goalsLeft, timely, actionTimeout>>
history == <<selected, reached, judged>>
vars    == <<control, board, world, budget, history>>

\* sh_interfaces/msg/ErrorCodes.msg
Codes == {"SUCCESS", "GOAL_CANCELED", "GOAL_REJECTED", "TIMEOUT",
          "PLANNING_FAILED", "EXECUTION_FAILED"}

Before   == {"home", "gripper", "camera", "predict", "found", "transform",
             "clear", "update", "script"}
Loop     == {"select", "pick", "remove", "judge"}
Services == {"predict", "clear", "update", "select", "remove"}
Moves    == {"home", "gripper", "pick"}

Init ==
  /\ pc = "idle" /\ call = "no" /\ answer = NoObject /\ moving = "no"
  /\ outcome = "none" /\ tries = 0
  /\ objectName = NoObject /\ errorCode = "none"
  /\ index = 0 /\ collected = 0 /\ total = 0 /\ detected = 0
  /\ scene = {} /\ posted = <<>> /\ abandoned = EmptyBag
  /\ timeouts = 0 /\ goalsLeft = MaxGoals /\ timely \in BOOLEAN
  /\ actionTimeout \in BOOLEAN
  /\ selected = FALSE /\ reached = FALSE /\ judged = 0

-----------------------------------------------------------------------------
(* How the tree goes on.                                                   *)

Leave(node) == pc' = node /\ call' = "no" /\ answer' = NoObject /\ moving' = "no"

Goto(node) == Leave(node) /\ UNCHANGED <<outcome, tries>>

TreeEnds(result) == Leave("idle") /\ outcome' = result /\ tries' = 0

\* Mutant: a failed attempt is not counted.
AttemptFails_Uncounted == Leave("select") /\ UNCHANGED <<outcome, tries>>

\* PickLoop retries its subtree total_objects times.
AttemptFails ==
  IF tries + 1 < total
    THEN Leave("select") /\ tries' = tries + 1 /\ UNCHANGED outcome
    ELSE TreeEnds("failure")

\* A failing node of the main sequence fails the tree; ForceSuccess hides a
\* failure of PickSequence; any other node of MoveTree fails the attempt.
NodeFails == CASE pc \in Before             -> TreeEnds("failure")
               [] pc \in {"select", "pick"} -> Goto("remove")
               [] OTHER                     -> AttemptFails

StartTree ==
  /\ pc = "idle" /\ goalsLeft > 0
  /\ goalsLeft' = goalsLeft - 1
  /\ Leave("home") /\ outcome' = "none" /\ UNCHANGED tries
  /\ UNCHANGED <<board, world, timeouts, timely, actionTimeout, history>>

\* The goal is cancelled.  A service node returns in the tick it was called in:
\* the tree is halted at a RUNNING node or between two attempts.
HaltTree ==
  /\ \/ pc \in {"home", "gripper", "pick", "camera"}
     \/ pc = "select" /\ call = "no" /\ tries > 0
  /\ TreeEnds("canceled")
  /\ UNCHANGED <<board, world, budget, history>>

-----------------------------------------------------------------------------
(* The action nodes and what their servers do.                             *)

MoveRequest(node, reply) ==
  /\ pc = node /\ moving = "no"
  /\ timely => posted = <<>>
  /\ moving' = reply
  /\ UNCHANGED <<pc, call, answer, outcome, tries, board, world, budget, history>>

\* update_goal of the three nodes; an object the scene does not know is refused.
MoveHomeRequest    == MoveRequest("home", "accepted")
MoveGripperRequest == MoveRequest("gripper", "accepted")
MoveToPickRequest  ==
  MoveRequest("pick", IF objectName \in scene THEN "accepted" ELSE "rejected")

\* Mutant: on_success leaves error_code alone.
MoveSucceeds_NoCode(node, next) ==
  /\ pc = node /\ moving = "accepted"
  /\ reached' = (pc = "pick")
  /\ Goto(next)
  /\ UNCHANGED <<board, world, budget, selected, judged>>

\* on_success ...
MoveSucceeds(node, next) ==
  /\ pc = node /\ moving = "accepted"
  /\ errorCode' = "SUCCESS" /\ reached' = (pc = "pick")
  /\ Goto(next)
  /\ UNCHANGED <<objectName, index, collected, total, detected, world, budget,
                 selected, judged>>

MoveHomeSucceeds    == MoveSucceeds("home", "gripper")
MoveGripperSucceeds == MoveSucceeds("gripper", "camera")
MoveToPickSucceeds  == MoveSucceeds("pick", "remove")

\* ... on_failure ...
MoveFails(node) ==
  /\ pc = node /\ moving = "accepted"
  /\ errorCode' = "PLANNING_FAILED"
  /\ NodeFails
  /\ UNCHANGED <<objectName, index, collected, total, detected, world, budget, history>>

MoveHomeFails    == MoveFails("home")
MoveGripperFails == MoveFails("gripper")
MoveToPickFails  == MoveFails("pick")

\* Mutant: the node keeps the empty on_timeout of its base.
MoveTimesOut_NoCode(node) ==
  /\ pc = node /\ moving # "no" /\ actionTimeout
  /\ NodeFails
  /\ UNCHANGED <<board, world, budget, history>>

\* ... and on_timeout: the one way a rejected goal ends, and it needs a timeout.
MoveTimesOut(node) ==
  /\ pc = node /\ moving # "no" /\ actionTimeout
  /\ errorCode' = "TIMEOUT"
  /\ NodeFails
  /\ UNCHANGED <<objectName, index, collected, total, detected, world, budget, history>>

MoveHomeTimesOut    == MoveTimesOut("home")
MoveGripperTimesOut == MoveTimesOut("gripper")
MoveToPickTimesOut  == MoveTimesOut("pick")

-----------------------------------------------------------------------------
(* BTServiceNode::tick() and the servers.                                  *)

Request == [srv |-> pc, arg |-> CASE pc = "update" -> detected
                                  [] pc = "remove" -> objectName
                                  [] OTHER -> NoObject]

Send ==
  /\ pc \in Services /\ call = "no"
  /\ pc = "remove" => objectName # NoObject
  /\ call' = "sent"
  /\ IF pc = "select" THEN selected' = FALSE /\ reached' = FALSE
                      ELSE UNCHANGED <<selected, reached>>
  /\ UNCHANGED <<pc, answer, moving, outcome, tries, board, world, budget, judged>>

\* send_request of RemoveObjectService finds no object_name on the blackboard.
NothingToSend ==
  /\ pc = "remove" /\ call = "no" /\ objectName = NoObject
  /\ NodeFails
  /\ UNCHANGED <<board, world, budget, history>>

Publish(names) == /\ posted' = IF names = {} THEN posted ELSE Append(posted, names)
                  /\ UNCHANGED scene

ClearScene == Publish(scene)

\* Mutant: only attached objects are removed.
RemoveObject_AttachedOnly(o) == UNCHANGED <<scene, posted>>

RemoveObject(o) == Publish({o})

UpdateScene(n) == scene' = scene \cup 1..n /\ UNCHANGED posted

\* The service's callback on its server; value is what the response carries.
Handle(r, value) ==
  /\ timely => posted = <<>>
  /\ CASE r.srv = "clear"  -> ClearScene /\ value = NoObject
       [] r.srv = "update" -> UpdateScene(r.arg) /\ value = NoObject
       [] r.srv = "remove" -> RemoveObject(r.arg) /\ value = NoObject
       [] r.srv = "select" -> /\ value \in (IF scene = {} THEN {NoObject} ELSE scene)
                              /\ UNCHANGED <<scene, posted>>
       [] OTHER            -> /\ value \in 0..MaxObjects \cup {NoObject}
                              /\ UNCHANGED <<scene, posted>>

Serve ==
  /\ call = "sent" /\ call' = "answered"
  /\ \E value \in 0..MaxObjects \cup {NoObject} : Handle(Request, value) /\ answer' = value
  /\ UNCHANGED <<pc, moving, outcome, tries, board, abandoned, budget, history>>

\* A request nobody waits for any more is not withdrawn.
ServeLate ==
  /\ \E r \in BagToSet(abandoned) :
       /\ \E value \in 0..MaxObjects \cup {NoObject} : Handle(r, value)
       /\ abandoned' = abandoned (-) SetToBag({r})
  /\ UNCHANGED <<control, board, budget, history>>

\* MoveIt takes a removal from the topic it was published on.
ApplyRemoval ==
  /\ posted # <<>>
  /\ scene' = scene \ Head(posted) /\ posted' = Tail(posted)
  /\ UNCHANGED <<control, board, abandoned, budget, history>>

\* No response within service_response_timeout.
GiveUp ==
  /\ call # "no" /\ ~timely /\ timeouts < MaxTimeouts
  /\ timeouts' = timeouts + 1
  /\ abandoned' = IF call = "sent" THEN abandoned (+) SetToBag({Request}) ELSE abandoned
  /\ NodeFails
  /\ UNCHANGED <<board, scene, posted, goalsLeft, timely, actionTimeout, history>>

\* onTick of the service nodes.
ReceivePrediction ==
  /\ pc = "predict" /\ call = "answered"
  /\ IF answer = NoObject THEN NodeFails /\ UNCHANGED detected
                          ELSE Goto("found") /\ detected' = answer
  /\ UNCHANGED <<objectName, errorCode, index, collected, total, world, budget, history>>

ReceiveSceneReady ==
  /\ pc \in {"clear", "update"} /\ call = "answered"
  /\ Goto(IF pc = "clear" THEN "update" ELSE "script")
  /\ UNCHANGED <<board, world, budget, history>>

ReceiveSelection ==
  /\ pc = "select" /\ call = "answered"
  /\ IF answer = NoObject
       THEN NodeFails /\ UNCHANGED <<objectName, selected>>
       ELSE Goto("pick") /\ objectName' = answer /\ selected' = TRUE
  /\ UNCHANGED <<errorCode, index, collected, total, detected, world, budget,
                 reached, judged>>

ReceiveRemoved ==
  /\ pc = "remove" /\ call = "answered"
  /\ Goto("judge")
  /\ UNCHANGED <<board, world, budget, history>>

-----------------------------------------------------------------------------
(* The other nodes.                                                        *)

\* GetCameraDataAction: a synchronised set of images, or the timeout.
Camera ==
  /\ pc = "camera"
  /\ Goto("predict") \/ NodeFails
  /\ UNCHANGED <<board, world, budget, history>>

\* AreObjectsFoundCondition
ObjectsFound ==
  /\ pc = "found"
  /\ IF detected = 0 THEN NodeFails /\ UNCHANGED total
                     ELSE Goto("transform") /\ total' = detected
  /\ UNCHANGED <<objectName, errorCode, index, collected, detected, world, budget, history>>

\* TransformObjectPose: the transform is known, or not.
Transform ==
  /\ pc = "transform"
  /\ Goto("clear") \/ NodeFails
  /\ UNCHANGED <<board, world, budget, history>>

\* Mutant: the index is left where the last goal left it.
Scripts_KeepIndex ==
  /\ pc = "script" /\ Goto("select")
  /\ index' = (IF index = 0 THEN 1 ELSE index) /\ collected' = 0
  /\ judged' = 0
  /\ UNCHANGED <<objectName, errorCode, total, detected, world, budget,
                 selected, reached>>

Scripts ==
  /\ pc = "script" /\ Goto("select")
  /\ index' = 1 /\ collected' = 0
  /\ judged' = 0
  /\ UNCHANGED <<objectName, errorCode, total, detected, world, budget,
                 selected, reached>>

Count == collected' = IF errorCode = "SUCCESS" THEN collected + 1 ELSE collected

\* Mutant: the next index is written before it is compared.
CheckErrorIds_WriteFirst ==
  /\ pc = "judge" /\ Count
  /\ index' = index + 1
  /\ IF index + 1 > total THEN TreeEnds("success") ELSE AttemptFails
  /\ judged' = judged + 1
  /\ UNCHANGED <<objectName, errorCode, total, detected, world, budget,
                 selected, reached>>

\* Mutant: the stage ends when the next index reaches the total.
CheckErrorIds_Reaches ==
  /\ pc = "judge" /\ Count
  /\ IF index + 1 >= total THEN TreeEnds("success") /\ UNCHANGED index
                           ELSE AttemptFails /\ index' = index + 1
  /\ judged' = judged + 1
  /\ UNCHANGED <<objectName, errorCode, total, detected, world, budget,
                 selected, reached>>

\* Every code of the switch does the same but for the count.  FAILURE makes
\* PickLoop try the next object.
CheckErrorIds ==
  /\ pc = "judge" /\ Count
  /\ IF index + 1 > total THEN TreeEnds("success") /\ UNCHANGED index
                          ELSE AttemptFails /\ index' = index + 1
  /\ judged' = judged + 1
  /\ UNCHANGED <<objectName, errorCode, total, detected, world, budget,
                 selected, reached>>

-----------------------------------------------------------------------------
Move == \/ MoveHomeRequest \/ MoveHomeSucceeds \/ MoveHomeFails \/ MoveHomeTimesOut
        \/ MoveGripperRequest \/ MoveGripperSucceeds \/ MoveGripperFails
        \/ MoveGripperTimesOut
        \/ MoveToPickRequest \/ MoveToPickSucceeds \/ MoveToPickFails \/ MoveToPickTimesOut

Receive == \/ ReceivePrediction \/ ReceiveSceneReady \/ ReceiveSelection \/ ReceiveRemoved

\* What a ticked tree and live servers do without anybody asking.
Work == \/ Move \/ Send \/ NothingToSend \/ Serve \/ Receive \/ GiveUp
        \/ Camera \/ ObjectsFound \/ Transform \/ Scripts \/ CheckErrorIds

NoMoreGoals == pc = "idle" /\ goalsLeft = 0 /\ UNCHANGED vars

Next == StartTree \/ HaltTree \/ Work \/ ServeLate \/ ApplyRemoval \/ NoMoreGoals

\* The executor ticks the tree, every action ends or times out, every call is
\* answered or given up, and MoveIt reads its topic.
Spec == Init /\ [][Next]_vars /\ WF_vars(Work) /\ WF_vars(ApplyRemoval)

-----------------------------------------------------------------------------
Names == 1..MaxObjects

TypeOK ==
  /\ pc \in {"idle"} \cup Before \cup Loop
  /\ call \in {"no", "sent", "answered"}
  /\ answer \in 0..MaxObjects \cup {NoObject}
  /\ moving \in {"no", "accepted", "rejected"}
  /\ outcome \in {"none", "success", "failure", "canceled"}
  /\ tries \in 0..(MaxObjects - 1)
  /\ objectName \in Names \cup {NoObject}
  /\ errorCode \in Codes \cup {"none"}
  /\ {index, collected, total, detected, judged} \subseteq 0..MaxObjects
  /\ scene \subseteq Names /\ posted \in Seq(SUBSET Names)
  /\ IsABag(abandoned) /\ \A r \in BagToSet(abandoned) : r.srv \in Services
  /\ timeouts \in 0..MaxTimeouts /\ goalsLeft \in 0..MaxGoals
  /\ {timely, actionTimeout, selected, reached} \subseteq BOOLEAN

\* CheckErrorIds falls off its end when error_code is none of the six codes: it
\* is never reached before some move has written one, nor without an object.
JudgeKnowsTheCode == pc = "judge" => errorCode \in Codes /\ objectName # NoObject

\* CheckErrorIds counts objects, PickLoop counts attempts: the two counters
\* agree but for the attempts RemoveObjectService failed, and the index that is
\* written back never passes the total.
IndexCountsJudgements ==
  pc \in Loop => index = judged + 1 /\ index <= total /\ judged <= tries

\* The stage succeeds only when CheckErrorIds has judged every detected object,
\* so only if no attempt was lost on the way.
SuccessJudgedAll == outcome = "success" => judged = total

\* "objects have been collected": CheckErrorIds counts an object only when
\* MoveToPick has succeeded in this attempt ...
CollectedWasPicked == [][collected' > collected => reached]_vars

\* ... which it does, in both directions, if MoveToPick was ticked at all.
CollectedWasPickedIfSelected ==
  [][pc = "judge" /\ pc' # pc /\ selected
       => collected' = collected + (IF reached THEN 1 ELSE 0)]_vars

\* The stage ends, whatever fails or times out on the way, as long as action servers
\* are live: calls and moves end, one way or the other, as the fairness of Spec says.
\* Then only a rejected goal without an action timeout can hold it.
StageEnds ==
  pc # "idle" ~> pc = "idle" \/ (moving = "rejected" /\ ~actionTimeout)

Judging == pc = "judge" \/ (pc = "remove" /\ call = "answered")

\* The objects that are to stay in MoveIt's planning scene, and those of them the
\* stage has not judged, with the one it is about to judge.
Removed   == UNION {posted[i] : i \in DOMAIN posted}
Left      == scene \ Removed
Remaining == IF pc \notin Loop THEN {}
             ELSE Left \cup (IF Judging THEN {objectName} ELSE {})

\* When the services keep their time, the tree implements the abstract stage.
Service == INSTANCE PickService WITH
  promise   <- timely,
  picking   <- pc \in Loop,
  remaining <- Remaining,
  result    <- IF outcome = "success" THEN "success" ELSE "none"

ImplementsPickService == Service!Spec
=============================================================================
