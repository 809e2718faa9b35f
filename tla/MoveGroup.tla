------------------------------ MODULE MoveGroup ------------------------------
(***************************************************************************)
(* MoveGroupServer (sh_move_group_server): the move_to_named_target and    *)
(* move_to_object actions.  Their callbacks and the lifecycle transitions  *)
(* run one at a time on the spin thread; every accepted goal is executed   *)
(* on a detached thread of its own; what the goal asks for travels from    *)
(* the one to the other in members all goals share.  MoveIt plans and      *)
(* moves the robot in another process.  A target is named by the goal      *)
(* that asks for it.                                                       *)
(***************************************************************************)
EXTENDS Naturals, FiniteSets

CONSTANTS
  Goals, NoGoal,
  Asks           \* what the client of each goal may ask for

Groups == {"arm", "gripper"}

\* "none": a group_name the configuration does not know.  The tree moves the
\* arm to objects and never asks for a cartesian move to a named target.
Wants == [kind : {"named"}, group : Groups \cup {"none"}, cartesian : {FALSE}]
           \cup [kind : {"object"}, group : {"arm"}, cartesian : BOOLEAN]

Nothing == [kind |-> "named", group |-> "none", cartesian |-> FALSE]

ASSUME MoveGroupAssumption == NoGoal \notin Goals /\ Asks \in [Goals -> SUBSET Wants]

VARIABLES
  lifecycle,    \* the node's lifecycle state
  serving,      \* the two action servers exist
  constraints,  \* constraints_ is not null
  proc,         \* the process
  orphans,      \* goals whose action server is gone
  named,        \* goal_named_target_
  object,       \* goal_object_name_
  cartesian,    \* cartesian_
  selected,     \* selected_move_group_
  target,       \* the target set in each group's MoveGroupInterface
  goal,         \* the state of each goal handle
  want,         \* what each goal asked for
  cancelling,   \* the goal whose cancel callback has returned
  pc,           \* the thread of each goal
  aim,          \* its local goal_pose
  plan,         \* its local plan
  legs,         \* the motions it has completed
  motion,       \* what MoveIt makes of its execute()
  disturbed,    \* history: goals that overlapped with another request
  lateStarts    \* history: motions started after the goal was CANCELING

node    == <<lifecycle, serving, constraints, proc, orphans>>
members == <<named, object, cartesian, selected>>
thread  == <<pc, aim, plan, legs>>
history == <<disturbed, lateStarts>>
vars    == <<node, members, target, goal, want, cancelling, thread, motion, history>>

Live     == {"executing", "canceling"}
Terminal == {"succeeded", "aborted", "canceled"}
Up       == proc \in {"up", "closing"}

NoPlan == [group |-> "none", to |-> NoGoal]

Init ==
  /\ proc = "up" /\ lifecycle = "unconfigured" /\ serving = FALSE /\ constraints = FALSE
  /\ orphans = {}
  /\ named = NoGoal /\ object = NoGoal /\ cartesian = FALSE /\ selected = "none"
  /\ target = [m \in Groups |-> NoGoal]
  /\ goal = [g \in Goals |-> "unsent"]
  /\ want = [g \in Goals |-> Nothing]
  /\ cancelling = NoGoal
  /\ pc = [g \in Goals |-> "none"] /\ aim = [g \in Goals |-> NoGoal]
  /\ plan = [g \in Goals |-> NoPlan] /\ legs = [g \in Goals |-> 0]
  /\ motion = [g \in Goals |-> "none"]
  /\ disturbed = {} /\ lateStarts = [g \in Goals |-> 0]

Running == {g \in Goals : motion[g] = "running"}

\* MoveGroupInterface::stop() of these groups.  MoveIt may stop the others too.
Stop(groups) ==
  \E hit \in SUBSET Running :
    /\ {g \in Running : plan[g].group \in groups} \subseteq hit
    /\ motion' = [g \in Goals |-> IF g \in hit THEN "stopped" ELSE motion[g]]

-----------------------------------------------------------------------------
(* The spin thread: lifecycle.                                             *)

\* Bound: no callback in the 200 ms between the stop of a process that closes
\* and its end.
SpinFree == proc = "up" /\ cancelling = NoGoal

Busy == {g \in Goals : pc[g] \notin {"none", "gone"}}

\* arm_move_group_init, gripper_move_group_init: interfaces with no target set.
NewGroups == [m \in Groups |-> NoGoal]

\* The MoveIt configuration, the constraints plugin and its configure() may
\* fail; the last two call on_cleanup, which uses constraints_ as it is.  The
\* groups are made anew once the MoveIt configuration is there (bound: not while
\* a goal of an earlier activation still uses the old ones).
Configure ==
  /\ SpinFree /\ lifecycle = "unconfigured" /\ Busy = {}
  /\ target' = NewGroups
  /\ \/ ~constraints /\ proc' = "crashed" /\ UNCHANGED <<lifecycle, constraints>>
     \/ constraints' = TRUE /\ lifecycle' \in {"unconfigured", "inactive"} /\ UNCHANGED proc
  /\ UNCHANGED <<serving, orphans, members, goal, want, cancelling, thread, motion, history>>

Activate ==
  /\ SpinFree /\ lifecycle = "inactive"
  /\ lifecycle' = "active" /\ serving' = TRUE
  /\ UNCHANGED <<constraints, proc, orphans, members, target, goal, want, cancelling,
                 thread, motion, history>>

Deactivate ==
  /\ SpinFree /\ lifecycle = "active"
  /\ lifecycle' = "inactive" /\ serving' = FALSE
  /\ orphans' = Busy /\ Stop(Groups)
  /\ UNCHANGED <<constraints, proc, members, target, goal, want, cancelling, thread, history>>

Cleanup ==
  /\ SpinFree /\ Busy = {} /\ lifecycle = "inactive"
  /\ lifecycle' = "unconfigured"
  /\ UNCHANGED <<serving, constraints, proc, orphans, members, target, goal, want, cancelling,
                 thread, motion, history>>

\* on_shutdown leaves servers and motion alone.  Bounds: Cleanup and
\* Shutdown touch nothing the thread of a goal uses and are taken between goals,
\* Shutdown after the last one (a finalized node serves on like an active one).
Shutdown ==
  /\ SpinFree /\ lifecycle # "finalized"
  /\ Busy = {} /\ \A g \in Goals : goal[g] # "unsent"
  /\ lifecycle' = "finalized"
  /\ UNCHANGED <<serving, constraints, proc, orphans, members, target, goal, want, cancelling,
                 thread, motion, history>>

-----------------------------------------------------------------------------
(* The spin thread: the callbacks of both action servers.                  *)

\* An unknown group leaves the selection of the request before.
SelectMoveGroup(group) == selected' = IF group = "none" THEN selected ELSE group

\* goal_accepted starts the thread; a goal that is refused has none.
Answer(g, w, accepted) ==
  IF accepted
    THEN /\ goal' = [goal EXCEPT ![g] = "executing"]
         /\ want' = [want EXCEPT ![g] = w]
         /\ pc' = [pc EXCEPT ![g] = "begin"]
    ELSE goal' = [goal EXCEPT ![g] = "rejected"] /\ UNCHANGED <<want, pc>>

\* Both goal_request callbacks write the members before they decide; a goal they
\* refuse leaves them written.  Whether the group knows the named target ...
RequestNamedTarget(g, w) ==
  /\ w.kind = "named" /\ named' = g /\ UNCHANGED object
  /\ cartesian' = w.cartesian /\ SelectMoveGroup(w.group)
  /\ \E exists \in BOOLEAN : Answer(g, w, w.group # "none" /\ exists)

\* ... and the planning scene the object is theirs to say.
RequestObject(g, w) ==
  /\ w.kind = "object" /\ object' = g /\ UNCHANGED named
  /\ cartesian' = w.cartesian /\ SelectMoveGroup(w.group)
  /\ \E exists \in BOOLEAN : Answer(g, w, w.group # "none" /\ exists)

GoalRequest(g) ==
  /\ SpinFree /\ serving /\ goal[g] = "unsent"
  /\ \E w \in Asks[g] : RequestNamedTarget(g, w) \/ RequestObject(g, w)
  /\ disturbed' = disturbed \cup Busy \cup (IF Busy = {} THEN {} ELSE {g})
  /\ UNCHANGED <<node, target, cancelling, aim, plan, legs, motion, lateStarts>>

\* Mutant: goal_cancel reports the goal as cancelled itself.
GoalCancel_Reports(g) ==
  /\ SpinFree /\ serving /\ goal[g] = "executing" /\ g \notin orphans
  /\ Stop({selected}) /\ goal' = [goal EXCEPT ![g] = "canceled"]
  /\ UNCHANGED <<node, members, target, want, cancelling, thread, history>>

\* goal_cancel stops the group of the latest request ...
GoalCancel(g) ==
  /\ SpinFree /\ serving /\ goal[g] = "executing" /\ g \notin orphans
  /\ Stop({selected}) /\ cancelling' = g
  /\ UNCHANGED <<node, members, target, goal, want, thread, history>>

\* ... and the server moves the goal to CANCELING, unless it has ended.
CancelTransition ==
  /\ Up /\ cancelling # NoGoal /\ cancelling' = NoGoal
  /\ goal' = IF goal[cancelling] = "executing"
               THEN [goal EXCEPT ![cancelling] = "canceling"] ELSE goal
  /\ UNCHANGED <<node, members, target, want, thread, motion, history>>

-----------------------------------------------------------------------------
(* The thread of a goal.                                                   *)

At(g, l)   == Up /\ pc[g] = l
To(g, l)   == pc' = [pc EXCEPT ![g] = l]
Asked(g)   == goal[g] = "canceling"       \* stop_requested, is_canceling()

\* The goal gets its result and the thread ends, its locals with it.
End(g, s) ==
  /\ goal' = [goal EXCEPT ![g] = s] /\ To(g, "gone")
  /\ want' = [want EXCEPT ![g] = Nothing] /\ aim' = [aim EXCEPT ![g] = NoGoal]
  /\ plan' = [plan EXCEPT ![g] = NoPlan] /\ legs' = [legs EXCEPT ![g] = 0]
  /\ disturbed' = disturbed \ {g} /\ lateStarts' = [lateStarts EXCEPT ![g] = 0]
  /\ orphans' = orphans \ {g}
  /\ UNCHANGED <<lifecycle, serving, constraints, proc, members, target, cancelling, motion>>

\* Mutant: the named target is not handed to the planner.
Begin_NotSet(g) ==
  /\ At(g, "begin")
  /\ IF want[g].kind = "named"
       THEN To(g, "check") /\ UNCHANGED aim
       ELSE aim' = [aim EXCEPT ![g] = object] /\ To(g, "pose")
  /\ UNCHANGED <<node, members, target, goal, want, cancelling, plan, legs, motion, history>>

\* setNamedTarget, or the pose of the object, asked of MoveIt ...
Begin(g) ==
  /\ At(g, "begin")
  /\ IF want[g].kind = "named"
       THEN /\ target' = [target EXCEPT ![selected] = named]
            /\ To(g, "check") /\ UNCHANGED aim
       ELSE aim' = [aim EXCEPT ![g] = object] /\ To(g, "pose") /\ UNCHANGED target
  /\ UNCHANGED <<node, members, goal, want, cancelling, plan, legs, motion, history>>

\* ... for setPoseTarget.  A move that is not cartesian plans and moves nothing.
Pose(g) ==
  /\ At(g, "pose")
  /\ target' = [target EXCEPT ![selected] = aim[g]]
  /\ To(g, IF cartesian THEN "aim" ELSE "final")
  /\ UNCHANGED <<node, members, goal, want, cancelling, aim, plan, legs, motion, history>>

\* Inverse kinematics and the cartesian path from the pre-grasp pose.
Aim(g) ==
  /\ At(g, "aim")
  /\ \/ target' = [target EXCEPT ![selected] = aim[g]] /\ To(g, "plan")
     \/ UNCHANGED target /\ To(g, "terminate")
  /\ UNCHANGED <<node, members, goal, want, cancelling, aim, plan, legs, motion, history>>

CheckBeforePlan(g) ==
  /\ At(g, "check")
  /\ To(g, IF Asked(g) THEN "terminate" ELSE "plan")
  /\ UNCHANGED <<node, members, target, goal, want, cancelling, aim, plan, legs, motion, history>>

\* Mutant: a plan that failed is tried again with other joint values.
Plan_Again(g) ==
  /\ At(g, "plan")
  /\ \/ plan' = [plan EXCEPT ![g] = [group |-> selected, to |-> target[selected]]]
        /\ To(g, "ready")
     \/ UNCHANGED plan /\ To(g, "aim")
  /\ UNCHANGED <<node, members, target, goal, want, cancelling, aim, legs, motion, history>>

Plan(g) ==
  /\ At(g, "plan")
  /\ \/ plan' = [plan EXCEPT ![g] = [group |-> selected, to |-> target[selected]]]
        /\ To(g, "ready")
     \/ UNCHANGED plan /\ To(g, "terminate")
  /\ UNCHANGED <<node, members, target, goal, want, cancelling, aim, legs, motion, history>>

CheckBeforeExecute(g) ==
  /\ At(g, "ready")
  /\ To(g, IF Asked(g) THEN "terminate" ELSE "execute")
  /\ UNCHANGED <<node, members, target, goal, want, cancelling, aim, plan, legs, motion, history>>

Execute(g) ==
  /\ At(g, "execute") /\ To(g, "moving")
  /\ motion' = [motion EXCEPT ![g] = "running"]
  /\ lateStarts' = [lateStarts EXCEPT ![g] = IF Asked(g) THEN @ + 1 ELSE @]
  /\ UNCHANGED <<node, members, target, goal, want, cancelling, aim, plan, legs, disturbed>>

LegsOf(g) == IF want[g].kind = "named" THEN 1 ELSE 2

\* Mutant: the cartesian approach follows at once.
ExecuteReturns_NoCheck(g) ==
  /\ At(g, "moving")
  /\ \/ /\ motion[g] = "running" /\ legs' = [legs EXCEPT ![g] = @ + 1]
        /\ To(g, IF legs'[g] < LegsOf(g) THEN "execute" ELSE "final")
     \/ UNCHANGED legs /\ To(g, "terminate")
  /\ motion' = [motion EXCEPT ![g] = "none"]
  /\ UNCHANGED <<node, members, target, goal, want, cancelling, aim, plan, history>>

\* Mutant: one motion too many.
ExecuteReturns_OneMore(g) ==
  /\ At(g, "moving")
  /\ \/ /\ motion[g] = "running" /\ legs' = [legs EXCEPT ![g] = @ + 1]
        /\ To(g, IF legs'[g] <= LegsOf(g) THEN "ready" ELSE "final")
     \/ UNCHANGED legs /\ To(g, "terminate")
  /\ motion' = [motion EXCEPT ![g] = "none"]
  /\ UNCHANGED <<node, members, target, goal, want, cancelling, aim, plan, history>>

\* Mutant: the result of the first of two motions is not looked at.
ExecuteReturns_Unread(g) ==
  /\ At(g, "moving")
  /\ \/ /\ motion[g] = "running" /\ legs' = [legs EXCEPT ![g] = @ + 1]
        /\ To(g, IF legs'[g] < LegsOf(g) THEN "ready" ELSE "final")
     \/ UNCHANGED legs /\ To(g, IF legs[g] + 1 < LegsOf(g) THEN "ready" ELSE "final")
  /\ motion' = [motion EXCEPT ![g] = "none"]
  /\ UNCHANGED <<node, members, target, goal, want, cancelling, aim, plan, history>>

\* execute() returns when the motion has ended, failed or been stopped.
ExecuteReturns(g) ==
  /\ At(g, "moving")
  /\ \/ /\ motion[g] = "running" /\ legs' = [legs EXCEPT ![g] = @ + 1]
        /\ To(g, IF legs'[g] < LegsOf(g) THEN "ready" ELSE "final")
     \/ UNCHANGED legs /\ To(g, "terminate")
  /\ motion' = [motion EXCEPT ![g] = "none"]
  /\ UNCHANGED <<node, members, target, goal, want, cancelling, aim, plan, history>>

Final(g) ==
  /\ At(g, "final")
  /\ To(g, IF Asked(g) THEN "terminate" ELSE "succeed")
  /\ UNCHANGED <<node, members, target, goal, want, cancelling, aim, plan, legs, motion, history>>

Succeed(g) == At(g, "succeed") /\ End(g, "succeeded")

\* terminate_goal asks is_canceling() ...
Canceled(g) == Asked(g) /\ End(g, "canceled")

Terminate(g) ==
  /\ At(g, "terminate")
  /\ \/ Canceled(g)
     \/ /\ ~Asked(g) /\ To(g, "terminate2")
        /\ UNCHANGED <<node, members, target, goal, want, cancelling, aim, plan, legs,
                       motion, history>>

\* ... then is_executing().  A goal that is CANCELING by now is left to the
\* destructor of its handle, which cancels it.
TerminateExecuting(g) ==
  /\ At(g, "terminate2")
  /\ \/ Canceled(g)
     \/ /\ ~Asked(g) /\ To(g, "abort")
        /\ UNCHANGED <<node, members, target, goal, want, cancelling, aim, plan, legs,
                       motion, history>>

Abort(g) == At(g, "abort") /\ End(g, "aborted")

ThreadStep(g) ==
  \/ Begin(g) \/ Pose(g) \/ Aim(g) \/ CheckBeforePlan(g) \/ Plan(g)
  \/ CheckBeforeExecute(g) \/ Execute(g) \/ ExecuteReturns(g) \/ Final(g)
  \/ Succeed(g) \/ Terminate(g) \/ TerminateExecuting(g) \/ Abort(g)

-----------------------------------------------------------------------------
(* The end of the process.                                                 *)

SigInt ==
  /\ proc = "up" /\ proc' = "closing"
  /\ Stop(Groups)
  /\ UNCHANGED <<lifecycle, serving, constraints, orphans, members, target, goal, want, cancelling,
                 thread, history>>

\* The process that closes ends at some moment, and nothing of it goes on.
Gone == proc # "up" /\ UNCHANGED vars

Next ==
  \/ Configure \/ Activate \/ Deactivate \/ Cleanup \/ Shutdown
  \/ \E g \in Goals : GoalRequest(g) \/ GoalCancel(g) \/ ThreadStep(g)
  \/ CancelTransition \/ SigInt \/ Gone

\* A thread that runs goes on, MoveIt's plan() and execute() return, and the
\* server finishes the cancel it has accepted.
Spec == /\ Init /\ [][Next]_vars
        /\ \A g \in Goals : WF_vars(proc = "up" /\ ThreadStep(g))
        /\ WF_vars(proc = "up" /\ CancelTransition)

-----------------------------------------------------------------------------
Labels == {"none", "begin", "pose", "aim", "check", "plan", "ready", "execute", "moving",
           "final", "succeed", "terminate", "terminate2", "abort", "gone"}

TypeOK ==
  /\ lifecycle \in {"unconfigured", "inactive", "active", "finalized"}
  /\ {serving, constraints, cartesian} \subseteq BOOLEAN
  /\ proc \in {"up", "closing", "crashed"}
  /\ orphans \subseteq Goals /\ {named, object, cancelling} \subseteq Goals \cup {NoGoal}
  /\ selected \in Groups \cup {"none"}
  /\ target \in [Groups -> Goals \cup {NoGoal}]
  /\ goal \in [Goals -> {"unsent", "rejected"} \cup Live \cup Terminal]
  /\ want \in [Goals -> Wants]
  /\ pc \in [Goals -> Labels] /\ aim \in [Goals -> Goals \cup {NoGoal}]
  /\ plan \in [Goals -> [group : Groups \cup {"none"}, to : Goals \cup {NoGoal}]]
  /\ legs \in [Goals -> 0..2] /\ motion \in [Goals -> {"none", "running", "stopped"}]
  /\ disturbed \subseteq Goals /\ lateStarts \in [Goals -> 0..2]

\* A goal that no other request overlapped with moves its own group to its own
\* target, whatever earlier goals, refused ones too, left in the members and in
\* the planner's targets.
OwnTargetIfAlone ==
  \A g \in Goals : g \notin disturbed /\ motion[g] # "none"
                     => plan[g] = [group |-> want[g].group, to |-> g]

\* A cancelled goal starts at most the one motion that had passed its check
\* when the cancel came: a pick never goes on from the approach to the grasp.
OneMotionAfterCancel == \A g \in Goals : lateStarts[g] <= 1

\* A planned move succeeds only when every motion it consists of was completed.
SuccessMeansMoved ==
  [][\A g \in Goals : /\ goal[g] \in Live /\ goal'[g] = "succeeded" /\ g \notin disturbed
                      /\ want[g].kind = "object" => want[g].cartesian
                      => legs[g] = LegsOf(g)]_vars

\* While its thread runs a goal is neither forgotten nor already reported, and
\* once the thread is gone the goal has its result.
ThreadOwnsGoal ==
  \A g \in Goals : /\ g \in Busy => goal[g] \in Live
                   /\ pc[g] = "gone" => goal[g] \in Terminal

\* A goal asked to cancel ends, even when the cancel meets terminate_goal between
\* its two questions.
CancelledGoalEnds ==
  \A g \in Goals : goal[g] = "canceling" ~> (goal[g] \in Terminal \/ proc # "up")

\* stop_all_motion() "Stop[s] every planning group immediately": a node that has
\* been deactivated moves nothing.
InactiveIsStill == lifecycle = "inactive" => Running = {}
=============================================================================
