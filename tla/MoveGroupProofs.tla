--------------------------- MODULE MoveGroupProofs ---------------------------
(***************************************************************************)
(* Proofs, for any set of goals and whatever their clients ask for, of the *)
(* safety properties of MoveGroup.                                         *)
(***************************************************************************)
EXTENDS MoveGroup, TLAPS

\* A goal is where its thread is: it has no result as long as the thread runs.
GoalOK ==
  \A g \in Goals :
    /\ pc[g] = "none" <=> goal[g] \in {"unsent", "rejected"}
    /\ pc[g] = "gone" <=> goal[g] \in Terminal

\* A thread that has not begun finds its locals fresh, and a goal that has been
\* accepted has selected a group.
FreshOK ==
  /\ \A g \in Goals : pc[g] = "none" => legs[g] = 0 /\ lateStarts[g] = 0
  /\ Busy # {} => selected \in Groups

\* Up to its last motion a thread has motions to make.
Moving == {"begin", "pose", "aim", "check", "plan", "ready", "execute", "moving"}

LegsOK == \A g \in Goals : pc[g] \in Moving => legs[g] < LegsOf(g)

\* MoveIt moves the robot for those who wait for it.
MotionOK == \A g \in Goals : motion[g] # "none" <=> pc[g] = "moving"

\* A motion started after the cancel was the last one: each way on asks first.
LateOK ==
  \A g \in Goals :
    lateStarts[g] # 0 =>
      /\ lateStarts[g] = 1 /\ Asked(g)
      /\ pc[g] \in {"moving", "ready", "final", "terminate"}

\* A goal no request has overlapped with is the only one that runs, and the members
\* are still what it asked for.
Alone(g) == g \in Busy /\ g \notin disturbed

MembersOK ==
  \A g \in Goals : Alone(g) =>
    /\ Busy = {g}
    /\ selected = want[g].group /\ cartesian = want[g].cartesian
    /\ IF want[g].kind = "named" THEN named = g ELSE object = g

\* So are the planner's target from the moment it is set, and the plan.
TargetOK ==
  \A g \in Goals : Alone(g) =>
    /\ pc[g] \in {"pose", "aim"} => want[g].kind = "object" /\ aim[g] = g
    /\ pc[g] = "check" => want[g].kind = "named"
    /\ pc[g] \in {"check", "plan"} => target[selected] = g
    /\ pc[g] \in {"ready", "execute", "moving"} => plan[g] = [group |-> want[g].group, to |-> g]

\* A thread past its last question has made its motions, or was asked for none.
MovedOK ==
  \A g \in Goals : Alone(g) /\ pc[g] \in {"final", "succeed"} =>
    legs[g] = LegsOf(g) \/ (want[g].kind = "object" /\ ~want[g].cartesian)

IInv ==
  /\ TypeOK
  /\ GoalOK
  /\ FreshOK
  /\ LegsOK
  /\ MotionOK
  /\ LateOK
  /\ MembersOK
  /\ TargetOK
  /\ MovedOK

-----------------------------------------------------------------------------
(* What a client may ask for.                                              *)

LEMMA WantFacts ==
  ASSUME NEW w \in Wants
  PROVE  /\ w.kind \in {"named", "object"} /\ w.group \in Groups \cup {"none"}
         /\ w.cartesian \in BOOLEAN
BY DEF Wants, Groups

LEMMA NothingIsWant == Nothing \in Wants
BY DEF Nothing, Wants

-----------------------------------------------------------------------------
(* The words the definitions are written in, and the conjuncts of IInv.    *)
USE MoveGroupAssumption
USE DEF Groups, Live, Terminal, Up, Labels, At, To, Asked, Busy, Running, Moving, Alone,
        SpinFree, NoPlan, LegsOf, node, members, thread, history
USE DEF IInv, TypeOK, GoalOK, FreshOK, LegsOK, MotionOK, LateOK, MembersOK, TargetOK,
        MovedOK

LEMMA InitInv == Init => IInv
<1>. SUFFICES ASSUME Init  PROVE IInv
  OBVIOUS
<1>1. {serving, constraints, cartesian} \subseteq BOOLEAN
  BY Zenon DEF Init
<1>2. TypeOK
  BY <1>1, NothingIsWant, SMTT(60) DEF Init
<1>. QED
  BY <1>2, SMTT(60) DEF Init

-----------------------------------------------------------------------------
(* The spin thread.                                                        *)

LEMMA ConfigureInv ==
  ASSUME IInv, Configure
  PROVE  IInv'
<1>1. CASE ~constraints /\ proc' = "crashed" /\ UNCHANGED <<lifecycle, constraints>>
  BY <1>1, SMTT(60) DEF Configure, NewGroups
<1>2. CASE constraints' = TRUE /\ lifecycle' \in {"unconfigured", "inactive"} /\ UNCHANGED proc
  <2>1. constraints' \in BOOLEAN
    BY <1>2, Zenon
  <2>. QED
    BY <1>2, <2>1, SMTT(60) DEF Configure, NewGroups
<1>. QED
  BY <1>1, <1>2, Zenon DEF Configure

LEMMA ActivateInv ==
  ASSUME IInv, Activate
  PROVE  IInv'
BY SMTT(60) DEF Activate

LEMMA DeactivateInv ==
  ASSUME IInv, Deactivate
  PROVE  IInv'
<1>1. serving' \in BOOLEAN
  BY Zenon DEF Deactivate
<1>. QED
  BY <1>1, SMTT(60) DEF Deactivate, Stop

LEMMA CleanupInv ==
  ASSUME IInv, Cleanup
  PROVE  IInv'
BY SMTT(60) DEF Cleanup

LEMMA ShutdownInv ==
  ASSUME IInv, Shutdown
  PROVE  IInv'
BY SMTT(60) DEF Shutdown

LEMMA GoalRequestInv ==
  ASSUME IInv, NEW g \in Goals, GoalRequest(g)
  PROVE  IInv'
BY WantFacts, SMTT(60)
   DEF GoalRequest, RequestNamedTarget, RequestObject, SelectMoveGroup, Answer

LEMMA GoalCancelInv ==
  ASSUME IInv, NEW g \in Goals, GoalCancel(g)
  PROVE  IInv'
BY SMTT(60) DEF GoalCancel, Stop

LEMMA CancelTransitionInv ==
  ASSUME IInv, CancelTransition
  PROVE  IInv'
BY SMTT(60) DEF CancelTransition

LEMMA SigIntInv ==
  ASSUME IInv, SigInt
  PROVE  IInv'
BY SMTT(60) DEF SigInt, Stop

-----------------------------------------------------------------------------
(* The thread of a goal.                                                   *)

LEMMA BeginInv ==
  ASSUME IInv, NEW g \in Goals, Begin(g)
  PROVE  IInv'
BY WantFacts, SMTT(60) DEF Begin

LEMMA PoseInv ==
  ASSUME IInv, NEW g \in Goals, Pose(g)
  PROVE  IInv'
BY WantFacts, SMTT(60) DEF Pose

LEMMA AimInv ==
  ASSUME IInv, NEW g \in Goals, Aim(g)
  PROVE  IInv'
BY WantFacts, SMTT(60) DEF Aim

LEMMA CheckBeforePlanInv ==
  ASSUME IInv, NEW g \in Goals, CheckBeforePlan(g)
  PROVE  IInv'
BY SMTT(60) DEF CheckBeforePlan

LEMMA PlanInv ==
  ASSUME IInv, NEW g \in Goals, Plan(g)
  PROVE  IInv'
BY WantFacts, SMTT(60) DEF Plan

LEMMA CheckBeforeExecuteInv ==
  ASSUME IInv, NEW g \in Goals, CheckBeforeExecute(g)
  PROVE  IInv'
BY SMTT(60) DEF CheckBeforeExecute

LEMMA ExecuteInv ==
  ASSUME IInv, NEW g \in Goals, Execute(g)
  PROVE  IInv'
BY SMTT(60) DEF Execute

LEMMA ExecuteReturnsInv ==
  ASSUME IInv, NEW g \in Goals, ExecuteReturns(g)
  PROVE  IInv'
BY SMTT(60) DEF ExecuteReturns

LEMMA FinalInv ==
  ASSUME IInv, NEW g \in Goals, Final(g)
  PROVE  IInv'
BY SMTT(60) DEF Final

LEMMA SucceedInv ==
  ASSUME IInv, NEW g \in Goals, Succeed(g)
  PROVE  IInv'
BY NothingIsWant, SMTT(60) DEF Succeed, End

LEMMA TerminateInv ==
  ASSUME IInv, NEW g \in Goals, Terminate(g)
  PROVE  IInv'
<1>1. CASE Canceled(g)
  BY <1>1, NothingIsWant, SMTT(60) DEF Terminate, Canceled, End
<1>2. CASE ~Canceled(g)
  BY <1>2, SMTT(60) DEF Terminate
<1>. QED
  BY <1>1, <1>2

LEMMA TerminateExecutingInv ==
  ASSUME IInv, NEW g \in Goals, TerminateExecuting(g)
  PROVE  IInv'
<1>1. CASE Canceled(g)
  BY <1>1, NothingIsWant, SMTT(60) DEF TerminateExecuting, Canceled, End
<1>2. CASE ~Canceled(g)
  BY <1>2, SMTT(60) DEF TerminateExecuting
<1>. QED
  BY <1>1, <1>2

LEMMA AbortInv ==
  ASSUME IInv, NEW g \in Goals, Abort(g)
  PROVE  IInv'
BY NothingIsWant, SMTT(60) DEF Abort, End

-----------------------------------------------------------------------------
(* From here on IInv is opaque.                                            *)
HIDE DEF IInv

LEMMA ThreadStepInv ==
  ASSUME IInv, NEW g \in Goals, ThreadStep(g)
  PROVE  IInv'
BY BeginInv, PoseInv, AimInv, CheckBeforePlanInv, PlanInv, CheckBeforeExecuteInv,
   ExecuteInv,
   ExecuteReturnsInv, FinalInv, SucceedInv, TerminateInv, TerminateExecutingInv, AbortInv,
   Zenon DEF ThreadStep

LEMMA NextInv ==
  ASSUME IInv, [Next]_vars
  PROVE  IInv'
<1>1. CASE UNCHANGED vars
  BY <1>1, SMTT(60) DEF IInv, vars
<1>2. CASE Configure \/ Activate \/ Deactivate \/ Cleanup \/ Shutdown
  BY <1>2, ConfigureInv, ActivateInv, DeactivateInv, CleanupInv, ShutdownInv, Zenon
<1>3. ASSUME NEW g \in Goals, GoalRequest(g) \/ GoalCancel(g) \/ ThreadStep(g)
      PROVE  IInv'
  BY <1>3, GoalRequestInv, GoalCancelInv, ThreadStepInv, Zenon
<1>4. CASE CancelTransition \/ SigInt
  BY <1>4, CancelTransitionInv, SigIntInv, Zenon
<1>. QED
  BY <1>1, <1>2, <1>3, <1>4, Zenon DEF Next, Gone

\* IInv is inductive, hence an invariant: the basis of every theorem below.
THEOREM Invariance == Spec => []IInv
<1>1. Init => IInv
  BY InitInv
<1>2. IInv /\ [Next]_vars => IInv'
  BY NextInv
<1>. QED
  BY <1>1, <1>2, PTL DEF Spec

\* The members, the threads and the goals keep their types; no goal makes more
\* motions than it consists of.
THEOREM TypeCorrect == Spec => []TypeOK
<1>1. IInv => TypeOK
  BY Zenon DEF IInv
<1>. QED
  BY <1>1, Invariance, PTL

\* However many goals were there before, refused ones too, a goal that no other
\* request overlaps with moves its own group to its own target.
THEOREM OwnTarget == Spec => []OwnTargetIfAlone
<1>1. IInv => OwnTargetIfAlone
  <2>. SUFFICES ASSUME IInv, NEW g \in Goals, g \notin disturbed, motion[g] # "none"
                PROVE  plan[g] = [group |-> want[g].group, to |-> g]
    BY Zenon DEF OwnTargetIfAlone
  <2>1. pc[g] = "moving" /\ Alone(g)
    BY SMTT(60) DEF IInv
  <2>. QED
    BY <2>1, SMTT(60) DEF IInv
<1>. QED
  BY <1>1, Invariance, PTL

\* After the cancel at most the motion starts that had passed its check.
THEOREM OneMotion == Spec => []OneMotionAfterCancel
<1>1. IInv => OneMotionAfterCancel
  BY SMTT(60) DEF IInv, OneMotionAfterCancel
<1>. QED
  BY <1>1, Invariance, PTL

\* A goal has a result if, and only if, its thread is gone.
THEOREM Owner == Spec => []ThreadOwnsGoal
<1>1. IInv => ThreadOwnsGoal
  BY SMTT(60) DEF IInv, ThreadOwnsGoal
<1>. QED
  BY <1>1, Invariance, PTL

-----------------------------------------------------------------------------
(* Success means moved.                                                    *)

\* Only the last step of its own thread makes a goal succeed.
LEMMA SucceedsItself ==
  ASSUME IInv, [Next]_vars, NEW g \in Goals, goal[g] \in Live, goal'[g] = "succeeded"
  PROVE  pc[g] = "succeed"
<1>. TypeOK /\ GoalOK
  BY Zenon DEF IInv
<1>1. CASE UNCHANGED vars
  BY <1>1, SMTT(60) DEF vars
<1>2. CASE Configure \/ Activate \/ Deactivate \/ Cleanup \/ Shutdown \/ SigInt
  BY <1>2, SMTT(60) DEF Configure, Activate, Deactivate, Cleanup, Shutdown, SigInt
<1>3. CASE CancelTransition
  BY <1>3, SMTT(60) DEF CancelTransition
<1>4. ASSUME NEW h \in Goals, GoalRequest(h) \/ GoalCancel(h)
      PROVE  pc[g] = "succeed"
  BY <1>4, SMTT(60) DEF GoalRequest, RequestNamedTarget, RequestObject, Answer, GoalCancel
<1>5. ASSUME NEW h \in Goals, ThreadStep(h)
      PROVE  pc[g] = "succeed"
  <2>1. CASE \/ Begin(h) \/ Pose(h) \/ Aim(h) \/ CheckBeforePlan(h) \/ Plan(h)
             \/ CheckBeforeExecute(h) \/ Execute(h) \/ ExecuteReturns(h) \/ Final(h)
    BY <2>1, SMTT(60) DEF Begin, Pose, Aim, CheckBeforePlan, Plan, CheckBeforeExecute,
       Execute, ExecuteReturns, Final
  <2>2. CASE Succeed(h)
    BY <2>2, SMTT(60) DEF Succeed, End
  <2>3. CASE Terminate(h) \/ TerminateExecuting(h) \/ Abort(h)
    BY <2>3, SMTT(60) DEF Terminate, TerminateExecuting, Abort, Canceled, End
  <2>. QED
    BY <1>5, <2>1, <2>2, <2>3, Zenon DEF ThreadStep
<1>. QED
  BY <1>1, <1>2, <1>3, <1>4, <1>5, Zenon DEF Next, Gone

\* A planned move succeeds only when each of its motions was completed.
THEOREM Moved == Spec => SuccessMeansMoved
<1>1. ASSUME IInv, [Next]_vars, NEW g \in Goals,
             goal[g] \in Live, goal'[g] = "succeeded", g \notin disturbed,
             want[g].kind = "object" => want[g].cartesian
      PROVE  legs[g] = LegsOf(g)
  <2>1. pc[g] = "succeed"
    BY <1>1, SucceedsItself, Zenon
  <2>. QED
    BY <1>1, <2>1, SMTT(60) DEF IInv
<1>2. IInv /\ [Next]_vars =>
        [\A g \in Goals : /\ goal[g] \in Live /\ goal'[g] = "succeeded" /\ g \notin disturbed
                          /\ want[g].kind = "object" => want[g].cartesian
                          => legs[g] = LegsOf(g)]_vars
  BY <1>1, Zenon
<1>. QED
  BY <1>2, Invariance, PTL DEF Spec, SuccessMeansMoved
=============================================================================
