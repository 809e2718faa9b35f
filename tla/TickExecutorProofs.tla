------------------------- MODULE TickExecutorProofs -------------------------
(***************************************************************************)
(* Proofs, for any set of goals, of the safety invariants of TickExecutor. *)
(***************************************************************************)
EXTENDS TickExecutor, TLAPS

BeforeSignal == at["sig"] = "free"

\* The callback in progress on the spin thread is about a goal; a goal being
\* accepted has no tick thread yet.
HandlingOK ==
  /\ at["spin"] \in Accepting \cup {"cancel"} => handling \in Goals
  /\ at["spin"] \in Accepting =>
       server /\ pc[handling] = "none" /\ goalState[handling] = "executing"
  /\ at["spin"] = "cancel" => handling \in asked

\* Past its join and up to the assignment of a new thread the spin thread
\* knows that there is no tick thread.
Joined ==
  at["spin"] \in {"mark", "clear", "spawn", "clear_token", "clear_running", "reset"}
    => thread = NoGoal

\* One joiner at a time, of a thread that has started.
JoinOK ==
  /\ at["spin"] \in Joining => thread # NoGoal /\ at["sig"] \notin Joining
  /\ at["sig"] \in Joining => thread # NoGoal
  /\ thread # NoGoal => pc[thread] # "none"

\* The goals without a result are those being accepted or executed, and a goal
\* is about to end CANCELED only from CANCELING.
ActiveOK ==
  \A g \in Goals :
    /\ pc[g] \in Looping \cup Ending => goalState[g] \in Active
    /\ pc[g] = "canceled" => goalState[g] = "canceling"
    /\ goalState[g] \in Active =>
         \/ pc[g] \in Looping \cup Ending
         \/ at["spin"] \in Accepting /\ handling = g
    /\ goalState[g] \in {"unsent", "rejected"} => pc[g] = "none"
    /\ goalState[g] = "canceling" => g \in asked

\* The server exists in Active and may be left over in Finalized; stopping
\* starts in Active.
LifecycleOK ==
  /\ lifecycle = "active" => server
  /\ server => lifecycle \in {"active", "finalized"}
  /\ at["spin"] \in Stopping \cup {"reset"} => lifecycle = "active"
  /\ lifecycle \in {"unconfigured", "inactive"} => thread = NoGoal

\* Until a shutdown signal the token, set, means the goal's own cancel or the
\* stop that is going on.
TokenOK ==
  /\ ~ok => ~BeforeSignal
  /\ BeforeSignal =>
       /\ at["spin"] = "spawn" => ~cancelToken
       /\ at["spin"] \in {"stop_test", "stop_join"} => cancelToken
       /\ \A g \in Goals : cancelToken /\ pc[g] \in Looping =>
            g \in asked \/ at["spin"] \in Stopping

\* Until a shutdown signal goal_running_ marks every tick thread.
RunningOK ==
  BeforeSignal =>
    /\ \A g \in Goals : Alive(g) => goalRunning
    /\ at["spin"] \in {"clear", "spawn"} => goalRunning
    /\ at["spin"] \in {"accept", "accept_join"} => \A g \in Goals : ~Alive(g)

IInv ==
  /\ TypeOK
  /\ HandlingOK
  /\ Joined
  /\ JoinOK
  /\ OneJoinableTicker
  /\ ActiveOK
  /\ LifecycleOK
  /\ GoalStartsOnIdleTree
  /\ TokenOK
  /\ RunningOK
  /\ HaltedForAReason
  /\ NoTerminateBeforeSignal

-----------------------------------------------------------------------------
(* The words the definitions are written in, and the conjuncts of IInv.    *)
USE GoalsAssumption
USE DEF Lifecycle, Waiting, Looping, Ending, TickPc, Accepting, Stopping, Joining, SpinPc,
        SigPc, Active, Terminal, GoalState, Threads, Goto, SetGoal, GotoTick,
        SpinIdle, Alive, BeforeSignal
USE DEF IInv, TypeOK, HandlingOK, Joined, JoinOK, OneJoinableTicker, ActiveOK,
        LifecycleOK, GoalStartsOnIdleTree, TokenOK, RunningOK, HaltedForAReason,
        NoTerminateBeforeSignal

LEMMA InitInv == Init => IInv
BY DEF Init

-----------------------------------------------------------------------------
(* Goals, on the spin thread.                                              *)

LEMMA RejectGoalInv ==
  ASSUME IInv, NEW g \in Goals, RejectGoal(g)
  PROVE  IInv'
BY SMTT(60) DEF RejectGoal

LEMMA AcceptGoalInv ==
  ASSUME IInv, NEW g \in Goals, AcceptGoal(g)
  PROVE  IInv'
BY SMTT(60) DEF AcceptGoal

LEMMA AcceptMarkInv ==
  ASSUME IInv, AcceptMark
  PROVE  IInv'
BY SMTT(60) DEF AcceptMark

LEMMA AcceptClearInv ==
  ASSUME IInv, AcceptClear
  PROVE  IInv'
<1>1. cancelToken' \in BOOLEAN
  BY Zenon DEF AcceptClear
<1>. QED
  BY <1>1, SMTT(60) DEF AcceptClear

LEMMA AcceptSpawnInv ==
  ASSUME IInv, AcceptSpawn
  PROVE  IInv'
BY SMTT(60) DEF AcceptSpawn

LEMMA CancelGoalInv ==
  ASSUME IInv, NEW g \in Goals, CancelGoal(g)
  PROVE  IInv'
BY SMTT(60) DEF CancelGoal

LEMMA CancelTransitionInv ==
  ASSUME IInv, CancelTransition
  PROVE  IInv'
BY SMTT(60) DEF CancelTransition

-----------------------------------------------------------------------------
(* Lifecycle transitions.                                                  *)

LEMMA ConfigureInv ==
  ASSUME IInv, Configure
  PROVE  IInv'
<1>1. CASE MoveTo("inactive") /\ tree' = "idle"
  BY <1>1, SMTT(60) DEF Configure, MoveTo
<1>2. CASE MoveTo("finalized") /\ UNCHANGED tree
  BY <1>2, SMTT(60) DEF Configure, MoveTo
<1>. QED
  BY <1>1, <1>2 DEF Configure

LEMMA ActivateInv ==
  ASSUME IInv, Activate
  PROVE  IInv'
<1>1. CASE MoveTo("active") /\ server' = TRUE
  <2>1. server' \in BOOLEAN
    BY <1>1, Zenon
  <2>. QED
    BY <1>1, <2>1, SMTT(60) DEF Activate, MoveTo
<1>2. CASE MoveTo("finalized") /\ UNCHANGED server
  BY <1>2, SMTT(60) DEF Activate, MoveTo
<1>. QED
  BY <1>1, <1>2 DEF Activate

LEMMA CleanupInv ==
  ASSUME IInv, Cleanup
  PROVE  IInv'
BY SMTT(60) DEF Cleanup, MoveTo

LEMMA ShutdownInv ==
  ASSUME IInv, Shutdown
  PROVE  IInv'
BY SMTT(60) DEF Shutdown, MoveTo

LEMMA DeactivateInv ==
  ASSUME IInv, Deactivate
  PROVE  IInv'
BY SMTT(60) DEF Deactivate

LEMMA DeactivateResetInv ==
  ASSUME IInv, DeactivateReset
  PROVE  IInv'
<1>1. server' \in BOOLEAN
  BY Zenon DEF DeactivateReset
<1>. QED
  BY <1>1, SMTT(60) DEF DeactivateReset

-----------------------------------------------------------------------------
(* stop_running_goal and join, on either thread.                           *)

LEMMA StopSetTokenInv ==
  ASSUME IInv, NEW t \in Threads, StopSetToken(t)
  PROVE  IInv'
BY SMTT(60) DEF StopSetToken

LEMMA NotJoinableInv ==
  ASSUME IInv, NEW t \in Threads, NotJoinable(t)
  PROVE  IInv'
BY SMTT(60) DEF NotJoinable, AfterJoin

LEMMA EnterJoinInv ==
  ASSUME IInv, NEW t \in Threads, EnterJoin(t)
  PROVE  IInv'
BY SMTT(60) DEF EnterJoin, Other

LEMMA JoinThrowsInv ==
  ASSUME IInv, NEW t \in Threads, JoinThrows(t)
  PROVE  IInv'
BY SMTT(60) DEF JoinThrows, Other

LEMMA JoinInv ==
  ASSUME IInv, NEW t \in Threads, Join(t)
  PROVE  IInv'
BY SMTT(60) DEF Join, AfterJoin

LEMMA StopClearTokenInv ==
  ASSUME IInv, NEW t \in Threads, StopClearToken(t)
  PROVE  IInv'
<1>1. cancelToken' \in BOOLEAN
  BY Zenon DEF StopClearToken
<1>. QED
  BY <1>1, SMTT(60) DEF StopClearToken

LEMMA StopClearRunningInv ==
  ASSUME IInv, NEW t \in Threads, StopClearRunning(t)
  PROVE  IInv'
<1>1. goalRunning' \in BOOLEAN
  BY Zenon DEF StopClearRunning
<1>. QED
  BY <1>1, SMTT(60) DEF StopClearRunning

-----------------------------------------------------------------------------
(* The end of the process.                                                 *)

LEMMA SigIntInv ==
  ASSUME IInv, SigInt
  PROVE  IInv'
BY SMTT(60) DEF SigInt

LEMMA ContextShutdownInv ==
  ASSUME IInv, ContextShutdown
  PROVE  IInv'
<1>1. ok' \in BOOLEAN
  BY Zenon DEF ContextShutdown
<1>. QED
  BY <1>1, SMTT(60) DEF ContextShutdown

LEMMA DestroyNodeInv ==
  ASSUME IInv, DestroyNode
  PROVE  IInv'
BY SMTT(60) DEF DestroyNode

-----------------------------------------------------------------------------
(* The tick thread.                                                        *)

LEMMA TickHaltInv ==
  ASSUME IInv, NEW g \in Goals, TickHalt(g)
  PROVE  IInv'
BY SMTT(60) DEF TickHalt, StopSeen

LEMMA TickContinueInv ==
  ASSUME IInv, NEW g \in Goals, TickContinue(g)
  PROVE  IInv'
BY SMTT(60) DEF TickContinue, StopSeen

LEMMA TickOnceInv ==
  ASSUME IInv, NEW g \in Goals, TickOnce(g)
  PROVE  IInv'
BY SMTT(60) DEF TickOnce

LEMMA TickBlocksInv ==
  ASSUME IInv, NEW g \in Goals, TickBlocks(g)
  PROVE  IInv'
BY SMTT(60) DEF TickBlocks, StopSeen

LEMMA TickChooseEndInv ==
  ASSUME IInv, NEW g \in Goals, TickChooseEnd(g)
  PROVE  IInv'
BY SMTT(60) DEF TickChooseEnd

LEMMA TickEndInv ==
  ASSUME IInv, NEW g \in Goals, TickEnd(g)
  PROVE  IInv'
BY SMTT(60) DEF TickEnd, Outcome

LEMMA TickExitInv ==
  ASSUME IInv, NEW g \in Goals, TickExit(g)
  PROVE  IInv'
<1>1. goalRunning' \in BOOLEAN
  BY Zenon DEF TickExit
<1>. QED
  BY <1>1, SMTT(60) DEF TickExit

-----------------------------------------------------------------------------
(* From here on IInv is opaque.                                            *)
HIDE DEF IInv

LEMMA NextInv ==
  ASSUME IInv, [Next]_vars
  PROVE  IInv'
<1>1. CASE UNCHANGED vars
  BY <1>1, SMTT(60) DEF IInv, vars
<1>2. CASE Callback
  BY <1>2, RejectGoalInv, AcceptGoalInv, CancelGoalInv, Zenon DEF Callback
<1>3. CASE Transition
  BY <1>3, ConfigureInv, ActivateInv, CleanupInv, ShutdownInv, DeactivateInv, Zenon
     DEF Transition
<1>4. ASSUME NEW t \in Threads, Stop(t)
      PROVE  IInv'
  BY <1>4, StopSetTokenInv, NotJoinableInv, EnterJoinInv, JoinThrowsInv, JoinInv,
     StopClearTokenInv, StopClearRunningInv, Zenon DEF Stop
<1>5. CASE SpinStep
  <2>1. "spin" \in Threads
    OBVIOUS
  <2>. QED
    BY <1>4, <1>5, <2>1, AcceptMarkInv, AcceptClearInv, AcceptSpawnInv,
       CancelTransitionInv, DeactivateResetInv, DestroyNodeInv, Zenon DEF SpinStep
<1>6. CASE SigStep
  <2>1. "sig" \in Threads
    OBVIOUS
  <2>. QED
    BY <1>4, <1>6, <2>1, ContextShutdownInv, Zenon DEF SigStep
<1>7. ASSUME NEW g \in Goals, Tick(g)
      PROVE  IInv'
  BY <1>7, TickHaltInv, TickContinueInv, TickOnceInv, TickBlocksInv, TickChooseEndInv,
     TickEndInv, TickExitInv, Zenon DEF Tick
<1>. QED
  BY <1>1, <1>2, <1>3, <1>5, <1>6, <1>7, SigIntInv, Zenon
     DEF Next, StillBlocked, Gone

\* IInv is inductive, hence an invariant: the basis of every theorem below.
THEOREM Invariance == Spec => []IInv

<1>1. Init => IInv
  BY InitInv
<1>2. IInv /\ [Next]_vars => IInv'
  BY NextInv
<1>. QED
  BY <1>1, <1>2, PTL DEF Spec

\* The variables keep their types: no callback or thread is ever at a call of
\* another one.
THEOREM TypeCorrect == Spec => []TypeOK
<1>1. IInv => TypeOK
  BY SMTT(60) DEF IInv, TypeOK
<1>. QED
  BY <1>1, Invariance, PTL

\* The tree has one ticker, the thread tick_thread_ names.
THEOREM Ticker == Spec => []OneJoinableTicker
<1>1. IInv => OneJoinableTicker
  BY SMTT(60) DEF IInv, OneJoinableTicker
<1>. QED
  BY <1>1, Invariance, PTL

\* Nothing of an activation survives on_deactivate.
THEOREM Quiet == Spec => []InactiveIsQuiet
<1>1. IInv => InactiveIsQuiet
  BY SMTT(60) DEF IInv, InactiveIsQuiet
<1>. QED
  BY <1>1, Invariance, PTL

\* No flag left by an earlier goal or stop halts a later goal.
THEOREM NoStaleStop == Spec => []HaltedForAReason
<1>1. IInv => HaltedForAReason
  BY SMTT(60) DEF IInv, HaltedForAReason
<1>. QED
  BY <1>1, Invariance, PTL

\* Until a shutdown signal goal_accepted never waits for a running tree.
THEOREM NoLongJoin == Spec => []AcceptJoinsDeadTicker
<1>1. IInv => AcceptJoinsDeadTicker
  BY SMTT(60) DEF IInv, AcceptJoinsDeadTicker
<1>. QED
  BY <1>1, Invariance, PTL

\* Every goal starts on an idle tree.
THEOREM IdleTree == Spec => []GoalStartsOnIdleTree
<1>1. IInv => GoalStartsOnIdleTree
  BY SMTT(60) DEF IInv, GoalStartsOnIdleTree
<1>. QED
  BY <1>1, Invariance, PTL

\* Until a shutdown signal std::terminate is out of reach.
THEOREM NoTerminate == Spec => []NoTerminateBeforeSignal
<1>1. IInv => NoTerminateBeforeSignal
  BY SMTT(60) DEF IInv, NoTerminateBeforeSignal
<1>. QED
  BY <1>1, Invariance, PTL

\* Until a shutdown signal the tick that on_deactivate waits for sees the stop.
THEOREM StopSeenByTicker == Spec => []DeactivateIsSeen
<1>1. IInv => DeactivateIsSeen
  BY SMTT(60) DEF IInv, DeactivateIsSeen, StopIsSeen, StopSeen
<1>. QED
  BY <1>1, Invariance, PTL

-----------------------------------------------------------------------------
(* The node implements the tick service: step by step, under IInv.         *)
USE DEF IInv, Phase, Held, Service!vars, Service!Next, Service!Active, Service!Terminal,
        Service!NoneActive, Service!Become, Blocked

Refines == [Service!Next]_Service!vars

LEMMA RejectGoalRefines ==
  ASSUME IInv, NEW g \in Goals, RejectGoal(g)
  PROVE  Refines
<1>1. Service!Reject(g)
  BY SMTT(30) DEF RejectGoal, Service!Reject
<1>. QED
  BY <1>1, Zenon DEF Refines

LEMMA AcceptGoalRefines ==
  ASSUME IInv, NEW g \in Goals, AcceptGoal(g)
  PROVE  Refines
<1>1. Service!NoneActive \/ Phase = "closing"
  BY SMTT(30) DEF AcceptGoal
<1>2. Service!Become(g, "executing") /\ Phase # "down" /\ server /\ goalState[g] = "unsent"
  BY SMTT(30) DEF AcceptGoal
<1>3. Service!Accept(g)
  BY <1>1, <1>2, Zenon DEF Service!Accept
<1>. QED
  BY <1>3, Zenon DEF Refines

LEMMA AcceptMarkRefines ==
  ASSUME IInv, AcceptMark
  PROVE  Refines
BY SMTT(30) DEF AcceptMark, Refines

LEMMA AcceptClearRefines ==
  ASSUME IInv, AcceptClear
  PROVE  Refines
BY SMTT(30) DEF AcceptClear, Refines

LEMMA AcceptSpawnRefines ==
  ASSUME IInv, AcceptSpawn
  PROVE  Refines
BY SMTT(30) DEF AcceptSpawn, Refines, Service!GoDown

LEMMA CancelGoalRefines ==
  ASSUME IInv, NEW g \in Goals, CancelGoal(g)
  PROVE  Refines
BY SMTT(30) DEF CancelGoal, Refines

LEMMA CancelTransitionRefines ==
  ASSUME IInv, CancelTransition
  PROVE  Refines
BY SMTT(30) DEF CancelTransition, Refines, Service!Cancel

LEMMA ConfigureRefines ==
  ASSUME IInv, Configure
  PROVE  Refines
<1>1. UNCHANGED <<goalState, server, Held, Phase>>
  <2>1. CASE MoveTo("inactive")
    BY <2>1, SMTT(30) DEF Configure, MoveTo
  <2>2. CASE MoveTo("finalized")
    BY <2>2, SMTT(30) DEF Configure, MoveTo
  <2>. QED
    BY <2>1, <2>2, Zenon DEF Configure
<1>. QED
  BY <1>1, Zenon DEF Refines

LEMMA ActivateRefines ==
  ASSUME IInv, Activate
  PROVE  Refines
<1>1. ~server /\ UNCHANGED <<goalState, Held, Phase>> /\ Phase # "down"
  <2>1. CASE MoveTo("active")
    BY <2>1, SMTT(30) DEF Activate, MoveTo
  <2>2. CASE MoveTo("finalized")
    BY <2>2, SMTT(30) DEF Activate, MoveTo
  <2>. QED
    BY <2>1, <2>2, Zenon DEF Activate
<1>2. server' = TRUE \/ server' = server
  BY Zenon DEF Activate
<1>. QED
  BY <1>1, <1>2, Zenon DEF Refines, Service!Open

LEMMA CleanupRefines ==
  ASSUME IInv, Cleanup
  PROVE  Refines
BY SMTT(30) DEF Cleanup, MoveTo, Refines

LEMMA ShutdownRefines ==
  ASSUME IInv, Shutdown
  PROVE  Refines
BY SMTT(30) DEF Shutdown, MoveTo, Refines

LEMMA DeactivateRefines ==
  ASSUME IInv, Deactivate
  PROVE  Refines
BY SMTT(30) DEF Deactivate, Refines

LEMMA DeactivateResetRefines ==
  ASSUME IInv, DeactivateReset
  PROVE  Refines
<1>1. Service!NoneActive /\ UNCHANGED <<goalState, Held, Phase>> /\ Phase # "down"
  BY SMTT(30) DEF DeactivateReset
<1>2. server' = FALSE
  BY Zenon DEF DeactivateReset
<1>3. server
  BY SMTT(30) DEF DeactivateReset
<1>. QED
  BY <1>1, <1>2, <1>3, Zenon DEF Refines, Service!Close

LEMMA StopSetTokenRefines ==
  ASSUME IInv, NEW t \in Threads, StopSetToken(t)
  PROVE  Refines
BY SMTT(30) DEF StopSetToken, Refines

LEMMA NotJoinableRefines ==
  ASSUME IInv, NEW t \in Threads, NotJoinable(t)
  PROVE  Refines
BY SMTT(30) DEF NotJoinable, AfterJoin, Refines

LEMMA EnterJoinRefines ==
  ASSUME IInv, NEW t \in Threads, EnterJoin(t)
  PROVE  Refines
BY SMTT(30) DEF EnterJoin, Other, Refines

LEMMA JoinThrowsRefines ==
  ASSUME IInv, NEW t \in Threads, JoinThrows(t)
  PROVE  Refines
BY SMTT(30) DEF JoinThrows, Other, Refines, Service!GoDown

LEMMA JoinRefines ==
  ASSUME IInv, NEW t \in Threads, Join(t)
  PROVE  Refines
BY SMTT(30) DEF Join, AfterJoin, Refines

LEMMA StopClearTokenRefines ==
  ASSUME IInv, NEW t \in Threads, StopClearToken(t)
  PROVE  Refines
BY SMTT(30) DEF StopClearToken, Refines

LEMMA StopClearRunningRefines ==
  ASSUME IInv, NEW t \in Threads, StopClearRunning(t)
  PROVE  Refines
BY SMTT(30) DEF StopClearRunning, Refines

LEMMA SigIntRefines ==
  ASSUME IInv, SigInt
  PROVE  Refines
BY SMTT(30) DEF SigInt, Refines, Service!BeginShutdown

LEMMA ContextShutdownRefines ==
  ASSUME IInv, ContextShutdown
  PROVE  Refines
BY SMTT(30) DEF ContextShutdown, Refines

LEMMA DestroyNodeRefines ==
  ASSUME IInv, DestroyNode
  PROVE  Refines
BY SMTT(30) DEF DestroyNode, Refines, Service!GoDown

LEMMA TickHaltRefines ==
  ASSUME IInv, NEW g \in Goals, TickHalt(g)
  PROVE  Refines
BY SMTT(30) DEF TickHalt, StopSeen, Refines, Service!Release

LEMMA TickContinueRefines ==
  ASSUME IInv, NEW g \in Goals, TickContinue(g)
  PROVE  Refines
BY SMTT(30) DEF TickContinue, StopSeen, Refines

LEMMA TickOnceRefines ==
  ASSUME IInv, NEW g \in Goals, TickOnce(g)
  PROVE  Refines
BY SMTT(30) DEF TickOnce, Refines, Service!GoDown, Service!Release

LEMMA TickBlocksRefines ==
  ASSUME IInv, NEW g \in Goals, TickBlocks(g)
  PROVE  Refines
BY SMTT(30) DEF TickBlocks, StopSeen, Refines, Service!Hold

LEMMA TickChooseEndRefines ==
  ASSUME IInv, NEW g \in Goals, TickChooseEnd(g)
  PROVE  Refines
BY SMTT(30) DEF TickChooseEnd, Refines

LEMMA TickEndRefines ==
  ASSUME IInv, NEW g \in Goals, TickEnd(g)
  PROVE  Refines
<1>1. Phase # "down" /\ UNCHANGED <<server, Held, Phase>> /\ g \notin Held
  BY SMTT(30) DEF TickEnd
<1>2. pc[g] \in {"canceled", "succeed", "abort"} /\ g \in DOMAIN goalState
       /\ goalState[g] \in Active /\ (pc[g] = "canceled" => goalState[g] = "canceling")
       /\ goalState' = [goalState EXCEPT ![g] = Outcome(pc[g])]
  BY SMTT(30) DEF TickEnd
<1>3. /\ Outcome("canceled") = "canceled"
      /\ Outcome("succeed") = "succeeded"
      /\ Outcome("abort") = "aborted"
  BY SMTT(30) DEF Outcome
<1>4. Outcome(pc[g]) \in Terminal /\ (pc[g] # "canceled" => Outcome(pc[g]) # "canceled")
  BY <1>2, <1>3, Zenon DEF Terminal
<1>5. Service!Become(g, Outcome(pc[g]))
  BY <1>1, <1>2, Zenon DEF Service!Become
<1>6. CASE goalState[g] = "canceling"
  BY <1>1, <1>4, <1>5, <1>6, Zenon DEF Service!EndCancelled, Refines
<1>7. CASE goalState[g] = "executing" /\ pc[g] # "canceled"
  <2>1. Outcome(pc[g]) \in Service!Terminal \ {"canceled"}
    BY <1>4, <1>7, Zenon
  <2>. QED
    BY <1>1, <1>5, <1>7, <2>1, Zenon DEF Service!EndUncancelled, Refines
<1>. QED
  BY <1>2, <1>6, <1>7, SMTT(30)

LEMMA TickExitRefines ==
  ASSUME IInv, NEW g \in Goals, TickExit(g)
  PROVE  Refines
BY SMTT(30) DEF TickExit, Refines

HIDE DEF IInv, Phase, Held, Service!Next, Refines

LEMMA NextRefines ==
  ASSUME IInv, [Next]_vars
  PROVE  Refines
<1>1. CASE UNCHANGED vars
  BY <1>1, SMTT(60) DEF vars, Phase, Held, Refines
<1>2. CASE Callback
  BY <1>2, RejectGoalRefines, AcceptGoalRefines, CancelGoalRefines, Zenon DEF Callback
<1>3. CASE Transition
  BY <1>3, ConfigureRefines, ActivateRefines, CleanupRefines, ShutdownRefines,
     DeactivateRefines, Zenon DEF Transition
<1>4. ASSUME NEW t \in Threads, Stop(t)
      PROVE  Refines
  BY <1>4, StopSetTokenRefines, NotJoinableRefines, EnterJoinRefines, JoinThrowsRefines,
     JoinRefines, StopClearTokenRefines, StopClearRunningRefines, Zenon DEF Stop
<1>5. CASE SpinStep
  <2>1. "spin" \in Threads
    OBVIOUS
  <2>. QED
    BY <1>4, <1>5, <2>1, AcceptMarkRefines, AcceptClearRefines, AcceptSpawnRefines,
       CancelTransitionRefines, DeactivateResetRefines, DestroyNodeRefines, Zenon
       DEF SpinStep
<1>6. CASE SigStep
  <2>1. "sig" \in Threads
    OBVIOUS
  <2>. QED
    BY <1>4, <1>6, <2>1, ContextShutdownRefines, Zenon DEF SigStep
<1>7. ASSUME NEW g \in Goals, Tick(g)
      PROVE  Refines
  BY <1>7, TickHaltRefines, TickContinueRefines, TickOnceRefines, TickBlocksRefines,
     TickChooseEndRefines, TickEndRefines, TickExitRefines, Zenon DEF Tick
<1>. QED
  BY <1>1, <1>2, <1>3, <1>5, <1>6, <1>7, SigIntRefines, Zenon
     DEF Next, StillBlocked, Gone

\* BTExecutor implements the safety part of the tick service, for any set of
\* goals: one goal at a time until a shutdown begins, a legal outcome for each,
\* and no server dropped under a goal that waits for its result.
THEOREM Refinement == Spec => Service!SafetySpec
<1>1. Init => Service!Init
  BY SMTT(60) DEF Init, Service!Init, Phase, Held
<1>2. IInv /\ [Next]_vars => [Service!Next]_Service!vars
  BY NextRefines DEF Refines
<1>. QED
  BY <1>1, <1>2, Invariance, PTL DEF Spec, Service!SafetySpec
=============================================================================
