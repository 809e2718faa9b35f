---------------------------- MODULE TickExecutor ----------------------------
(***************************************************************************)
(* BTExecutor, the lifecycle node that hosts the behaviour tree and serves *)
(* the "tick" action (sh_bt_core/src/bt_executor.cpp).  Three kinds of     *)
(* thread share its members:                                               *)
(*   "spin"  rclcpp::spin, one callback at a time: goal, cancel and        *)
(*           accepted callbacks and the lifecycle transitions;             *)
(*   "sig"   the thread that runs the pre-shutdown callback on SIGINT;     *)
(*   one tick thread per accepted goal, running execute_tick.              *)
(* A step is one access to shared state, so that the accesses of the       *)
(* threads interleave as they can in the code.                             *)
(***************************************************************************)
EXTENDS Naturals, FiniteSets

CONSTANTS Goals,    \* the goals clients send, each once
          NoGoal    \* a thread that is not joinable, a callback without a goal

ASSUME GoalsAssumption == NoGoal \notin Goals

VARIABLES
  lifecycle,    \* state of the lifecycle node
  server,       \* tick_action_server_ is set
  goalRunning,  \* goal_running_
  cancelToken,  \* *cancel_token_
  thread,       \* the goal tick_thread_ was started for; NoGoal: not joinable
  pc,           \* the next call of the tick thread of each goal
  goalState,    \* state of each goal handle
  tree,         \* tree_ has nodes RUNNING, or none
  at,           \* the next call of the spin and of the signal thread
  handling,     \* the goal the current goal or cancel callback is about
  ok,           \* rclcpp::ok()
  proc,         \* the process
  asked         \* history: the goals the cancel callback was called for

vars == <<lifecycle, server, goalRunning, cancelToken, thread, pc, goalState,
          tree, at, handling, ok, proc, asked>>

Lifecycle == {"unconfigured", "inactive", "active", "finalized"}

\* What the tick thread of a goal is about to do, or what it may wait in for ever.
Waiting   == {"halt_wait", "tick_wait"}
Looping   == {"check", "tick"} \cup Waiting
Ending    == {"halted", "canceled", "succeed", "abort"}
TickPc    == {"none", "clear", "exited"} \cup Looping \cup Ending

\* goal_accepted and stop_running_goal, call by call.
Accepting == {"accept", "accept_join", "mark", "clear", "spawn"}
Stopping  == {"set_token", "stop_test", "stop_join", "clear_token", "clear_running"}
Joining   == {"accept_join", "stop_join"}
SpinPc    == {"free", "cancel", "reset"} \cup Accepting \cup Stopping
SigPc     == {"free", "shutdown", "over"} \cup Stopping

Active    == {"executing", "canceling"}
Terminal  == {"succeeded", "aborted", "canceled"}
GoalState == {"unsent", "rejected"} \cup Active \cup Terminal

Threads == {"spin", "sig"}
Other(t) == IF t = "spin" THEN "sig" ELSE "spin"

Init ==
  /\ lifecycle = "unconfigured"
  /\ server = FALSE
  /\ goalRunning = FALSE
  /\ cancelToken = FALSE
  /\ thread = NoGoal
  /\ pc = [g \in Goals |-> "none"]
  /\ goalState = [g \in Goals |-> "unsent"]
  /\ tree = "idle"
  /\ at = [t \in Threads |-> "free"]
  /\ handling = NoGoal
  /\ ok = TRUE
  /\ proc = "up"
  /\ asked = {}

Goto(t, p) == at' = [at EXCEPT ![t] = p]
SetGoal(g, s) == goalState' = [goalState EXCEPT ![g] = s]
GotoTick(g, p) == pc' = [pc EXCEPT ![g] = p]

\* A callback starts on the spin thread only between two others.
SpinIdle == proc = "up" /\ ok /\ at["spin"] = "free"

-----------------------------------------------------------------------------
(* The action server's callbacks, on the spin thread.                      *)

\* goal_request: a goal that finds goal_running_ set is rejected.
RejectGoal(g) ==
  /\ SpinIdle /\ server /\ goalState[g] = "unsent"
  /\ goalRunning
  /\ SetGoal(g, "rejected")
  /\ UNCHANGED <<lifecycle, server, goalRunning, cancelToken, thread, pc,
                 tree, at, handling, ok, proc, asked>>

\* Mutant: goal_request accepts without looking at goal_running_.
AcceptGoal_Busy(g) ==
  /\ SpinIdle /\ server /\ goalState[g] = "unsent"
  /\ SetGoal(g, "executing")
  /\ handling' = g
  /\ Goto("spin", "accept")
  /\ UNCHANGED <<lifecycle, server, goalRunning, cancelToken, thread, pc,
                 tree, ok, proc, asked>>

\* Mutant: goal_accepted does not join the last tick thread.
AcceptGoal_NoJoin(g) ==
  /\ SpinIdle /\ server /\ goalState[g] = "unsent"
  /\ ~goalRunning
  /\ SetGoal(g, "executing")
  /\ handling' = g
  /\ Goto("spin", "mark")
  /\ UNCHANGED <<lifecycle, server, goalRunning, cancelToken, thread, pc,
                 tree, ok, proc, asked>>

\* goal_request accepts: the handle is EXECUTING before goal_accepted runs.
AcceptGoal(g) ==
  /\ SpinIdle /\ server /\ goalState[g] = "unsent"
  /\ ~goalRunning
  /\ SetGoal(g, "executing")
  /\ handling' = g
  /\ Goto("spin", "accept")
  /\ UNCHANGED <<lifecycle, server, goalRunning, cancelToken, thread, pc,
                 tree, ok, proc, asked>>

AcceptMark ==
  /\ proc = "up" /\ at["spin"] = "mark"
  /\ goalRunning' = TRUE
  /\ Goto("spin", "clear")
  /\ UNCHANGED <<lifecycle, server, cancelToken, thread, pc, goalState,
                 tree, handling, ok, proc, asked>>

\* Mutant: goal_accepted leaves the token as it is.
AcceptClear_Keep ==
  /\ proc = "up" /\ at["spin"] = "clear"
  /\ Goto("spin", "spawn")
  /\ UNCHANGED <<lifecycle, server, goalRunning, cancelToken, thread, pc,
                 goalState, tree, handling, ok, proc, asked>>

AcceptClear ==
  /\ proc = "up" /\ at["spin"] = "clear"
  /\ cancelToken' = FALSE
  /\ Goto("spin", "spawn")
  /\ UNCHANGED <<lifecycle, server, goalRunning, thread, pc, goalState,
                 tree, handling, ok, proc, asked>>

\* Assigning to a joinable std::thread calls std::terminate.
AcceptSpawn ==
  /\ proc = "up" /\ at["spin"] = "spawn"
  /\ IF thread # NoGoal
       THEN proc' = "terminated" /\ UNCHANGED <<thread, pc>>
       ELSE thread' = handling /\ GotoTick(handling, "check") /\ UNCHANGED proc
  /\ handling' = NoGoal
  /\ Goto("spin", "free")
  /\ UNCHANGED <<lifecycle, server, goalRunning, cancelToken, goalState, tree,
                 ok, asked>>

\* The server calls goal_cancel for a goal that can still be cancelled ...
CancelGoal(g) ==
  /\ SpinIdle /\ server /\ goalState[g] = "executing"
  /\ cancelToken' = TRUE
  /\ asked' = asked \cup {g}
  /\ handling' = g
  /\ Goto("spin", "cancel")
  /\ UNCHANGED <<lifecycle, server, goalRunning, thread, pc, goalState, tree,
                 ok, proc>>

\* ... and moves it to CANCELING afterwards, unless it has ended meanwhile.
CancelTransition ==
  /\ proc = "up" /\ at["spin"] = "cancel"
  /\ IF goalState[handling] = "executing"
       THEN SetGoal(handling, "canceling") ELSE UNCHANGED goalState
  /\ handling' = NoGoal
  /\ Goto("spin", "free")
  /\ UNCHANGED <<lifecycle, server, goalRunning, cancelToken, thread, pc, tree,
                 ok, proc, asked>>

-----------------------------------------------------------------------------
(* Lifecycle transitions, on the spin thread.  An exception thrown by a    *)
(* transition is caught by rclcpp_lifecycle and finalizes the node.        *)

MoveTo(l) ==
  /\ lifecycle' = l
  /\ UNCHANGED <<goalRunning, cancelToken, thread, pc, goalState, at, handling,
                 ok, proc, asked>>

Configure ==
  /\ SpinIdle /\ lifecycle = "unconfigured"
  /\ \/ MoveTo("inactive") /\ tree' = "idle"
     \/ MoveTo("finalized") /\ UNCHANGED tree
  /\ UNCHANGED server

Activate ==
  /\ SpinIdle /\ lifecycle = "inactive"
  /\ \/ MoveTo("active") /\ server' = TRUE
     \/ MoveTo("finalized") /\ UNCHANGED server
  /\ UNCHANGED tree

Cleanup ==
  /\ SpinIdle /\ lifecycle = "inactive"
  /\ MoveTo("unconfigured")
  /\ UNCHANGED <<server, tree>>

\* on_shutdown neither stops the tick nor closes the server.
Shutdown ==
  /\ SpinIdle /\ lifecycle \in {"unconfigured", "inactive", "active"}
  /\ MoveTo("finalized")
  /\ UNCHANGED <<server, tree>>

\* Mutant: on_deactivate does not stop the running goal.
Deactivate_NoStop ==
  /\ SpinIdle /\ lifecycle = "active"
  /\ Goto("spin", "reset")
  /\ UNCHANGED <<lifecycle, server, goalRunning, cancelToken, thread, pc,
                 goalState, tree, handling, ok, proc, asked>>

\* on_deactivate starts with stop_running_goal ...
Deactivate ==
  /\ SpinIdle /\ lifecycle = "active"
  /\ Goto("spin", "set_token")
  /\ UNCHANGED <<lifecycle, server, goalRunning, cancelToken, thread, pc,
                 goalState, tree, handling, ok, proc, asked>>

\* ... and ends by dropping the server.
DeactivateReset ==
  /\ proc = "up" /\ at["spin"] = "reset"
  /\ server' = FALSE
  /\ lifecycle' = "inactive"
  /\ Goto("spin", "free")
  /\ UNCHANGED <<goalRunning, cancelToken, thread, pc, goalState, tree,
                 handling, ok, proc, asked>>

-----------------------------------------------------------------------------
(* stop_running_goal, on either thread, and std::thread::join.             *)

\* Mutant: the token is not set before the join.
StopSetToken_Forgotten(t) ==
  /\ proc = "up" /\ at[t] = "set_token"
  /\ Goto(t, "stop_test")
  /\ UNCHANGED <<lifecycle, server, goalRunning, cancelToken, thread, pc,
                 goalState, tree, handling, ok, proc, asked>>

StopSetToken(t) ==
  /\ proc = "up" /\ at[t] = "set_token"
  /\ cancelToken' = TRUE
  /\ Goto(t, "stop_test")
  /\ UNCHANGED <<lifecycle, server, goalRunning, thread, pc, goalState, tree,
                 handling, ok, proc, asked>>

AfterJoin(p) == IF p = "accept" \/ p = "accept_join" THEN "mark" ELSE "clear_token"

NotJoinable(t) ==
  /\ proc = "up" /\ at[t] \in {"accept", "stop_test"}
  /\ thread = NoGoal
  /\ Goto(t, AfterJoin(at[t]))
  /\ UNCHANGED <<lifecycle, server, goalRunning, cancelToken, thread, pc,
                 goalState, tree, handling, ok, proc, asked>>

EnterJoin(t) ==
  /\ proc = "up" /\ at[t] \in {"accept", "stop_test"}
  /\ thread # NoGoal
  /\ at[Other(t)] \notin Joining
  /\ Goto(t, IF at[t] = "accept" THEN "accept_join" ELSE "stop_join")
  /\ UNCHANGED <<lifecycle, server, goalRunning, cancelToken, thread, pc,
                 goalState, tree, handling, ok, proc, asked>>

\* Two threads joining one: the second pthread_join fails and join() throws.
\* rclcpp_lifecycle catches that in on_deactivate; elsewhere nothing does.
JoinThrows(t) ==
  /\ proc = "up" /\ at[t] \in {"accept", "stop_test"}
  /\ thread # NoGoal
  /\ at[Other(t)] \in Joining
  /\ IF t = "spin" /\ at[t] = "stop_test"
       THEN /\ lifecycle' = "finalized"
            /\ Goto(t, "free")
            /\ UNCHANGED proc
       ELSE /\ proc' = "terminated"
            /\ UNCHANGED <<lifecycle, at>>
  /\ UNCHANGED <<server, goalRunning, cancelToken, thread, pc, goalState, tree,
                 handling, ok, asked>>

\* Mutant: the thread is let go (detached) instead of joined.
Join_Detach(t) ==
  /\ proc = "up" /\ at[t] \in Joining
  /\ thread' = NoGoal
  /\ Goto(t, AfterJoin(at[t]))
  /\ UNCHANGED <<lifecycle, server, goalRunning, cancelToken, pc, goalState,
                 tree, handling, ok, proc, asked>>

Join(t) ==
  /\ proc = "up" /\ at[t] \in Joining
  /\ pc[thread] = "exited"
  /\ thread' = NoGoal
  /\ Goto(t, AfterJoin(at[t]))
  /\ UNCHANGED <<lifecycle, server, goalRunning, cancelToken, pc, goalState,
                 tree, handling, ok, proc, asked>>

StopClearToken(t) ==
  /\ proc = "up" /\ at[t] = "clear_token"
  /\ cancelToken' = FALSE
  /\ Goto(t, "clear_running")
  /\ UNCHANGED <<lifecycle, server, goalRunning, thread, pc, goalState, tree,
                 handling, ok, proc, asked>>

\* Mutant: stop_running_goal returns to the shutdown callback on both threads.
StopClearRunning_Shutdown(t) ==
  /\ proc = "up" /\ at[t] = "clear_running"
  /\ goalRunning' = FALSE
  /\ Goto(t, "shutdown")
  /\ UNCHANGED <<lifecycle, server, cancelToken, thread, pc, goalState, tree,
                 handling, ok, proc, asked>>

StopClearRunning(t) ==
  /\ proc = "up" /\ at[t] = "clear_running"
  /\ goalRunning' = FALSE
  /\ Goto(t, IF t = "spin" THEN "reset" ELSE "shutdown")
  /\ UNCHANGED <<lifecycle, server, cancelToken, thread, pc, goalState, tree,
                 handling, ok, proc, asked>>

-----------------------------------------------------------------------------
(* The end of the process: SIGINT runs the pre-shutdown callback, only     *)
(* then does ok() become false, rclcpp::spin return and main destroy the   *)
(* node.                                                                   *)

SigInt ==
  /\ proc = "up" /\ at["sig"] = "free"
  /\ Goto("sig", "set_token")
  /\ UNCHANGED <<lifecycle, server, goalRunning, cancelToken, thread, pc,
                 goalState, tree, handling, ok, proc, asked>>

ContextShutdown ==
  /\ proc = "up" /\ at["sig"] = "shutdown"
  /\ ok' = FALSE
  /\ Goto("sig", "over")
  /\ UNCHANGED <<lifecycle, server, goalRunning, cancelToken, thread, pc,
                 goalState, tree, handling, proc, asked>>

\* ~BTExecutor does not join: destroying a joinable thread terminates.
DestroyNode ==
  /\ proc = "up" /\ ~ok /\ at["spin"] = "free"
  /\ proc' = IF thread = NoGoal THEN "exited" ELSE "terminated"
  /\ UNCHANGED <<lifecycle, server, goalRunning, cancelToken, thread, pc,
                 goalState, tree, at, handling, ok, asked>>

-----------------------------------------------------------------------------
(* The tick thread of goal g: execute_tick, then goal_running_ = false.    *)

\* Mutant: the loop does not look at the token.
StopSeen_NoToken(g) == goalState[g] = "canceling" \/ ~ok

StopSeen(g) == goalState[g] = "canceling" \/ cancelToken \/ ~ok

\* cancel_active_goal, reached from haltTree or from a tick, waits for the answer
\* to its cancel without a timeout once the rest of its deadline is negative. When
\* the action server has died, only the end of the context ends that wait.
TickBlocks(g) ==
  /\ proc = "up" /\ ok
  /\ \/ /\ pc[g] = "check" /\ StopSeen(g) /\ tree = "running"
        /\ GotoTick(g, "halt_wait")
     \/ /\ pc[g] = "tick"
        /\ GotoTick(g, "tick_wait")
  /\ UNCHANGED <<lifecycle, server, goalRunning, cancelToken, thread, goalState,
                 tree, at, handling, ok, proc, asked>>

StillBlocked(g) == proc = "up" /\ ok /\ pc[g] \in Waiting /\ UNCHANGED vars

\* Mutant: the loop is left without halting the tree.
TickHalt_NoHalt(g) ==
  /\ proc = "up"
  /\ \/ pc[g] = "check" /\ StopSeen(g)
     \/ pc[g] = "halt_wait" /\ ~ok
  /\ GotoTick(g, "halted")
  /\ UNCHANGED <<lifecycle, server, goalRunning, cancelToken, thread, goalState,
                 tree, at, handling, ok, proc, asked>>

\* Stopped: haltTree halts every running node of the tree.
TickHalt(g) ==
  /\ proc = "up"
  /\ \/ pc[g] = "check" /\ StopSeen(g)
     \/ pc[g] = "halt_wait" /\ ~ok
  /\ tree' = "idle"
  /\ GotoTick(g, "halted")
  /\ UNCHANGED <<lifecycle, server, goalRunning, cancelToken, thread, goalState,
                 at, handling, ok, proc, asked>>

TickContinue(g) ==
  /\ proc = "up" /\ pc[g] = "check"
  /\ ~StopSeen(g)
  /\ GotoTick(g, "tick")
  /\ UNCHANGED <<lifecycle, server, goalRunning, cancelToken, thread, goalState,
                 tree, at, handling, ok, proc, asked>>

\* tickOnce: the root stays RUNNING, succeeds, fails, or a node throws, which
\* nothing on this thread catches.
TickOnce(g) ==
  /\ proc = "up"
  /\ pc[g] = "tick" \/ (pc[g] = "tick_wait" /\ ~ok)
  /\ \/ tree' = "running" /\ GotoTick(g, "check") /\ UNCHANGED proc
     \/ tree' = "idle" /\ GotoTick(g, "succeed") /\ UNCHANGED proc
     \/ tree' = "idle" /\ GotoTick(g, "abort") /\ UNCHANGED proc
     \/ proc' = "uncaught" /\ UNCHANGED <<tree, pc>>
  /\ UNCHANGED <<lifecycle, server, goalRunning, cancelToken, thread, goalState,
                 at, handling, ok, asked>>

\* Mutant: a stopped goal always ends CANCELED.
TickChooseEnd_Canceled(g) ==
  /\ proc = "up" /\ pc[g] = "halted"
  /\ GotoTick(g, "canceled")
  /\ UNCHANGED <<lifecycle, server, goalRunning, cancelToken, thread, goalState,
                 tree, at, handling, ok, proc, asked>>

TickChooseEnd(g) ==
  /\ proc = "up" /\ pc[g] = "halted"
  /\ GotoTick(g, IF goalState[g] = "canceling" THEN "canceled" ELSE "abort")
  /\ UNCHANGED <<lifecycle, server, goalRunning, cancelToken, thread, goalState,
                 tree, at, handling, ok, proc, asked>>

Outcome(p) == CASE p = "canceled" -> "canceled"
                [] p = "succeed"  -> "succeeded"
                [] p = "abort"    -> "aborted"

TickEnd(g) ==
  /\ proc = "up" /\ pc[g] \in {"canceled", "succeed", "abort"}
  /\ SetGoal(g, Outcome(pc[g]))
  /\ GotoTick(g, "clear")
  /\ UNCHANGED <<lifecycle, server, goalRunning, cancelToken, thread, tree,
                 at, handling, ok, proc, asked>>

TickExit(g) ==
  /\ proc = "up" /\ pc[g] = "clear"
  /\ goalRunning' = FALSE
  /\ GotoTick(g, "exited")
  /\ UNCHANGED <<lifecycle, server, cancelToken, thread, goalState, tree,
                 at, handling, ok, proc, asked>>

-----------------------------------------------------------------------------
\* The process is gone.
Gone == proc # "up" /\ UNCHANGED vars

Callback == \E g \in Goals : RejectGoal(g) \/ AcceptGoal(g) \/ CancelGoal(g)

Transition == Configure \/ Activate \/ Cleanup \/ Shutdown \/ Deactivate

Stop(t) == \/ StopSetToken(t) \/ NotJoinable(t) \/ EnterJoin(t) \/ JoinThrows(t)
           \/ Join(t) \/ StopClearToken(t) \/ StopClearRunning(t)

SpinStep == \/ AcceptMark \/ AcceptClear \/ AcceptSpawn \/ CancelTransition
            \/ DeactivateReset \/ DestroyNode \/ Stop("spin")

SigStep == ContextShutdown \/ Stop("sig")

Tick(g) == \/ TickHalt(g) \/ TickContinue(g) \/ TickOnce(g) \/ TickBlocks(g)
           \/ TickChooseEnd(g) \/ TickEnd(g) \/ TickExit(g)

Next == \/ Callback \/ Transition \/ SigInt \/ SpinStep \/ SigStep
        \/ \E g \in Goals : Tick(g) \/ StillBlocked(g)
        \/ Gone

\* Started threads run, and a tick or a halt of the tree returns or comes to wait
\* for a dead action server (TickBlocks), which then owes nothing; nor do clients,
\* operators and signals.
Fairness == /\ WF_vars(SpinStep)
            /\ WF_vars(SigStep)
            /\ \A g \in Goals : WF_vars(Tick(g))

Spec == Init /\ [][Next]_vars /\ Fairness

-----------------------------------------------------------------------------
TypeOK ==
  /\ lifecycle \in Lifecycle
  /\ server \in BOOLEAN
  /\ goalRunning \in BOOLEAN
  /\ cancelToken \in BOOLEAN
  /\ thread \in Goals \cup {NoGoal}
  /\ pc \in [Goals -> TickPc]
  /\ goalState \in [Goals -> GoalState]
  /\ tree \in {"idle", "running"}
  /\ at \in [Threads -> SpinPc \cup SigPc]
  /\ at["spin"] \in SpinPc /\ at["sig"] \in SigPc
  /\ handling \in Goals \cup {NoGoal}
  /\ ok \in BOOLEAN
  /\ proc \in {"up", "exited", "terminated", "uncaught"}
  /\ asked \subseteq Goals

\* The tick thread of g has started and has not returned.
Alive(g) == pc[g] \notin {"none", "exited"}

\* The one tree has one ticker, and it is the thread tick_thread_ names: no
\* order of accept, deactivate, cancel and SIGINT starts a second execute_tick
\* on tree_, or lets one run that nobody can join any more.
OneJoinableTicker == \A g \in Goals : Alive(g) => thread = g

\* After on_deactivate (and so when on_configure replaces tree_) nothing of
\* the last activation is left: no tick thread, no goal without a result, no
\* RUNNING node, no server that could accept another goal.
InactiveIsQuiet ==
  lifecycle \in {"unconfigured", "inactive"} =>
    /\ ~server
    /\ thread = NoGoal
    /\ tree = "idle"
    /\ \A g \in Goals : ~Alive(g) /\ goalState[g] \notin Active

\* A goal is halted only for a reason of its own: its cancel, a stop that is
\* going on, or shutdown. A token left set by an earlier goal's cancel, or by
\* an earlier deactivation, never stops a later goal.
HaltedForAReason ==
  \A g \in Goals : pc[g] = "halted" =>
    g \in asked \/ at["spin"] \in Stopping \/ at["sig"] # "free"

\* goal_accepted waits in join() only for a thread that has nothing left to do
\* but return, so the spin thread keeps serving cancels; until a shutdown
\* signal, whose stop_running_goal clears goal_running_ under a live tick.
AcceptJoinsDeadTicker ==
  at["spin"] = "accept_join" /\ at["sig"] = "free" => pc[thread] = "exited"

\* Between goals the tree is idle: a goal never starts in the middle of the
\* run of another one.
GoalStartsOnIdleTree ==
  (\A g \in Goals : pc[g] \notin Looping) => tree = "idle"

\* std::terminate is never reached before a shutdown signal: no thread
\* assignment over a joinable thread, no second join.
NoTerminateBeforeSignal == proc = "terminated" => at["sig"] # "free"

\* stop_running_goal "Request[s] the running tick to stop, then wait[s] for it
\* to finish": while it waits, the tick thread can still see the request.
StopIsSeen ==
  \A t \in Threads : at[t] = "stop_join" /\ pc[thread] \in Looping => StopSeen(thread)

\* The same while no shutdown signal has arrived: on_deactivate alone never
\* waits for a tick that was not told to stop.
DeactivateIsSeen == at["sig"] = "free" => StopIsSeen

\* "Shutting down; stopping the tree.": once the pre-shutdown callback has
\* returned and the context is shut down, no tick thread is left.
ShutdownStopsTree == at["sig"] = "over" => \A g \in Goals : ~Alive(g)

\* The tick thread of g waits for an action server that has died.
Blocked(g) == pc[g] \in Waiting

\* on_deactivate returns, whatever goals, cancels and signals come with it: its join
\* waits for ever only for a tick that itself waits for a dead action server.
DeactivateReturns ==
  at["spin"] \in Stopping
    ~> at["spin"] = "free" \/ proc # "up" \/ \E g \in Goals : Blocked(g)

-----------------------------------------------------------------------------
Phase == IF proc # "up" THEN "down" ELSE IF at["sig"] = "free" THEN "up" ELSE "closing"
Held  == {g \in Goals : Blocked(g)}

Service == INSTANCE TickService
             WITH goals <- goalState, serving <- server, held <- Held, phase <- Phase

\* BTExecutor keeps the promise of the tick service: one goal at a time until a
\* shutdown begins, one outcome for each, a cancelled goal ends unless its tree
\* waits for a dead action server, and the server is dropped only when no goal is
\* waiting for its result.
ImplementsTickService == Service!Spec
=============================================================================
