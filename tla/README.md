# SmartHarvest: a verification project

SmartHarvest is a set of ROS 2 (C++) packages that lets a mobile robot with an
arm detect fruit, plan grasps and pick it under a behaviour tree. This directory
holds TLA+ models of its control logic, TLC configurations that check them on
small instances, and TLAPS proofs that hold for every instance.

The code is read as the reference; file names below are those of the packages.

## 1. The system

```
 client --tick goal--> BTExecutor --tickOnce--> tree nodes --goals--> MoveGroupServer --> MoveIt
                       (sh_bt_core)  |          (plugins)  --calls--> PlanningSceneHandler -> MoveIt scene
                                     |                     --calls--> PerceptionServer -> pipeline -> YOLO
                                     +-- blackboard        --topics-> camera, odometry
```

| Component (package) | State it keeps | Operations | Correct when | Status |
|---|---|---|---|---|
| `BTExecutor` (sh_bt_core) | lifecycle, the `tick` server, `goal_running_`, `cancel_token_`, `tick_thread_`, the tree | lifecycle transitions; goal, cancel, accepted callbacks; `execute_tick` on a thread per goal; pre-shutdown callback | one ticker on the one tree, one outcome per goal, cancel and stop reach it, nothing left after deactivation | modelled: `TickExecutor` |
| `BTActionNode` (sh_base_template) | `goal_running_`, `goal_result_received_`, `goal_handle_`, `result_`, deadlines | `tick`, `halt`, `cancel_active_goal`, three client callbacks | an activation ends, and ends with the result of its own goal; one live goal at a time | modelled: `ActionClient` |
| Detection stage tree and plugins (sh_behavior_tree) | blackboard, `try_count_` of the retry decorator | one tick per node | every detected object judged once, the count of collected ones true, the stage ends | modelled: `PickStage` (MeasureTime and geometry left out) |
| `BTServiceNode` (sh_base_template) | pending call and its timeout | send, wait, time out | a late answer is not taken for a new one | within `PickStage` |
| `PlanningSceneHandler` | MoveIt's planning scene | clear, update, remove | the scene is what was detected and not yet picked | within `PickStage` |
| `MoveGroupServer` | lifecycle, members shared by all goals, two MoveGroup interfaces | lifecycle; request, cancel, accept of two actions; a detached thread per goal; pre-shutdown stop | a goal moves its own group to its own target; a cancelled one ends; success means moved | modelled: `MoveGroup` (attach/detach, constraints, IK left out) |
| `BTSubscriptionNode`, `BTSyncSubscriptionNode` (sh_base_template) | last message(s), deadline, the subscription's queue | `tick`, `halt`, callbacks | an activation is decided by messages and timeouts of its own; no images twice | modelled: `RotateRobot`, `Perception`, each base with the node built on it |
| `RotateRobot` and the other navigation nodes (sh_behavior_tree) | timeout count, goal yaw, integral | `on_tick`, `on_timeout` | it succeeds at its own goal, turns towards it, fails after three consecutive timeouts | `RotateRobot` modelled; the others are geometry or plain `BTActionNode`s |
| `MoveItConfigLoader` (sh_move_group_server) | deadline, batches to come, imported parameters | `load`, `fetch` | success means every parameter with a value is there, unless declared before with another type; it ends at its deadline | modelled: `ConfigLoader` |
| `PerceptionServer`, `RgbdPerceptionPipeline`, detector, localiser, grasp generators, `yolo_server.py` | plugin pointers, publisher, service, YOLO's client | lifecycle, `process`, `detect`, `localise`, `generate_grasp` | the scene returned is that of the images sent; no plugin is used outside its life; nobody waits for ever | modelled: `Perception` (image arithmetic left out) |
| constraints plugin, sh_utils, interfaces, bring-up | none of interest | geometry, parameters, launch | | not modelled |

What is hard here: two or three threads share unguarded members (`BTExecutor`,
`MoveGroupServer`); answers carry no identity on the client side
(`BTActionNode`); a given-up request is still served (`BTServiceNode`, YOLO's detector); messages
wait in queues of depth one while nobody spins (subscriber bases); counters
in three places must agree (the tree); lifecycle transitions happen under running
goals; Ctrl-C arrives at any moment. `PROJECT.json` lists these hazards at their
lines with the properties that watch them.

## 2. Modules

| Module | What it is |
|---|---|
| `TickService` | abstract: one goal at a time, one outcome each; a cancelled goal ends unless a dead action server holds it |
| `TickExecutor` | `BTExecutor`, one step per access to shared state; implements `TickService` |
| `TickExecutorProofs` | its inductive invariant, its safety theorems, the refinement |
| `ActionClientProofs`, `PickStageProofs`, `MoveGroupProofs`, `RotateRobotProofs`, `PerceptionProofs`, `ConfigLoaderProofs` | the same for each model below, and that `PickStage` implements `PickService` |
| `ActionClient` | `BTActionNode` against an action server that answers in any order, late or never |
| `PickService` | abstract: each detected object is tried once, success when none is left |
| `PickStage` | the whole of `MainTree`, its service nodes and the scene behind them; implements `PickService` when calls are answered in time |
| `MoveGroup` | `MoveGroupServer`: callbacks, goal threads, MoveIt's motions |
| `RotateRobot` | `BTSubscriptionNode` with `RotateRobot`, the odometry and the base it turns |
| `Perception` | `BTSyncSubscriptionNode` with `GetCameraDataAction`, `PredictService`, `PerceptionServer`, its pipeline and plugins, and YOLO's process, composed |
| `ConfigLoader` | `MoveItConfigLoader::load` against a source that starts, stops and changes |
| `MC*` | constants for TLC |

Every module names the members of the class as its variables, and an action is
named for the function or the step of it that it stands for; `PROJECT.json` "map"
gives the lines. Definitions called `X_Something` directly before `X` and marked
"Mutant" are deliberately wrong variants of `X`, used to see that the property
they break is not vacuous; no specification uses them.

### TickExecutor

Threads: the spin thread (all callbacks and lifecycle transitions, one at a time),
the signal thread (pre-shutdown callback), one tick thread per goal. `at` and `pc`
are their program counters; each label is the next access to shared state, so
joins, flag writes and the server's own state changes interleave as in the code.
A join on a thread another thread is joining, and an assignment over a joinable
`std::thread`, terminate the process, as they do in C++. `haltTree` and `tickOnce` run on
the tick thread only and are one step each, or two: what happens inside is `ActionClient`'s
matter, but either may reach `BTActionNode::cancel_active_goal` and come to wait there for
an action server that has died (`TickBlocks`). Only the end of the context ends that wait,
since `spin_until_future_complete` then returns; until then the goal is *held*, which
`TickService` has a variable for.
An exception out of `tickOnce` ends the process (`"uncaught"`).

### ActionClient

The node's callbacks run only while its own executor is spun, so a message is
delivered only at those program points, whatever was sent before. The members carry
no goal identity; the model adds it (which goal a handle or result is about) only
to state properties. Each deadline is a flag that time may raise at any moment. The
server may refuse, finish, cancel, be late, or die; another client (`Foreign`) has
a goal on the same server. Loop conditions that read three members on one thread are
read in one step: nothing else writes them meanwhile.

### PickStage

`pc` is the tree node to be ticked. Sequence, ForceSuccess and RetryUntilSuccessful
are what happens to `pc` when a node fails. The blackboard entries that decide the
course are variables; poses are not. A service node that gives up leaves its request
with the server, where it can still be served, even during the next goal. MoveIt
applies a removal published on a topic later than a call. `timely` and
`actionTimeout` are chosen initially and then fixed: whether services and MoveIt keep
their time, and whether action nodes have a response timeout (as shipped, 0.0: they
have none).

### MoveGroup

One spin thread for callbacks and transitions, one detached thread per goal, MoveIt
in another process (`motion`). What a goal asks for reaches its thread only through
the members `named`, `object`, `cartesian` and `selected`, which every request
overwrites, a refused one too. A target is named by the goal that asked for it, so
"wrong target" is "another goal's target". `goal_cancel` and the server's change to
CANCELING are two steps, because the server makes the change after the callback
returned. Locals of a thread are forgotten when it ends.

A goal request is one of two actions, one per action server (`RequestNamedTarget`,
`RequestObject`), with the group selection and the answer they share.

### RotateRobot

`tick()` of the base is three actions for its three ways to return: `TickTimeout`,
`TickWaits`, `TickMessage`; `Spun` is what its `spin_some()` leaves in `last_msg_`.
The first tick of an activation is `Activate` and one of these, because time may
pass and odometry arrive between setting the deadline and spinning. `OnTick` and
`OnTimeout` are the functions of the derived class, called where the base calls
them. The robot lives on a circle of `2 * Half` steps and `Wrap` is the wrapping of
`yaw_delta`; the velocity is its sign, which saturation does not change.

### Perception

Three threads: the tree's, the perception server's spin thread (busy from `Process`
to the answer of the request: nothing else of it runs meanwhile), and YOLO's process.
Images are a *frame*, named by its number; everything computed from a frame carries
that number, so "the wrong images" is a wrong number. `Configured` and
`CleanupPipeline` are the pipeline's `configure` and `cleanup`; a null plugin that is
called ends the process (`"crashed"`). What YOLO sees in a frame is a sequence of
detections, each the set of sample offsets that have depth, because the localiser
decides by samples; a position is the number of the detection it was computed from.

### ConfigLoader

`load()` waits for the node, for its services, for the list of names and for each
batch, all against one deadline. The recursion of `fetch` on half batches is a stack
of calls still to make (`todo`); its depth is what the recursion's is. `Selected` is the
loop that keeps the matching names, written as a recursive function. Every value has a type
(`TypeOf`). The node the parameters are copied to lives as long as the motion server and
is statically typed, so `set_parameter` refuses a value of another type than the one an earlier
load declared, and nobody looks at its result (`Settable`). What MoveIt itself declares on
that node later is not modelled.

## 3. What the runs show

All bounds are constants in the `.cfg` files or guards marked "bound" in the modules.

| Run | States | Shows |
|---|---|---|
| `tick_executor` | 45 630 | all properties of `TickExecutor` below, and `ImplementsTickService`; `on_deactivate` returns and cancelled goals end unless a tick waits for a dead action server |
| `tick_shutdown` | violation | `ShutdownStopsTree`: see findings |
| `action_client` | 187 708 | one live goal and own results as long as no cancel deadline was missed; activations and cancels end with a live server (with a response timeout set) |
| `action_stale_result`, `action_rejected` | violation | `SuccessIsOwn`; `ActivationEnds` without a response timeout |
| `pick_stage` | 278 791 | counters agree, success means every object judged, the stage ends, `ImplementsPickService` |
| `pick_collected` | violation | `CollectedWasPicked` |
| `move_group` | 480 081 | goals that no other request overlaps with move their own group to their own target; a cancel lets at most one more motion start and always ends the goal; success means every motion was completed |
| `move_group_deactivate` | violation | `InactiveIsStill` |
| `rotate_robot` | 566 944 | an activation that follows an undisturbed one succeeds at its own goal or fails after three timeouts of its own, and uses at most one older message; until it has passed its goal the robot turns towards it; silence ends the node |
| `perception` | 157 800 | a service that exists has its plugins, in every order of transitions, failures and requests; the scene the tree gets was seen in the images it sent and located objects are where their own detection is; no images twice or out of order; every wait ends |
| `config_loader` | 415 294 | when a load returns true, every matching parameter with a value that did not change meanwhile is on the target, or stands there with another type since an earlier load; every load ends |

`action_client` and the two runs beside it use CHECK_DEADLOCK FALSE: a node whose
activations are used up, or whose server is dead, really stops. So does
`config_loader`, where the number of loads is bounded.

Why the bounds are enough. *Two goals* (or activations): every hazard named for
these components is a flag, token, handle, thread or message that one goal leaves to
the next, or two goals that overlap; no member counts goals. A third goal meets the
same members in the same values. *Two objects, two executions of the tree, two
timeouts*: one object is the boundary case of each counter, two the ordinary one; the
second execution finds the blackboard and the scene of the first; two timeouts let a
request of the first execution be served in the second. In `MoveGroup` the first goal
is a cartesian pick, the longest path through the server, the second is anything else
the tree asks for, refused or accepted, before, during or after the first (a second
pick overlapping a pick has the steps of the first and was left out for time). Three things are bounded there beside the goals:
reconfiguring waits for running goals (it replaces the interface objects), cleanup
and shutdown are taken between goals (they touch nothing a thread uses), and no
callback runs in the 200 ms between the stop and the end of a closing process.

*RotateRobot*: nothing counts activations, messages or halts; the only bound beside
the circle is `MaxIntegral`, the sum at which a run is not followed further. Four
steps of a quarter turn are the smallest circle on which an angle has to be wrapped
and a goal can be passed; the integral weighs as much as an error after one message
(`Rate`), where the code takes thirty, so it reaches its worst effect within the bound.
*Three frames*: one being processed, one waiting, one more to replace it; a request
given up, its late answer and the next request are then all there at once. The first
frame has a detection without depth before and after one with depth, the second
nothing, the third depth only next to the samples and exactly on one of them, with two
sample points. Lifecycle transitions are not bounded. *Two loads* of four matching
names in batches of three: a full batch, a rest, halves of one and of two, and what a
failed load leaves to the next; one change or one end of the source at any moment. Two
values of one type and one of another, so that a change can keep the type or not.

### Fairness

* `TickExecutor`: weak fairness for the spin thread's current callback, the signal
  thread, and each started tick thread: the operating system runs threads. Nothing says
  that a tick or a halt of the tree returns; it may come to wait for a dead action server
  instead, and is owed nothing from then on, so the liveness properties excuse a held
  goal. The other waits inside a tick are bounded: service nodes by their timeout
  (bt_service_node.hpp:202), cancels with a live server as `CancelReturns` says. Clients,
  operators and signals owe nothing, so no callback ever has to begin.
* `ActionClient`: weak fairness of the node's own steps (the executor ticks a RUNNING
  node again and again), of time, and of a *live* server; strong fairness of delivery,
  because the node spins its executor only now and then, but again and again. The
  liveness properties excuse a dead server.
* `PickStage`: weak fairness of the tree's walk, of calls and moves coming to an end
  or to their timeout, which takes live action servers, of MoveIt applying
  what was published. A rejected action goal without a response timeout is the exception
  `StageEnds` names: no step is owed.
* `MoveGroup`: weak fairness of each goal's thread (so MoveIt's `plan()` and
  `execute()` return) and of the server's own change to CANCELING, while the process
  is up. Nothing is assumed of clients, operators or signals.
* `RotateRobot`: weak fairness of ticking a RUNNING node and of its deadline; nothing
  of the odometry, which may fall silent for good.
* `Perception`: weak fairness of the camera node's deadline, of the tree's nodes and
  of the perception server; nothing of the camera and of YOLO, which may die. That
  `detect()` and the service node give up is their own step, as in the code.
* `ConfigLoader`: weak fairness of `load()` and of its deadline; nothing of the source.

## 4. What is proved

Every invariant and every action property that a run checks is also a theorem of its
specification, for all values of the constants that satisfy the named assumption of its
module; so are both refinements, the safety part of `ImplementsTickService` and the whole
of `ImplementsPickService` (`PickService` states no fairness). What TLC adds is the liveness, the
evidence that the properties can be violated, and the confirmation of each `IInv` before
it was proved.

| Proof module | Properties | From |
|---|---|---|
| `TickExecutorProofs` | `TypeOK`, `OneJoinableTicker`, `InactiveIsQuiet`, `HaltedForAReason`, `AcceptJoinsDeadTicker`, `GoalStartsOnIdleTree`, `NoTerminateBeforeSignal`, `DeactivateIsSeen`; refines `TickService!SafetySpec` | any goals |
| `ActionClientProofs` | `TypeOK`, `OneLiveGoal`, `SuccessIsOwnUnlessLate` | any number of activations, response timeout set or not |
| `PickStageProofs` | `TypeOK`, `JudgeKnowsTheCode`, `IndexCountsJudgements`, `SuccessJudgedAll`, `CollectedWasPickedIfSelected`, `ImplementsPickService` | any bounds on objects, executions and timeouts |
| `MoveGroupProofs` | `TypeOK`, `OwnTargetIfAlone`, `OneMotionAfterCancel`, `ThreadOwnsGoal`, `SuccessMeansMoved` | any goals, whatever each asks for |
| `RotateRobotProofs` | `TypeOK`, `TurnsTowardsGoal`, `OwnActivation` | any circle, angle, tolerance, gain and bound of the integral |
| `PerceptionProofs` | `TypeOK`, `ServesWithPlugins`, `FramesInOrder`, `SceneIsOfItsFrame` | any number of frames, any detections in them, any sample points |
| `ConfigLoaderProofs` | `TypeOK`, `LoadIsComplete` | any names, prefixes, batch size, values and bounds |

The assumptions say that the names for "none" are not what they stand beside
(`NoGoal \notin Goals`), that bounds are natural numbers, that an angle is on its circle,
and that what clients ask for and cameras see has its type. Each proof module has a
lemma per action (`...Inv`), the step lemma `NextInv` that combines them, and a theorem per
property; an action property is proved of one step from `IInv`, a refinement step by
step (`...Refines`) with `IInv` for the preconditions of the abstract actions.

None of the properties is inductive alone. What each `IInv` adds:

**TickExecutor.** That the thread `goal_accepted` joins is dead needs what `goal_running_` means
at every program point of the spin thread.

* `HandlingOK`: what a callback in progress knows of the goal it is about;
* `Joined`, `JoinOK`: past a join there is no tick thread; one joiner at a time, of a
  thread that exists;
* `ActiveOK`: a goal without a result is being accepted or is executed by its thread,
  and is reported CANCELED only from CANCELING;
* `LifecycleOK`: the server exists in Active (and may be left over in Finalized),
  stopping starts only in Active;
* `TokenOK`: until a shutdown signal, a set token means this goal's cancel or the stop
  in progress, and it is clear when a goal is spawned;
* `RunningOK`: until a shutdown signal, `goal_running_` marks every live tick thread.

"Until a shutdown signal" is where the code's guarantee stops: the signal thread runs
concurrently with callbacks, and the run `tick_shutdown` and the `TickService` phase
`"closing"` say what is then lost.

**ActionClient.** The members carry no goal identity, so that a result is the current goal's
rests on no other goal being owed an answer.

* `KnownOK`: what the client was told about a goal is so;
* `TickOK`: where `tick()` is in its activation, and how far its one cancel request;
* `PromptOK`: as long as no cancel deadline passed with an answer owed, only the current
  goal is owed one, the members are about it, and an expired deadline finds it answered.

**PickStage.** Counters in the decorator, on the blackboard and in the scene must agree at
every node.

* `NodeOK`, `CodeOK`: what one node leaves to the next: retries are counted in the loop only,
  every node after MoveHome finds an error code, the judge an object;
* `CallOK`: what pending and given-up requests carry;
* `CountOK`, `AttemptOK`: `collected <= judged`, and from MoveToPick on `error_code` says how this
  attempt ended;
* `TimelyOK`: when calls are answered in time nothing is given up, every attempt is judged,
  and the objects left in the scene are those not yet judged. The refinement to `PickService`
  needs it: the abstract set of remaining objects is read off the scene.

**MoveGroup.** Goals meet in the members every request overwrites.

* `GoalOK`, `FreshOK`, `LegsOK`, `MotionOK`: thread, goal state, legs made and MoveIt's motion agree;
* `LateOK`: a motion started after the cancel was the last one, since each way on asks first;
* `MembersOK`, `TargetOK`: a goal no request has overlapped with is the only one running, the
  members, the planner's target and the plan are its own;
* `MovedOK`: past its last question it has made its motions, or was asked for none.

**RotateRobot.**

* `SteerOK`: until the goal is passed, error, velocity and integral have one sign (the
  integral is reset with each new goal, so nothing an earlier one left can outweigh it);
* `StaleOK`: once a message older than the activation was used, what waits is newer;
* `GapsOK`, `GoalOK`: after an undisturbed activation the timeouts that count and the goal yaw
  are this activation's own.

**Perception.**

* `ServerOK`: pipeline, plugins, publisher and service exist together, by lifecycle state;
* `FramesOK`, `RequestsOK`, `OrderOK`: what waits is newer than what was taken, requests are about
  older frames than those still to come, and reach the server in their order;
* `ReplyOK`, `CallOK`: an answer of YOLO names the frame it was asked about; a call that was
  answered leaves no other request that could overwrite its response.

**ConfigLoader.**

* `CallOK`, `TodoOK`, `ListOK`, `AnswerOK`: what a future holds by where `load()` is: all steady
  names, or all the values of a batch, or nothing because one is missing;
* `CoverOK`: every steady parameter that matches and has a value is in a batch to come or up to
  date: copied, or standing on the target with another type. A later batch can change neither,
  since a parameter keeps its type and the values are steady (`UpToDateKept`). Its
  steps need that batches and halves lose no name (`BatchesFacts`, `HalfFacts`) and that an unanswered batch of one holds nothing expected (`SkipInv`).

The lemmas about operators (`MaxFacts`, `LastLocatedFacts`, `ObjectsFacts`, `WrapFacts`, `SignFacts`,
`SelectedFacts`, `BatchesFacts`, ...) hold for all arguments. Where one needs induction
(the largest element of a set, the recursive function of `Selected`), it is derived from
the well-foundedness of the natural numbers: `Induction` in `ConfigLoaderProofs` states it with
a set in place of a predicate.

Only model-checked: all liveness (`DeactivateReturns`, `ActivationEnds`, `CancelReturns`, `StageEnds`,
`CancelledGoalEnds`, `SilenceEnds`, `WaitsEnd`, `LoadEnds`, and the fairness part of
`ImplementsTickService`), which rests on ENABLED and is out of the prover's reach.

## 5. Findings

Each is a run that TLC ends with a counterexample; `PROJECT.json` quotes the lines.

1. **Shutdown may leave the tree ticking** (bt_executor.cpp:322). The pre-shutdown
   callback races with `goal_accepted`: it finds no joinable thread, and the goal
   accepted next clears the token it has set.
2. **A stale result is taken for the current one** (bt_action_node.hpp:278). After a
   cancel that missed its deadline, the old goal's result ends the next activation.
3. **A rejected goal leaves the node RUNNING** (bt_action_node.hpp:261) unless a
   response timeout is set; the shipped configuration sets 0.0.
4. **Objects are counted as collected that nothing moved to** (check_error_ids.cpp:37):
   the error code of an earlier attempt is read again.
5. **A deactivated motion server can still start a motion** (move_group_server.cpp:117):
   a goal that is planning is on a detached thread nothing tells to stop.

Met while modelling, in the models or beside them, and without a run of their own. Those
that contradict a comment come first:

* `load()` can return true without a parameter: one whose type has changed since an earlier
  load keeps its old value (moveit_config_loader.cpp:177), where moveit_config_loader.hpp:61
  says "Copy every parameter matching the configured prefixes from the source node." With
  `UpToDate` reduced to `target[p] = value[p]`, `config_loader` ends with that trace.
* An object whose detection has no depth is returned and published with the position
  of the detection before it (mean_localiser.cpp:58), where mean_localiser.hpp:50 promises
  "valid estimated object poses".

* In a window of `cancel_active_goal` the node cancels all goals of the server, other
  clients' too (`ActionClient`, cancel of `All`), where bt_action_node.hpp:160 speaks of the
  goal in flight.
* A halted or failed `RotateRobot` keeps its goal yaw and, when halted, its timeout count
  for the next activation, where rotate_robot.hpp:45 speaks of consecutive timeouts.

The others:

* `cancel_active_goal` waits for the rest of its deadline; once that has passed the
  rest is negative, which means "no timeout" (bt_action_node.hpp:323). If the action server
  has died, the tick or halt never returns, `on_deactivate` waits for it on the only spin
  thread, and on SIGINT the pre-shutdown callback joins it, so the context never shuts down.
* A constraints plugin that cannot be loaded crashes `on_configure` of the motion server
  (`MoveGroup`); a perception pipeline or plugin that cannot be loaded, or YOLO that is not
  up within two seconds, crashes that of the perception server, and so does the
  destructor of one that was never configured (`Perception`).
* A move to an object that is not cartesian succeeds without moving; overlapping
  `MoveGroup` goals exchange targets.
* `RotateRobot` reads its port `kp` into `ki_` (rotate_robot.cpp:29) and publishes no stop
  velocity at the goal.
* The localiser's samples are at -i-1 and 1-i, not symmetric about the centre.
* YOLO's `success` is not looked at: an image it could not convert is a scene without
  objects (yolo_detector_py.cpp).
* `load()` reports success when none of the matching parameters had a value.

## 6. Not modelled

* Feedback, log texts, result messages; waits for servers in constructors (start-up),
  except where the tree is created in `Perception`; MeasureTime (writes a file).
* Poses, images, masks, inverse kinematics, controllers and all other real arithmetic;
  attaching and detaching (the tree never asks for it). Angles and samples are kept where
  a property is about them.
* `GetMeanPose`, `GetNearestObjectPose`: one function of coordinates each, without
  state. `MoveBaseAction` fills in a goal and is a `BTActionNode` otherwise. None is in the
  shipped tree.
* The constraints plugin (geometry, called from commented-out code only), `sh_utils`
  (parameter and message conversion), the plugin interfaces (pure virtual),
  `show_image`, message definitions, launch files and parameters.
* Which messages the synchroniser pairs: a synchronised set arrives as one.
* Code outside the repository (rclcpp_action, BehaviorTree.CPP, MoveIt) is modelled by how
  it is used here and marked external in the map.

`MoveGroup` keeps free clients rather than being composed with `ActionClient`: the two
share only goals, cancels and results, and each already meets every order of them.

## 7. Plan

Done, in order of importance: `TickService`, `TickExecutor` (the root of every
execution), its proofs, `ActionClient`, `PickService`, `PickStage`, `MoveGroup`, then
`RotateRobot`, `Perception`, `ConfigLoader`; then a proof module for each of these, so that
every safety property of the runs is proved. What is left:

1. consequences of the abstract specifications, proved once and carried down by the
   refinements (what `TickService` and `PickService` promise their callers);
2. what each violated property still guarantees, as a theorem under the weakest condition
   found (`SuccessIsOwnUnlessLate` and `CollectedWasPickedIfSelected` are two of them).

## 8. Running

`tlc -config <run>.cfg <module>` for a run, `tlapm <module>Proofs.tla` for the proofs of a
module. The longest run, `move_group`, takes about two minutes on two cores; the longest
proof about as long.
