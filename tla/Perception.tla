----------------------------- MODULE Perception -----------------------------
(***************************************************************************)
(* The detection chain: GetCameraDataAction on BTSyncSubscriptionNode and  *)
(* PredictService in the tree (DetectionTreeBase), PerceptionServer with   *)
(* the RgbdPerceptionPipeline it loads and its three plugins, and the      *)
(* Python process yolo_server.py.  The tree, the perception server and the *)
(* YOLO server are one thread each; while a request is being processed the *)
(* perception server does nothing else.  A frame is a synchronised set of  *)
(* images, named by its number; every request is about a frame.            *)
(***************************************************************************)
EXTENDS Integers, Sequences, SequencesExt

CONSTANTS
  MaxFrames,  \* bound: frames the camera takes
  Sight,      \* what YOLO sees in each: a sequence of detections, and of each
              \* the offsets from its centre at which the depth image has depth
  ParamPoints \* pipeline.localiser.points

Frames   == 1..MaxFrames
NoFrame  == 0
Plugins  == {"detector", "localiser", "grasp"}
Null     == [p \in Plugins |-> "null"]
Grasps   == {"DefaultGraspGenerator", "BasicGraspGenerator"}
Loaded   == [detector : {"YoloDetectorPY"}, localiser : {"MeanLocaliser"}, grasp : Grasps]
Nowhere  == 0    \* no position, no orientation
Fixed    == -1   \* the orientation the parameters give
NoReply  == [to |-> NoFrame, seen |-> NoFrame, failed |-> FALSE]
NoScene  == [frame |-> NoFrame, seen |-> NoFrame, objects |-> <<>>]

ASSUME PerceptionAssumption ==
  /\ MaxFrames \in Nat /\ Sight \in [Frames -> Seq(SUBSET (Int \X Int))] /\ ParamPoints \in Int

VARIABLES
  stage,      \* the tree, if there is one: the node that runs
  expired,    \* now() > timeout_deadline_ of the camera node
  queue,      \* the synchronised set that waits in the subscriptions, depth 1
  lastMsgs,   \* last_msgs_, NoFrame while msg_received_ is false
  image,      \* blackboard: rgb_image, depth_image, cam_info
  call,       \* the service call of PredictService
  scene,      \* blackboard: perception_scene
  lifecycle, proc,
  pipeline,   \* pipeline_ is not null
  plugins,    \* detector_, localiser_, grasp_
  publisher,  \* perception_publisher_ is not null
  service,    \* service_ exists
  requests,   \* the requests that wait at it
  task,       \* the request in process(), which waits for YOLO's answer
  response,   \* what the last request was answered with
  yolo,       \* yolo_server.py
  inbox,      \* the requests that wait there; "mine": its client still exists
  reply,      \* what waits at yolo_client_, depth 1
  taken,      \* frames the camera has taken
  before      \* history: frames taken when the camera node was activated

camera == <<expired, queue, lastMsgs, image>>
client == <<stage, camera, call, scene>>
node   == <<lifecycle, proc, pipeline, plugins, publisher, service>>
server == <<node, requests, task, response>>
python == <<yolo, inbox, reply>>
world  == <<taken, before>>
vars   == <<client, server, python, world>>

TreeInit ==
  /\ stage = "none" /\ expired = FALSE /\ queue = NoFrame /\ lastMsgs = NoFrame
  /\ image = NoFrame /\ call = "none" /\ scene = NoScene

ServerInit ==
  /\ lifecycle = "unconfigured" /\ proc = "up" /\ pipeline = FALSE /\ plugins = Null
  /\ publisher = FALSE /\ service = FALSE
  /\ requests = <<>> /\ task = NoFrame /\ response = NoScene

Init ==
  /\ TreeInit /\ ServerInit
  /\ yolo = "loading" /\ inbox = <<>> /\ reply = NoReply
  /\ taken = 0 /\ before = 0

-----------------------------------------------------------------------------
(* The tree is created and destroyed.                                      *)

\* The constructor of PredictService throws when the service does not come.
ServiceReady == service /\ proc = "up"

\* With the camera node its subscriptions are created.
CreateTree ==
  /\ stage = "none"
  /\ stage' = IF ServiceReady THEN "idle" ELSE "none"
  /\ UNCHANGED <<camera, call, scene, server, python, world>>

DestroyTree ==
  /\ stage = "idle" /\ stage' = "none"
  /\ queue' = NoFrame /\ lastMsgs' = NoFrame
  /\ image' = NoFrame /\ scene' = NoScene
  /\ UNCHANGED <<expired, call, server, python, world>>

-----------------------------------------------------------------------------
(* GetCameraDataAction on BTSyncSubscriptionNode.                          *)

\* A new set replaces one that still waits, in every subscription.
TakeFrame ==
  /\ taken < MaxFrames
  /\ taken' = taken + 1
  /\ queue' = IF stage = "none" THEN NoFrame ELSE taken'
  /\ UNCHANGED <<stage, expired, lastMsgs, image, call, scene, server, python, before>>

\* The first tick of an activation sets the deadline, the only time it is set.
Activate ==
  /\ stage = "idle" /\ stage' = "camera"
  /\ expired' = FALSE /\ before' = taken
  /\ UNCHANGED <<queue, lastMsgs, image, call, scene, server, python, taken>>

Expire ==
  /\ stage = "camera" /\ ~expired /\ expired' = TRUE
  /\ UNCHANGED <<stage, queue, lastMsgs, image, call, scene, server, python, world>>

\* last_msgs_ after spin_some(): msg_callback keeps what has arrived.
Spun == IF queue = NoFrame THEN lastMsgs ELSE queue

\* Images that came with the timeout stay for the next activation.
CameraTimeout ==
  /\ stage = "camera" /\ expired
  /\ stage' = "idle" /\ queue' = NoFrame /\ lastMsgs' = Spun
  /\ UNCHANGED <<expired, image, call, scene, server, python, world>>

\* Mutant: msg_received_ and last_msgs_ are not reset.
CameraSuccess_Keep ==
  /\ stage = "camera" /\ ~expired /\ Spun # NoFrame
  /\ stage' = "predict" /\ image' = Spun /\ queue' = NoFrame /\ lastMsgs' = Spun
  /\ UNCHANGED <<expired, call, scene, server, python, world>>

\* GetCameraDataAction::onTick writes the images to the blackboard.
OnTick(msgs) == image' = msgs

CameraSuccess ==
  /\ stage = "camera" /\ ~expired /\ Spun # NoFrame
  /\ stage' = "predict" /\ OnTick(Spun) /\ queue' = NoFrame /\ lastMsgs' = NoFrame
  /\ UNCHANGED <<expired, call, scene, server, python, world>>

CameraHalt ==
  /\ stage = "camera"
  /\ stage' = "idle" /\ lastMsgs' = NoFrame
  /\ UNCHANGED <<expired, queue, image, call, scene, server, python, world>>

-----------------------------------------------------------------------------
(* PredictService on BTServiceNode.                                        *)

\* A request sent while there is no service is lost.
Predict ==
  /\ stage = "predict" /\ call = "none"
  /\ call' = "sent"
  /\ requests' = IF ServiceReady THEN Append(requests, image) ELSE requests
  /\ UNCHANGED <<stage, camera, scene, node, task, response, python, world>>

\* No response in service_response_timeout: the request is not withdrawn.
PredictGivesUp ==
  /\ stage = "predict" /\ call = "sent"
  /\ stage' = "idle" /\ call' = "none"
  /\ UNCHANGED <<camera, scene, server, python, world>>

\* onTick: a scene, or a response without success.
PredictDone ==
  /\ stage = "predict" /\ call = "answered"
  /\ stage' = "idle" /\ call' = "none"
  /\ scene' = IF response = NoScene THEN scene ELSE response
  /\ UNCHANGED <<camera, server, python, world>>

-----------------------------------------------------------------------------
(* PerceptionServer: lifecycle.                                            *)

Free == proc = "up" /\ task = NoFrame

\* YoloDetectorPY::cleanup(): its client is gone, what it asked is not.
DropClient == /\ reply' = NoReply
              /\ inbox' = [i \in DOMAIN inbox |-> [inbox[i] EXCEPT !.mine = FALSE]]

\* RgbdPerceptionPipeline::cleanup() calls every plugin, and the server calls the
\* pipeline, whether they are there or not.
CleanupPipeline(exists, its) ==
  IF exists /\ \A p \in Plugins : its[p] # "null"
    THEN /\ pipeline' = FALSE /\ plugins' = Null /\ publisher' = FALSE
         /\ DropClient /\ UNCHANGED proc
    ELSE /\ proc' = "crashed"
         /\ UNCHANGED <<pipeline, plugins, publisher, reply, inbox>>

\* The detector's configure() fails when YOLO's service is not there in two
\* seconds, that of the others never.
DetectorConfigures == yolo = "up"

\* What configure() of the pipeline makes of its plugins: when one of them cannot be
\* loaded or configured, reset_plugins() leaves none.
Configured(its) == its = Null \/ (its \in Loaded /\ DetectorConfigures)

\* After any failure on_configure calls on_cleanup.
Configure ==
  /\ Free /\ lifecycle = "unconfigured"
  /\ \/ \E its \in Loaded :
           /\ Configured(its)
           /\ lifecycle' = "inactive" /\ pipeline' = TRUE /\ publisher' = TRUE
           /\ plugins' = its
           /\ UNCHANGED <<proc, reply, inbox>>
     \/ /\ Configured(Null)
        /\ CleanupPipeline(TRUE, Null)
        /\ UNCHANGED lifecycle
     \/ /\ CleanupPipeline(FALSE, Null)   \* pipeline_loader_ throws
        /\ UNCHANGED lifecycle
  /\ UNCHANGED <<client, service, requests, task, response, yolo, world>>

OnActivate ==
  /\ Free /\ lifecycle = "inactive"
  /\ lifecycle' = "active" /\ service' = TRUE
  /\ UNCHANGED <<client, proc, pipeline, plugins, publisher, requests, task, response,
                 python, world>>

\* Mutant: service_ is not reset.
OnDeactivate_KeepService ==
  /\ Free /\ lifecycle = "active"
  /\ lifecycle' = "inactive"
  /\ UNCHANGED <<client, proc, pipeline, plugins, publisher, service, requests, task,
                 response, python, world>>

\* With service_ the requests that wait at it are gone.
OnDeactivate ==
  /\ Free /\ lifecycle = "active"
  /\ lifecycle' = "inactive" /\ service' = FALSE /\ requests' = <<>>
  /\ UNCHANGED <<client, proc, pipeline, plugins, publisher, task, response, python, world>>

OnCleanup ==
  /\ Free /\ lifecycle = "inactive"
  /\ lifecycle' = "unconfigured"
  /\ CleanupPipeline(pipeline, plugins)
  /\ UNCHANGED <<client, service, requests, task, response, yolo, world>>

\* on_shutdown does nothing: an active server goes on serving.
OnShutdown ==
  /\ Free /\ lifecycle # "finalized"
  /\ lifecycle' = "finalized"
  /\ UNCHANGED <<client, proc, pipeline, plugins, publisher, service, requests, task,
                 response, python, world>>

\* The process ends: the destructor cleans the pipeline up, if there is one or not.
Destroy ==
  /\ Free
  /\ IF pipeline THEN proc' = "gone" ELSE proc' = "crashed"
  /\ DropClient
  /\ UNCHANGED <<client, lifecycle, pipeline, plugins, publisher, service, requests, task,
                 response, yolo, world>>

-----------------------------------------------------------------------------
(* PerceptionServer: a request.                                            *)

\* Whoever has waited since it was sent gets this response.
Respond(r) ==
  /\ response' = r
  /\ call' = IF call = "sent" /\ image = task THEN "answered" ELSE call
  /\ task' = NoFrame

\* detect() as far as its request to YOLO.
AskYolo(frame) == inbox' = Append(inbox, [frame |-> frame, mine |-> TRUE])

\* process() as far as the detector.
Process ==
  /\ Free /\ service /\ requests # <<>>
  /\ requests' = Tail(requests)
  /\ IF \E p \in Plugins : plugins[p] = "null"
       THEN proc' = "crashed" /\ UNCHANGED <<task, inbox>>
       ELSE task' = Head(requests) /\ AskYolo(Head(requests)) /\ UNCHANGED proc
  /\ UNCHANGED <<client, lifecycle, pipeline, plugins, publisher, service, response,
                 yolo, reply, world>>

\* Mutant: detect() waits for its answer without a timeout.
DetectTimeout_Never ==
  /\ proc = "up" /\ task # NoFrame /\ yolo = "up" /\ inbox = <<>>
  /\ Respond(NoScene)
  /\ UNCHANGED <<stage, camera, scene, node, requests, python, world>>

\* detect() gets no answer in two seconds.
DetectTimeout ==
  /\ proc = "up" /\ task # NoFrame
  /\ Respond(NoScene)
  /\ UNCHANGED <<stage, camera, scene, node, requests, python, world>>

Points == IF ParamPoints < 1 THEN 1 ELSE ParamPoints

\* MeanLocaliser::compute_xyz looks at these offsets from the centre; samples
\* without depth do not count, and without any there is no position.
Samples == {<<0, 0>>} \cup UNION {{<<-i - 1, 0>>, <<1 - i, 0>>, <<0, -i - 1>>, <<0, 1 - i>>}
                                    : i \in 0..(Points - 1)}
ComputeXyz(detection) == Samples \cap detection # {}

\* The last detection up to i that has a position.
LastLocated(detections, i) == Max({Nowhere} \cup {j \in 1..i : ComputeXyz(detections[j])})

\* Mutant: an object takes the position of the detection after its own.
Localise_Next(detections) ==
  [i \in DOMAIN detections |->
     [valid |-> ComputeXyz(detections[i]), position |-> LastLocated(detections, i) + 1]]

\* localise() writes one pose after another in the same variable: a detection
\* without a position gets that of the last one that had it, or none.
Localise(detections) ==
  [i \in DOMAIN detections |->
     [valid |-> ComputeXyz(detections[i]), position |-> LastLocated(detections, i)]]

\* The default generator points the gripper from the camera to the position, the
\* basic one as the parameters say.
DefaultGrasp(pose) == pose.position
BasicGrasp(pose) == Fixed

\* generate_grasp() of both leaves the poses that are not valid alone.
GenerateGrasp(poses) ==
  [i \in DOMAIN poses |->
     [position |-> poses[i].position,
      orientation |-> IF ~poses[i].valid THEN Nowhere
                      ELSE IF plugins.grasp = "DefaultGraspGenerator"
                        THEN DefaultGrasp(poses[i]) ELSE BasicGrasp(poses[i])]]

\* detect() takes num_objects and does not look at success.
Detections(answer) == IF answer.failed THEN <<>> ELSE Sight[answer.seen]

\* The rest of process(): an object for every detection, its pose valid or not.
Scene(frame, answer) ==
  [frame |-> frame, seen |-> answer.seen,
   objects |-> GenerateGrasp(Localise(Detections(answer)))]

\* Mutant: the answer that arrives is the answer.
DetectReply_Any ==
  /\ proc = "up" /\ task # NoFrame /\ reply # NoReply
  /\ Respond(Scene(task, reply))
  /\ reply' = NoReply
  /\ UNCHANGED <<stage, camera, scene, node, requests, yolo, inbox, world>>

\* The future of this request is set.
DetectReply ==
  /\ proc = "up" /\ task # NoFrame /\ reply.to = task
  /\ Respond(Scene(task, reply))
  /\ reply' = NoReply
  /\ UNCHANGED <<stage, camera, scene, node, requests, yolo, inbox, world>>

\* A late answer sets the future of a request nobody waits for.
DetectLate ==
  /\ proc = "up" /\ task # NoFrame /\ reply.to \notin {task, NoFrame}
  /\ reply' = NoReply
  /\ UNCHANGED <<client, server, yolo, inbox, world>>

-----------------------------------------------------------------------------
(* yolo_server.py.                                                         *)

\* The model is loaded, or the process ends.
YoloLoads ==
  /\ yolo = "loading" /\ yolo' \in {"warming", "dead"}
  /\ UNCHANGED <<client, server, inbox, reply, world>>

\* Only after its warm-up does the server offer its service.
YoloWarmsUp ==
  /\ yolo = "warming" /\ yolo' \in {"up", "dead"}
  /\ UNCHANGED <<client, server, inbox, reply, world>>

\* One request after the other.  An image that cannot be converted is answered
\* without success, with no objects.
YoloAnswers ==
  /\ yolo = "up" /\ inbox # <<>>
  /\ inbox' = Tail(inbox)
  /\ IF Head(inbox).mine
       THEN \E failed \in BOOLEAN :
              reply' = [to |-> Head(inbox).frame, seen |-> Head(inbox).frame, failed |-> failed]
       ELSE UNCHANGED reply
  /\ UNCHANGED <<client, server, yolo, world>>

YoloDies ==
  /\ yolo = "up" /\ yolo' = "dead"
  /\ UNCHANGED <<client, server, inbox, reply, world>>

-----------------------------------------------------------------------------
TreeWork   == CreateTree \/ DestroyTree
ClientWork == CameraTimeout \/ CameraSuccess \/ Predict \/ PredictGivesUp \/ PredictDone
ServerWork == Process \/ DetectTimeout \/ DetectReply \/ DetectLate

Next ==
  \/ TreeWork \/ TakeFrame \/ Activate \/ Expire \/ CameraHalt \/ ClientWork
  \/ Configure \/ OnActivate \/ OnDeactivate \/ OnCleanup \/ OnShutdown \/ Destroy
  \/ ServerWork
  \/ YoloLoads \/ YoloWarmsUp \/ YoloAnswers \/ YoloDies

\* A node that runs is ticked again, time passes, and the perception server does
\* what it has to do.  Nothing is expected of the camera and of YOLO.
Spec == Init /\ [][Next]_vars /\ WF_vars(Expire) /\ WF_vars(ClientWork) /\ WF_vars(ServerWork)

-----------------------------------------------------------------------------
Objects == UNION {[1..n -> [position : Nowhere..n, orientation : Fixed..n]]
                    : n \in {Len(Sight[f]) : f \in Frames} \cup {0}}
Scenes  == [frame : Frames \cup {NoFrame}, seen : Frames \cup {NoFrame}, objects : Objects]
Replies == [to : Frames \cup {NoFrame}, seen : Frames \cup {NoFrame}, failed : BOOLEAN]

TypeOK ==
  /\ stage \in {"none", "idle", "camera", "predict"} /\ call \in {"none", "sent", "answered"}
  /\ {queue, lastMsgs, image, task} \subseteq Frames \cup {NoFrame}
  /\ {expired, pipeline, publisher, service} \subseteq BOOLEAN
  /\ lifecycle \in {"unconfigured", "inactive", "active", "finalized"}
  /\ proc \in {"up", "crashed", "gone"} /\ yolo \in {"loading", "warming", "up", "dead"}
  /\ plugins \in Loaded \cup {Null}
  /\ {scene, response} \subseteq Scenes /\ reply \in Replies
  /\ requests \in Seq(Frames) /\ inbox \in Seq([frame : Frames, mine : BOOLEAN])
  /\ taken \in 0..MaxFrames /\ before \in 0..taken

\* As long as there is a service, process() finds its plugins configured and the
\* publisher of its image there: no order of transitions and requests makes it
\* use what cleanup() has reset.
ServesWithPlugins ==
  proc = "up" /\ service
    => pipeline /\ publisher /\ \A p \in Plugins : plugins[p] # "null"

\* The scene the tree gets was seen in the images it sent, whatever answers to
\* earlier requests were late, and every object that could be located is where
\* its own detection is, and grasped there.
SceneIsOfItsFrame ==
  [][scene' \notin {scene, NoScene}
       => /\ scene'.frame = image /\ scene'.seen = image
          /\ \A i \in DOMAIN scene'.objects :
               ComputeXyz(Sight[image][i])
                 => /\ scene'.objects[i].position = i
                    /\ scene'.objects[i].orientation \in {i, Fixed}]_vars

\* GetCameraDataAction never gives the same images twice, never older ones than
\* before, and none that newer ones had replaced when it was activated, halted
\* and timed out activations included.
FramesInOrder ==
  [][stage = "camera" /\ stage' = "predict" => image' > image /\ image' >= before]_vars

\* "Waits for synchronized messages to arrive or the timeout expires": the tree
\* is not kept by a camera or a server that is silent, nor the perception server
\* by YOLO.
WaitsEnd ==
  /\ stage \in {"camera", "predict"} ~> stage = "idle"
  /\ task # NoFrame ~> task = NoFrame
=============================================================================
