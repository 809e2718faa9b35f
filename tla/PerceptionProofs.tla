-------------------------- MODULE PerceptionProofs --------------------------
(***************************************************************************)
(* Proofs, for any number of frames and whatever YOLO sees in them, of the *)
(* safety properties of Perception.                                        *)
(***************************************************************************)
EXTENDS Perception, SequenceTheorems, WellFoundedInduction, TLAPS

\* A server that is up has a pipeline from configure() to cleanup(), the pipeline
\* its plugins and its publisher, and the service is there only in between.
ServerOK ==
  proc = "up" =>
    /\ pipeline => plugins \in Loaded /\ publisher
    /\ lifecycle \in {"inactive", "active"} => pipeline
    /\ lifecycle \in {"unconfigured", "inactive"} => ~service
    /\ service => pipeline

\* What waits in the subscriptions is the newest frame, and newer than the images
\* on the blackboard, like the set a timed out activation has left, which is the
\* newest one for as long as nothing waits.
FramesOK ==
  /\ image <= taken
  /\ queue # NoFrame => queue = taken /\ image < queue
  /\ lastMsgs # NoFrame => /\ image < lastMsgs /\ lastMsgs <= taken
                           /\ queue = NoFrame => lastMsgs = taken
  /\ stage = "none" => queue = NoFrame /\ lastMsgs = NoFrame

\* The frames that requests are about, the one in process() first.
Unanswered == {requests[i] : i \in 1..Len(requests)} \cup {task}

\* Requests are about older frames than those the camera node may still give.
RequestsOK ==
  \A f \in Unanswered :
    /\ f <= taken
    /\ queue # NoFrame => f < queue
    /\ lastMsgs # NoFrame => f < lastMsgs
    /\ stage = "predict" => f <= image
    /\ stage = "predict" /\ call = "none" => f < image

\* They come to the server in the order of their frames.
OrderOK ==
  \A i \in 1..Len(requests) :
    /\ task < requests[i]
    /\ \A j \in 1..Len(requests) : i < j => requests[i] < requests[j]

\* YOLO's answer is about the frame it was asked about.
ReplyOK == reply.seen = reply.to /\ (reply # NoReply => reply.to \in Frames)

\* What SceneIsOfItsFrame asks of a scene.
Located(s) ==
  \A i \in DOMAIN s.objects :
    ComputeXyz(Sight[s.frame][i])
      => s.objects[i].position = i /\ s.objects[i].orientation \in {i, Fixed}

\* The response a call was answered with is about its frame, and stays: no other
\* request is left that could be answered before the tree has read it.
CallOK ==
  /\ call # "none" => stage = "predict"
  /\ stage = "predict" => image # NoFrame
  /\ call = "answered" =>
       /\ Unanswered = {NoFrame}
       /\ response # NoScene
            => response.frame = image /\ response.seen = image /\ Located(response)

IInv ==
  /\ TypeOK
  /\ ServerOK
  /\ FramesOK
  /\ RequestsOK
  /\ OrderOK
  /\ ReplyOK
  /\ CallOK

-----------------------------------------------------------------------------
(* What localise() and generate_grasp() make of the detections.            *)

LEMMA MaxFacts ==
  ASSUME NEW n \in Nat, NEW S \in SUBSET (0..n), 0 \in S
  PROVE  Max(S) \in S /\ \A y \in S : y <= Max(S)
<1>. DEFINE T == {n - y : y \in S}
<1>1. T \subseteq Nat /\ T # {}
  OBVIOUS
<1>2. PICK x \in T : \A y \in T : ~(<<y, x>> \in OpToRel(<, Nat))
  BY <1>1, NatLessThanWellFounded, WFMin
<1>3. \A y \in Nat : y < x => <<y, x>> \in OpToRel(<, Nat)
  <2>1. SUFFICES ASSUME NEW y \in Nat, y < x
                 PROVE  <<y, x>> \in {ss \in Nat \X Nat : ss[1] < ss[2]}
    BY Zenon DEF OpToRel
  <2>. QED
    BY <1>1, <2>1
<1>4. n - x \in S /\ \A y \in S : n - x >= y
  <2>1. \A y \in T : ~(y < x)
    BY <1>1, <1>2, <1>3, Zenon
  <2>2. PICK s \in S : x = n - s
    BY <1>2
  <2>3. ASSUME NEW y \in S
        PROVE  s >= y
    <3>1. n - y \in T /\ y \in Int /\ s \in Int
      OBVIOUS
    <3>2. ~(n - y < n - s)
      BY <2>1, <2>2, <3>1
    <3>. QED
      BY <3>1, <3>2
  <2>. QED
    BY <2>2, <2>3
<1>. QED
  BY <1>4, Zenon DEF Max

LEMMA LastLocatedFacts ==
  ASSUME NEW d \in Seq(SUBSET (Int \X Int)), NEW i \in 1..Len(d)
  PROVE  /\ LastLocated(d, i) \in Nowhere..i
         /\ ComputeXyz(d[i]) => LastLocated(d, i) = i
<1>. DEFINE S == {Nowhere} \cup {j \in 1..i : ComputeXyz(d[j])}
<1>1. S \in SUBSET (0..i) /\ 0 \in S /\ i \in Nat
  BY LenProperties DEF Nowhere
<1>2. Max(S) \in S /\ \A y \in S : y <= Max(S)
  BY <1>1, MaxFacts
<1>3. LastLocated(d, i) = Max(S)
  BY DEF LastLocated
<1>4. ComputeXyz(d[i]) => i \in S
  BY <1>1
<1>. HIDE DEF S
<1>5. Max(S) \in Nowhere..i
  BY <1>1, <1>2 DEF Nowhere
<1>6. ASSUME i \in S
      PROVE  Max(S) = i
  <2>1. i <= Max(S) /\ Max(S) \in 0..i
    BY <1>1, <1>2, <1>6, Zenon
  <2>. QED
    BY <1>1, <2>1
<1>. QED
  BY <1>3, <1>4, <1>5, <1>6, Zenon

LEMMA ObjectsFacts ==
  ASSUME NEW d \in Seq(SUBSET (Int \X Int))
  PROVE  LET its == GenerateGrasp(Localise(d))
         IN  /\ its \in [1..Len(d) -> [position : Nowhere..Len(d), orientation : Fixed..Len(d)]]
             /\ \A i \in 1..Len(d) :
                  ComputeXyz(d[i]) => its[i].position = i /\ its[i].orientation \in {i, Fixed}
<1>1. Len(d) \in Nat /\ DOMAIN d = 1..Len(d)
  BY LenProperties
<1>. DEFINE poses == Localise(d)
            its == GenerateGrasp(poses)
<1>2. DOMAIN poses = 1..Len(d)
  BY <1>1 DEF Localise
<1>3. ASSUME NEW i \in 1..Len(d)
      PROVE  /\ poses[i].valid = ComputeXyz(d[i])
             /\ poses[i].position = LastLocated(d, i)
  BY <1>1 DEF Localise
<1>4. DOMAIN its = 1..Len(d) /\ its = [i \in 1..Len(d) |-> its[i]]
  BY <1>2 DEF GenerateGrasp
<1>5. ASSUME NEW i \in 1..Len(d)
      PROVE  its[i] = [position |-> LastLocated(d, i),
                       orientation |-> IF ~ComputeXyz(d[i]) THEN Nowhere
                                       ELSE IF plugins.grasp = "DefaultGraspGenerator"
                                         THEN LastLocated(d, i) ELSE Fixed]
  BY <1>2, <1>3, <1>5, Zenon DEF GenerateGrasp, DefaultGrasp, BasicGrasp
<1>. HIDE DEF its, poses
<1>6. ASSUME NEW i \in 1..Len(d)
      PROVE  /\ its[i] \in [position : Nowhere..Len(d), orientation : Fixed..Len(d)]
             /\ ComputeXyz(d[i]) => its[i].position = i /\ its[i].orientation \in {i, Fixed}
  <2>1. LastLocated(d, i) \in Nowhere..i /\ (ComputeXyz(d[i]) => LastLocated(d, i) = i)
    BY LastLocatedFacts
  <2>2. PICK o : /\ its[i] = [position |-> LastLocated(d, i), orientation |-> o]
                 /\ o \in {Nowhere, Fixed, LastLocated(d, i)}
                 /\ ComputeXyz(d[i]) => o \in {Fixed, LastLocated(d, i)}
    BY <1>5, Zenon
  <2>. QED
    BY <1>1, <2>1, <2>2 DEF Nowhere, Fixed
<1>7. its \in [1..Len(d) -> [position : Nowhere..Len(d), orientation : Fixed..Len(d)]]
  BY <1>4, <1>6
<1>. QED
  BY <1>6, <1>7 DEF its, poses

\* A scene for a frame, of what YOLO answered about it.
LEMMA SceneFacts ==
  ASSUME PerceptionAssumption, NEW f \in Frames, NEW a \in Replies, a.seen = f
  PROVE  LET its == Scene(f, a)
         IN  its \in Scenes /\ its.frame = f /\ its.seen = f /\ Located(its)
<1>. DEFINE d == Detections(a)
            its == GenerateGrasp(Localise(d))
<1>1. d = <<>> \/ d = Sight[f]
  BY DEF Detections
<1>2. d \in Seq(SUBSET (Int \X Int)) /\ Len(d) \in {Len(Sight[g]) : g \in Frames} \cup {0}
  BY <1>1, EmptySeq DEF PerceptionAssumption
<1>3. its \in [1..Len(d) -> [position : Nowhere..Len(d), orientation : Fixed..Len(d)]]
  BY <1>2, ObjectsFacts
<1>4. \A i \in 1..Len(d) :
        ComputeXyz(d[i]) => its[i].position = i /\ its[i].orientation \in {i, Fixed}
  BY <1>2, ObjectsFacts
<1>. HIDE DEF its
<1>5. its \in Objects
  BY <1>2, <1>3, Zenon DEF Objects
<1>6. DOMAIN its = 1..Len(d)
  BY <1>3
<1>7. \A i \in DOMAIN its : d[i] = Sight[f][i]
  BY <1>1, <1>6, EmptySeq
<1>8. Scene(f, a) = [frame |-> f, seen |-> f, objects |-> its]
  BY Zenon DEF Scene, its
<1>. HIDE DEF d
<1>9. \A i \in DOMAIN its :
        ComputeXyz(Sight[f][i]) => its[i].position = i /\ its[i].orientation \in {i, Fixed}
  BY <1>4, <1>6, <1>7
<1>10. Scene(f, a) \in Scenes
  BY <1>5, <1>8 DEF Scenes
<1>11. Located(Scene(f, a))
  BY <1>8, <1>9 DEF Located
<1>. QED
  BY <1>8, <1>10, <1>11

LEMMA NoSceneIsScene == NoScene \in Scenes
<1>1. <<>> \in [1..0 -> [position : Nowhere..0, orientation : Fixed..0]]
  BY EmptySeq, LenProperties
<1>2. <<>> \in Objects
  BY <1>1, Zenon DEF Objects
<1>. QED
  BY <1>2 DEF NoScene, Scenes, NoFrame

-----------------------------------------------------------------------------
(* The words the definitions are written in, and the conjuncts of IInv.    *)
USE PerceptionAssumption
USE DEF Frames, NoFrame, Plugins, camera, client, node, server, python, world,
        Free, ServiceReady, Spun
USE DEF IInv

LEMMA NoReplyFacts == NoReply \in Replies /\ NoReply.seen = NoReply.to
BY DEF NoReply, Replies

LEMMA InitInv == Init => IInv
<1>. SUFFICES ASSUME Init  PROVE IInv
  OBVIOUS
<1>1. {expired, pipeline, publisher, service} \subseteq BOOLEAN
  BY Zenon DEF Init, TreeInit, ServerInit
<1>2. TypeOK
  BY <1>1, NoSceneIsScene, NoReplyFacts, EmptySeq, SMTT(60)
     DEF Init, TreeInit, ServerInit, TypeOK
<1>. QED
  BY <1>2, NoReplyFacts, EmptySeq, SMTT(60)
     DEF Init, TreeInit, ServerInit, ServerOK, FramesOK, RequestsOK, OrderOK, ReplyOK, CallOK,
         Unanswered

-----------------------------------------------------------------------------
(* The requests that wait at the two servers.                              *)

LEMMA UnansweredType ==
  ASSUME TypeOK
  PROVE  Unanswered \subseteq Frames \cup {NoFrame}
BY ElementOfSeq DEF TypeOK, Unanswered

LEMMA InboxFacts ==
  ASSUME TypeOK
  PROVE  /\ inbox # <<>>
              => /\ Head(inbox).frame \in Frames
                 /\ Tail(inbox) \in Seq([frame : Frames, mine : BOOLEAN])
         /\ \A f \in Frames :
              Append(inbox, [frame |-> f, mine |-> TRUE])
                \in Seq([frame : Frames, mine : BOOLEAN])
<1>. DEFINE M == [frame : Frames, mine : BOOLEAN]
<1>1. inbox \in Seq(M)
  BY DEF TypeOK
<1>2. inbox # <<>> => Head(inbox) \in M /\ Tail(inbox) \in Seq(M)
  BY <1>1, HeadTailProperties
<1>3. \A f \in Frames : Append(inbox, [frame |-> f, mine |-> TRUE]) \in Seq(M)
  BY <1>1, AppendProperties
<1>. QED
  BY <1>2, <1>3

LEMMA DropClientFacts ==
  ASSUME TypeOK, DropClient
  PROVE  /\ reply' = NoReply /\ reply' \in Replies
         /\ inbox' \in Seq([frame : Frames, mine : BOOLEAN])
<1>. DEFINE M == [frame : Frames, mine : BOOLEAN]
<1>1. inbox \in Seq(M) /\ Len(inbox) \in Nat /\ DOMAIN inbox = 1..Len(inbox)
  BY LenProperties DEF TypeOK
<1>2. inbox' = [i \in 1..Len(inbox) |-> [inbox[i] EXCEPT !.mine = FALSE]]
  BY <1>1, Zenon DEF DropClient
<1>3. ASSUME NEW i \in 1..Len(inbox)
      PROVE  [inbox[i] EXCEPT !.mine = FALSE] \in M
  <2>1. inbox[i] \in M
    BY <1>1, ElementOfSeq
  <2>2. \A m \in M : [m EXCEPT !.mine = FALSE] \in M
    OBVIOUS
  <2>. QED
    BY <2>1, <2>2, Zenon
<1>4. inbox' \in Seq(M)
  BY <1>1, <1>2, <1>3, SeqDef
<1>. QED
  BY <1>4, NoReplyFacts DEF DropClient

-----------------------------------------------------------------------------
(* What a step keeps that leaves the variables of a part alone.            *)

LEMMA ServerStays ==
  ASSUME ServerOK, UNCHANGED node
  PROVE  ServerOK'
BY Zenon DEF ServerOK

LEMMA FramesStay ==
  ASSUME FramesOK, UNCHANGED <<stage, camera, taken>>
  PROVE  FramesOK'
BY Zenon DEF FramesOK

LEMMA UnansweredStays ==
  ASSUME UNCHANGED <<requests, task>>
  PROVE  Unanswered' = Unanswered
BY Zenon DEF Unanswered

LEMMA RequestsStay ==
  ASSUME RequestsOK, UNCHANGED <<client, requests, task, taken>>
  PROVE  RequestsOK'
BY UnansweredStays, Zenon DEF RequestsOK

LEMMA OrderStays ==
  ASSUME OrderOK, UNCHANGED <<requests, task>>
  PROVE  OrderOK'
BY Zenon DEF OrderOK

LEMMA ReplyStays ==
  ASSUME ReplyOK, UNCHANGED reply
  PROVE  ReplyOK'
BY Zenon DEF ReplyOK

LEMMA CallStays ==
  ASSUME CallOK, UNCHANGED <<stage, call, image, requests, task, response>>
  PROVE  CallOK'
<1>1. Located(response)' <=> Located(response)
  BY Zenon DEF Located
<1>. QED
  BY <1>1, UnansweredStays, Zenon DEF CallOK

\* Requests that end disturb none of those that wait.
LEMMA RequestsShrink ==
  ASSUME TypeOK, RequestsOK, CallOK, Unanswered' \subseteq Unanswered \cup {NoFrame},
         UNCHANGED <<stage, camera, taken>>, call' \in {call, "answered"}
  PROVE  RequestsOK'
BY UnansweredType, SMTT(60) DEF TypeOK, RequestsOK, CallOK

-----------------------------------------------------------------------------
(* The tree.                                                               *)

LEMMA CreateTreeInv ==
  ASSUME IInv, CreateTree
  PROVE  IInv'
<1>1. TypeOK'
  BY NoSceneIsScene, SMTT(60) DEF CreateTree, TypeOK
<1>2. ServerOK' /\ OrderOK' /\ ReplyOK'
  BY ServerStays, OrderStays, ReplyStays, Zenon DEF CreateTree
<1>3. FramesOK'
  BY SMTT(60) DEF CreateTree, FramesOK, TypeOK
<1>4. RequestsOK'
  BY UnansweredStays, UnansweredType, SMTT(60)
     DEF CreateTree, RequestsOK, TypeOK, FramesOK, CallOK
<1>5. CallOK'
  BY UnansweredStays, UnansweredType, SMTT(60)
     DEF CreateTree, CallOK, TypeOK, FramesOK, RequestsOK
<1>. QED
  BY <1>1, <1>2, <1>3, <1>4, <1>5, Zenon

LEMMA DestroyTreeInv ==
  ASSUME IInv, DestroyTree
  PROVE  IInv'
<1>1. TypeOK'
  BY NoSceneIsScene, SMTT(60) DEF DestroyTree, TypeOK
<1>2. ServerOK' /\ OrderOK' /\ ReplyOK'
  BY ServerStays, OrderStays, ReplyStays, Zenon DEF DestroyTree
<1>3. FramesOK'
  BY SMTT(60) DEF DestroyTree, FramesOK, TypeOK
<1>4. RequestsOK'
  BY UnansweredStays, UnansweredType, SMTT(60)
     DEF DestroyTree, RequestsOK, TypeOK, FramesOK, CallOK
<1>5. CallOK'
  BY UnansweredStays, UnansweredType, SMTT(60)
     DEF DestroyTree, CallOK, TypeOK, FramesOK, RequestsOK
<1>. QED
  BY <1>1, <1>2, <1>3, <1>4, <1>5, Zenon

LEMMA TakeFrameInv ==
  ASSUME IInv, TakeFrame
  PROVE  IInv'
<1>1. TypeOK'
  BY NoSceneIsScene, SMTT(60) DEF TakeFrame, TypeOK
<1>2. ServerOK' /\ OrderOK' /\ ReplyOK'
  BY ServerStays, OrderStays, ReplyStays, Zenon DEF TakeFrame
<1>3. FramesOK'
  BY SMTT(60) DEF TakeFrame, FramesOK, TypeOK
<1>4. RequestsOK'
  <2>1. /\ taken' = taken + 1 /\ queue' \in {NoFrame, taken + 1} /\ taken \in Nat
        /\ UNCHANGED <<stage, lastMsgs, image, call, requests, task>>
    BY SMTT(60) DEF TakeFrame, TypeOK
  <2>2. \A f \in Unanswered : f \in Nat
    BY UnansweredType
  <2>. QED
    BY <2>1, <2>2, UnansweredStays, SMTT(60) DEF RequestsOK
<1>5. CallOK'
  BY UnansweredStays, UnansweredType, SMTT(60)
     DEF TakeFrame, CallOK, TypeOK, FramesOK, RequestsOK
<1>. QED
  BY <1>1, <1>2, <1>3, <1>4, <1>5, Zenon

LEMMA ActivateInv ==
  ASSUME IInv, Activate
  PROVE  IInv'
<1>1. {expired, pipeline, publisher, service}' \subseteq BOOLEAN
  BY Zenon DEF Activate, TypeOK
<1>2. TypeOK'
  BY <1>1, NoSceneIsScene, SMTT(60) DEF Activate, TypeOK
<1>3. ServerOK' /\ OrderOK' /\ ReplyOK'
  BY ServerStays, OrderStays, ReplyStays, Zenon DEF Activate
<1>4. FramesOK'
  BY SMTT(60) DEF Activate, FramesOK, TypeOK
<1>5. RequestsOK'
  BY UnansweredStays, UnansweredType, SMTT(60)
     DEF Activate, RequestsOK, TypeOK, FramesOK, CallOK
<1>6. CallOK'
  BY UnansweredStays, UnansweredType, SMTT(60)
     DEF Activate, CallOK, TypeOK, FramesOK, RequestsOK
<1>. QED
  BY <1>1, <1>2, <1>3, <1>4, <1>5, <1>6, Zenon

LEMMA ExpireInv ==
  ASSUME IInv, Expire
  PROVE  IInv'
<1>1. TypeOK'
  BY NoSceneIsScene, SMTT(60) DEF Expire, TypeOK
<1>2. ServerOK' /\ OrderOK' /\ ReplyOK'
  BY ServerStays, OrderStays, ReplyStays, Zenon DEF Expire
<1>3. FramesOK'
  BY SMTT(60) DEF Expire, FramesOK, TypeOK
<1>4. RequestsOK'
  BY UnansweredStays, UnansweredType, SMTT(60)
     DEF Expire, RequestsOK, TypeOK, FramesOK, CallOK
<1>5. CallOK'
  BY UnansweredStays, UnansweredType, SMTT(60)
     DEF Expire, CallOK, TypeOK, FramesOK, RequestsOK
<1>. QED
  BY <1>1, <1>2, <1>3, <1>4, <1>5, Zenon

LEMMA CameraTimeoutInv ==
  ASSUME IInv, CameraTimeout
  PROVE  IInv'
<1>1. TypeOK'
  BY NoSceneIsScene, SMTT(60) DEF CameraTimeout, TypeOK
<1>2. ServerOK' /\ OrderOK' /\ ReplyOK'
  BY ServerStays, OrderStays, ReplyStays, Zenon DEF CameraTimeout
<1>3. FramesOK'
  BY SMTT(60) DEF CameraTimeout, FramesOK, TypeOK
<1>4. RequestsOK'
  BY UnansweredStays, UnansweredType, SMTT(60)
     DEF CameraTimeout, RequestsOK, TypeOK, FramesOK, CallOK
<1>5. CallOK'
  BY UnansweredStays, UnansweredType, SMTT(60)
     DEF CameraTimeout, CallOK, TypeOK, FramesOK, RequestsOK
<1>. QED
  BY <1>1, <1>2, <1>3, <1>4, <1>5, Zenon

LEMMA CameraSuccessInv ==
  ASSUME IInv, CameraSuccess
  PROVE  IInv'
<1>1. TypeOK'
  BY NoSceneIsScene, SMTT(60) DEF CameraSuccess, OnTick, TypeOK
<1>2. ServerOK' /\ OrderOK' /\ ReplyOK'
  BY ServerStays, OrderStays, ReplyStays, Zenon DEF CameraSuccess, OnTick
<1>3. FramesOK'
  BY SMTT(60) DEF CameraSuccess, OnTick, FramesOK, TypeOK
<1>4. RequestsOK'
  BY UnansweredStays, UnansweredType, SMTT(60)
     DEF CameraSuccess, OnTick, RequestsOK, TypeOK, FramesOK, CallOK
<1>5. CallOK'
  BY UnansweredStays, UnansweredType, SMTT(60)
     DEF CameraSuccess, OnTick, CallOK, TypeOK, FramesOK, RequestsOK
<1>. QED
  BY <1>1, <1>2, <1>3, <1>4, <1>5, Zenon

LEMMA CameraHaltInv ==
  ASSUME IInv, CameraHalt
  PROVE  IInv'
<1>1. TypeOK'
  BY NoSceneIsScene, SMTT(60) DEF CameraHalt, TypeOK
<1>2. ServerOK' /\ OrderOK' /\ ReplyOK'
  BY ServerStays, OrderStays, ReplyStays, Zenon DEF CameraHalt
<1>3. FramesOK'
  BY SMTT(60) DEF CameraHalt, FramesOK, TypeOK
<1>4. RequestsOK'
  BY UnansweredStays, UnansweredType, SMTT(60)
     DEF CameraHalt, RequestsOK, TypeOK, FramesOK, CallOK
<1>5. CallOK'
  BY UnansweredStays, UnansweredType, SMTT(60)
     DEF CameraHalt, CallOK, TypeOK, FramesOK, RequestsOK
<1>. QED
  BY <1>1, <1>2, <1>3, <1>4, <1>5, Zenon

LEMMA PredictInv ==
  ASSUME IInv, Predict
  PROVE  IInv'
<1>1. image \in Frames /\ requests \in Seq(Frames) /\ Len(requests) \in Nat
  BY LenProperties DEF Predict, TypeOK, CallOK
<1>2. CASE ~ServiceReady
  <2>1. UNCHANGED <<requests, task>>
    BY <1>2, Zenon DEF Predict
  <2>2. TypeOK'
    BY <2>1, SMTT(60) DEF Predict, TypeOK
  <2>3. ServerOK' /\ FramesOK' /\ ReplyOK' /\ OrderOK'
    BY <2>1, ServerStays, FramesStay, ReplyStays, OrderStays, Zenon DEF Predict
  <2>4. RequestsOK' /\ CallOK'
    BY <2>1, UnansweredStays, UnansweredType, SMTT(60)
       DEF Predict, TypeOK, RequestsOK, CallOK
  <2>. QED
    BY <2>2, <2>3, <2>4, Zenon
<1>3. CASE ServiceReady
  <2>1. requests' = Append(requests, image) /\ task' = task
    BY <1>3, Zenon DEF Predict
  <2>2. /\ requests' \in Seq(Frames) /\ Len(requests') = Len(requests) + 1
        /\ \A i \in 1..Len(requests) : requests'[i] = requests[i]
        /\ requests'[Len(requests) + 1] = image
    BY <1>1, <2>1, AppendProperties
  <2>3. TypeOK'
    BY <2>2, SMTT(60) DEF Predict, TypeOK
  <2>4. ServerOK' /\ FramesOK' /\ ReplyOK'
    BY ServerStays, FramesStay, ReplyStays, Zenon DEF Predict
  <2>5. Unanswered' \subseteq Unanswered \cup {image}
    BY <1>1, <2>1, <2>2, SMTT(60) DEF Unanswered
  <2>6. RequestsOK' /\ CallOK'
    BY <1>1, <2>5, UnansweredType, SMTT(60)
       DEF Predict, TypeOK, RequestsOK, FramesOK, CallOK
  <2>7. \A f \in Unanswered : f < image
    BY DEF RequestsOK, Predict
  <2>8. /\ task < image
        /\ \A i \in 1..Len(requests) : requests[i] < image
    BY <2>7, Zenon DEF Unanswered
  <2>9. OrderOK'
    <3>. DEFINE n == Len(requests)
    <3>1. \A i \in 1..Len(requests') : i \in 1..n \/ i = n + 1
      BY <1>1, <2>2
    <3>2. n \in Nat /\ n + 1 \notin 1..n /\ \A i \in 1..n : i < n + 1
      BY <1>1
    <3>3. \A i, j \in 1..n : i < j => requests'[i] < requests'[j]
      BY <2>2, Zenon DEF OrderOK
    <3>4. \A i \in 1..n : task' < requests'[i] /\ requests'[i] < requests'[n + 1]
      BY <2>1, <2>2, <2>8, Zenon DEF OrderOK
    <3>5. task' < requests'[n + 1]
      BY <2>1, <2>2, <2>8, Zenon
    <3>6. \A j \in 1..Len(requests') : ~(n + 1 < j)
      BY <3>1, <3>2
    <3>. HIDE DEF n
    <3>. QED
      BY <3>1, <3>3, <3>4, <3>5, <3>6, Zenon DEF OrderOK
  <2>. QED
    BY <2>3, <2>4, <2>6, <2>9, Zenon
<1>. QED
  BY <1>2, <1>3, Zenon

LEMMA PredictGivesUpInv ==
  ASSUME IInv, PredictGivesUp
  PROVE  IInv'
<1>1. TypeOK'
  BY NoSceneIsScene, SMTT(60) DEF PredictGivesUp, TypeOK
<1>2. ServerOK' /\ OrderOK' /\ ReplyOK'
  BY ServerStays, OrderStays, ReplyStays, Zenon DEF PredictGivesUp
<1>3. FramesOK'
  BY SMTT(60) DEF PredictGivesUp, FramesOK, TypeOK
<1>4. RequestsOK'
  BY UnansweredStays, UnansweredType, SMTT(60)
     DEF PredictGivesUp, RequestsOK, TypeOK, FramesOK, CallOK
<1>5. CallOK'
  BY UnansweredStays, UnansweredType, SMTT(60) DEF PredictGivesUp, CallOK, TypeOK
<1>. QED
  BY <1>1, <1>2, <1>3, <1>4, <1>5, Zenon

LEMMA PredictDoneInv ==
  ASSUME IInv, PredictDone
  PROVE  IInv'
<1>1. TypeOK'
  BY NoSceneIsScene, SMTT(60) DEF PredictDone, TypeOK
<1>2. ServerOK' /\ OrderOK' /\ ReplyOK'
  BY ServerStays, OrderStays, ReplyStays, Zenon DEF PredictDone
<1>3. FramesOK'
  BY SMTT(60) DEF PredictDone, FramesOK, TypeOK
<1>4. RequestsOK'
  BY UnansweredStays, UnansweredType, SMTT(60)
     DEF PredictDone, RequestsOK, TypeOK, FramesOK, CallOK
<1>5. CallOK'
  BY UnansweredStays, UnansweredType, SMTT(60) DEF PredictDone, CallOK, TypeOK
<1>. QED
  BY <1>1, <1>2, <1>3, <1>4, <1>5, Zenon

-----------------------------------------------------------------------------
(* The perception server and its lifecycle.                                *)

LEMMA ConfigureInv ==
  ASSUME IInv, Configure
  PROVE  IInv'
<1>1. TypeOK'
  <2>1. {pipeline, publisher}' \subseteq BOOLEAN /\ plugins' \in Loaded \cup {Null}
    BY Zenon DEF Configure, CleanupPipeline, Configured, TypeOK
  <2>2. reply' \in Replies /\ inbox' \in Seq([frame : Frames, mine : BOOLEAN])
    BY DropClientFacts, Zenon DEF Configure, CleanupPipeline, Configured, TypeOK
  <2>3. /\ proc' \in {"up", "crashed", "gone"}
        /\ lifecycle' \in {"unconfigured", "inactive", "active", "finalized"}
    BY Zenon DEF Configure, CleanupPipeline, Configured, TypeOK
  <2>. QED
    BY <2>1, <2>2, <2>3, SMTT(60) DEF Configure, TypeOK
<1>2. FramesOK' /\ RequestsOK' /\ OrderOK' /\ CallOK'
  BY FramesStay, RequestsStay, OrderStays, CallStays, Zenon
     DEF Configure, Configured, CleanupPipeline, DropClient
<1>3. ServerOK'
  BY SMTT(60) DEF Configure, Configured, CleanupPipeline, DropClient, ServerOK, TypeOK
<1>4. ReplyOK'
  BY NoReplyFacts, SMTT(60)
     DEF Configure, Configured, CleanupPipeline, DropClient, ReplyOK, TypeOK
<1>. QED
  BY <1>1, <1>2, <1>3, <1>4, Zenon

LEMMA OnActivateInv ==
  ASSUME IInv, OnActivate
  PROVE  IInv'
<1>1. TypeOK'
  BY SMTT(60) DEF OnActivate, TypeOK
<1>2. FramesOK' /\ RequestsOK' /\ OrderOK' /\ ReplyOK' /\ CallOK'
  BY FramesStay, RequestsStay, OrderStays, ReplyStays, CallStays, Zenon DEF OnActivate
<1>3. ServerOK'
  BY SMTT(60) DEF OnActivate, ServerOK, TypeOK
<1>. QED
  BY <1>1, <1>2, <1>3, Zenon

LEMMA OnDeactivateInv ==
  ASSUME IInv, OnDeactivate
  PROVE  IInv'
<1>1. {expired, pipeline, publisher, service}' \subseteq BOOLEAN
  BY Zenon DEF OnDeactivate, TypeOK
<1>2. TypeOK'
  BY <1>1, EmptySeq, SMTT(60) DEF OnDeactivate, TypeOK
<1>3. FramesOK' /\ ReplyOK'
  BY FramesStay, ReplyStays, Zenon DEF OnDeactivate
<1>4. ServerOK'
  BY SMTT(60) DEF OnDeactivate, ServerOK, TypeOK
<1>5. Unanswered' \subseteq Unanswered \cup {NoFrame}
  BY EmptySeq, SMTT(60) DEF OnDeactivate, TypeOK, Unanswered
<1>6. RequestsOK'
  BY <1>5, RequestsShrink, Zenon DEF OnDeactivate
<1>7. OrderOK'
  BY EmptySeq, SMTT(60) DEF OnDeactivate, OrderOK, TypeOK
<1>8. CallOK'
  BY EmptySeq, SMTT(60) DEF OnDeactivate, CallOK, TypeOK, Unanswered
<1>. QED
  BY <1>1, <1>2, <1>3, <1>4, <1>5, <1>6, <1>7, <1>8, Zenon

LEMMA OnCleanupInv ==
  ASSUME IInv, OnCleanup
  PROVE  IInv'
<1>1. TypeOK'
  <2>1. {pipeline, publisher}' \subseteq BOOLEAN /\ plugins' \in Loaded \cup {Null}
    BY Zenon DEF OnCleanup, CleanupPipeline, TypeOK
  <2>2. reply' \in Replies /\ inbox' \in Seq([frame : Frames, mine : BOOLEAN])
    BY DropClientFacts, Zenon DEF OnCleanup, CleanupPipeline, TypeOK
  <2>3. /\ proc' \in {"up", "crashed", "gone"}
        /\ lifecycle' \in {"unconfigured", "inactive", "active", "finalized"}
    BY Zenon DEF OnCleanup, CleanupPipeline, TypeOK
  <2>. QED
    BY <2>1, <2>2, <2>3, SMTT(60) DEF OnCleanup, TypeOK
<1>2. FramesOK' /\ RequestsOK' /\ OrderOK' /\ CallOK'
  BY FramesStay, RequestsStay, OrderStays, CallStays, Zenon
     DEF OnCleanup, CleanupPipeline, DropClient
<1>3. ServerOK'
  BY SMTT(60) DEF OnCleanup, CleanupPipeline, DropClient, ServerOK, TypeOK
<1>4. ReplyOK'
  BY NoReplyFacts, SMTT(60) DEF OnCleanup, CleanupPipeline, DropClient, ReplyOK, TypeOK
<1>. QED
  BY <1>1, <1>2, <1>3, <1>4, Zenon

LEMMA OnShutdownInv ==
  ASSUME IInv, OnShutdown
  PROVE  IInv'
<1>1. TypeOK'
  BY SMTT(60) DEF OnShutdown, TypeOK
<1>2. FramesOK' /\ RequestsOK' /\ OrderOK' /\ ReplyOK' /\ CallOK'
  BY FramesStay, RequestsStay, OrderStays, ReplyStays, CallStays, Zenon DEF OnShutdown
<1>3. ServerOK'
  BY SMTT(60) DEF OnShutdown, ServerOK, TypeOK
<1>. QED
  BY <1>1, <1>2, <1>3, Zenon

LEMMA DestroyInv ==
  ASSUME IInv, Destroy
  PROVE  IInv'
<1>1. TypeOK'
  <2>1. proc' \in {"crashed", "gone"}
    BY Zenon DEF Destroy
  <2>. QED
    BY <2>1, DropClientFacts, SMTT(60) DEF Destroy, TypeOK
<1>2. FramesOK' /\ RequestsOK' /\ OrderOK' /\ CallOK'
  BY FramesStay, RequestsStay, OrderStays, CallStays, Zenon DEF Destroy, DropClient
<1>3. ServerOK'
  BY SMTT(60) DEF Destroy, DropClient, ServerOK, TypeOK
<1>4. ReplyOK'
  BY NoReplyFacts, SMTT(60) DEF Destroy, DropClient, ReplyOK, TypeOK
<1>. QED
  BY <1>1, <1>2, <1>3, <1>4, Zenon

LEMMA ProcessInv ==
  ASSUME IInv, Process
  PROVE  IInv'
<1>1. /\ requests \in Seq(Frames) /\ requests # <<>> /\ Len(requests) \in Nat \ {0}
      /\ task = NoFrame
  BY EmptySeq DEF Process, TypeOK
<1>2. /\ requests' \in Seq(Frames) /\ Len(requests') = Len(requests) - 1
      /\ \A i \in 1..Len(requests') : requests'[i] = requests[i + 1]
  BY <1>1, HeadTailProperties DEF Process
<1>3. Head(requests) = requests[1] /\ requests[1] \in Frames
  BY <1>1, ElementOfSeq
<1>4. task' \in {NoFrame, requests[1]} /\ proc' \in {proc, "crashed"}
  BY <1>1, <1>3, Zenon DEF Process
<1>5. inbox' \in Seq([frame : Frames, mine : BOOLEAN])
  BY <1>3, InboxFacts, Zenon DEF Process, AskYolo, TypeOK
<1>6. TypeOK'
  BY <1>2, <1>3, <1>4, <1>5, SMTT(60) DEF Process, TypeOK
<1>7. FramesOK' /\ ReplyOK'
  BY FramesStay, ReplyStays, Zenon DEF Process
<1>8. ServerOK'
  BY <1>4, SMTT(60) DEF Process, ServerOK
<1>9. Unanswered' \subseteq Unanswered \cup {NoFrame}
  <2>1. \A i \in 1..Len(requests') : i + 1 \in 1..Len(requests)
    BY <1>1, <1>2
  <2>2. 1 \in 1..Len(requests)
    BY <1>1
  <2>. QED
    <3>1. \A i \in 1..Len(requests') : requests'[i] \in Unanswered
      BY <1>2, <2>1, Zenon DEF Unanswered
    <3>2. task' \in Unanswered \cup {NoFrame}
      BY <1>4, <2>2, Zenon DEF Unanswered
    <3>3. \A f \in Unanswered' : f = task' \/ \E i \in 1..Len(requests') : f = requests'[i]
      BY Zenon DEF Unanswered
    <3>. QED
      BY <3>1, <3>2, <3>3, Zenon
<1>10. RequestsOK'
  BY <1>9, RequestsShrink, Zenon DEF Process
<1>11. OrderOK'
  <2>1. ASSUME NEW i \in 1..Len(requests'), NEW j \in 1..Len(requests'), i < j
        PROVE  requests'[i] < requests'[j]
    <3>1. i + 1 \in 1..Len(requests) /\ j + 1 \in 1..Len(requests) /\ i + 1 < j + 1
      BY <1>1, <1>2, <2>1
    <3>. QED
      BY <1>2, <3>1, Zenon DEF OrderOK
  <2>2. ASSUME NEW i \in 1..Len(requests')
        PROVE  task' < requests'[i]
    <3>1. i + 1 \in 1..Len(requests) /\ 1 \in 1..Len(requests) /\ 1 < i + 1
      BY <1>1, <1>2
    <3>2. task < requests[i + 1] /\ requests[1] < requests[i + 1]
      BY <3>1, Zenon DEF OrderOK
    <3>. QED
      BY <1>1, <1>2, <1>4, <3>2, Zenon
  <2>. QED
    BY <2>1, <2>2, Zenon DEF OrderOK
<1>12. CallOK'
  <2>1. Unanswered # {NoFrame}
    <3>1. requests[1] # NoFrame /\ 1 \in 1..Len(requests)
      BY <1>1, <1>3
    <3>. QED
      BY <3>1, Zenon DEF Unanswered
  <2>. QED
    BY <2>1, SMTT(60) DEF Process, CallOK
<1>. QED
  BY <1>6, <1>7, <1>8, <1>10, <1>11, <1>12, Zenon

\* What every answer to a request does, whatever the response is.
LEMMA RespondFacts ==
  ASSUME IInv, NEW r \in Scenes, Respond(r), task # NoFrame,
         r # NoScene => r.frame = task /\ r.seen = task /\ Located(r),
         UNCHANGED <<stage, camera, requests, taken>>
  PROVE  RequestsOK' /\ OrderOK' /\ CallOK'
<1>1. task' = NoFrame /\ task \in Frames /\ requests \in Seq(Frames) /\ Len(requests) \in Nat
  BY LenProperties DEF Respond, TypeOK
<1>2. Unanswered' \subseteq Unanswered \cup {NoFrame}
  BY <1>1, SMTT(60) DEF Unanswered
<1>3. call' \in {call, "answered"}
  BY Zenon DEF Respond
<1>4. RequestsOK'
  BY <1>2, <1>3, RequestsShrink, Zenon
<1>5. OrderOK'
  BY <1>1, ElementOfSeq, SMTT(60) DEF OrderOK
<1>6. CASE call = "sent" /\ image = task
  <2>1. stage = "predict"
    BY <1>6, Zenon DEF CallOK
  <2>2. \A i \in 1..Len(requests) : requests[i] <= task /\ task < requests[i]
    BY <1>6, <2>1, Zenon DEF RequestsOK, OrderOK, Unanswered
  <2>3. \A i \in 1..Len(requests) : requests[i] \in Int
    BY <1>1, ElementOfSeq
  <2>4. 1..Len(requests) = {}
    BY <1>1, <2>2, <2>3
  <2>5. Unanswered' = {NoFrame}
    BY <1>1, <2>4, Zenon DEF Unanswered
  <2>6. Located(response)' <=> Located(r)
    BY Zenon DEF Respond, Located
  <2>. QED
    <3>1. response' = r /\ image' = task /\ stage' = "predict" /\ task # NoFrame
      BY <1>6, <2>1, Zenon DEF Respond
    <3>2. response' # NoScene
            => response'.frame = image' /\ response'.seen = image' /\ Located(response)'
      BY <2>6, <3>1, Zenon
    <3>3. /\ call' # "none" => stage' = "predict"
          /\ stage' = "predict" => image' # NoFrame
      BY <3>1
    <3>4. call' = "answered" =>
            /\ Unanswered' = {NoFrame}
            /\ response' # NoScene
                 => response'.frame = image' /\ response'.seen = image' /\ Located(response)'
      BY <2>5, <3>2, Zenon
    <3>. QED
      BY <1>4, <1>5, <3>3, <3>4, Zenon DEF CallOK
<1>7. CASE ~(call = "sent" /\ image = task)
  <2>1. call' = call
    BY <1>7, Zenon DEF Respond
  <2>2. call # "answered"
    BY Zenon DEF CallOK, Unanswered
  <2>. QED
    BY <1>4, <1>5, <2>1, <2>2, Zenon DEF CallOK
<1>. QED
  BY <1>4, <1>5, <1>6, <1>7, Zenon

LEMMA DetectTimeoutInv ==
  ASSUME IInv, DetectTimeout
  PROVE  IInv'
<1>1. RequestsOK' /\ OrderOK' /\ CallOK'
  BY NoSceneIsScene, RespondFacts, Zenon DEF DetectTimeout
<1>2. TypeOK'
  BY NoSceneIsScene, SMTT(60) DEF DetectTimeout, Respond, TypeOK
<1>3. ServerOK' /\ FramesOK' /\ ReplyOK'
  BY ServerStays, FramesStay, ReplyStays, Zenon DEF DetectTimeout
<1>. QED
  BY <1>1, <1>2, <1>3, Zenon

LEMMA DetectReplyInv ==
  ASSUME IInv, DetectReply
  PROVE  IInv'
<1>. DEFINE r == Scene(task, reply)
<1>1. task \in Frames /\ reply \in Replies /\ reply.seen = task
  BY SMTT(60) DEF DetectReply, TypeOK, ReplyOK
<1>2. r \in Scenes /\ r.frame = task /\ r.seen = task /\ Located(r)
  BY <1>1, SceneFacts
<1>. HIDE DEF r
<1>3. Respond(r)
  BY Zenon DEF DetectReply, r
<1>4. RequestsOK' /\ OrderOK' /\ CallOK'
  BY <1>1, <1>2, <1>3, RespondFacts, Zenon DEF DetectReply
<1>5. TypeOK'
  BY <1>2, <1>3, NoReplyFacts, SMTT(60) DEF DetectReply, Respond, TypeOK
<1>6. ServerOK' /\ FramesOK'
  BY ServerStays, FramesStay, Zenon DEF DetectReply
<1>7. ReplyOK'
  BY NoReplyFacts, Zenon DEF DetectReply, ReplyOK
<1>. QED
  BY <1>4, <1>5, <1>6, <1>7, Zenon

LEMMA DetectLateInv ==
  ASSUME IInv, DetectLate
  PROVE  IInv'
<1>1. TypeOK'
  BY NoReplyFacts, SMTT(60) DEF DetectLate, TypeOK
<1>2. ServerOK' /\ FramesOK' /\ RequestsOK' /\ OrderOK' /\ CallOK'
  BY ServerStays, FramesStay, RequestsStay, OrderStays, CallStays, Zenon DEF DetectLate
<1>3. ReplyOK'
  BY NoReplyFacts, SMTT(60) DEF DetectLate, ReplyOK, TypeOK
<1>. QED
  BY <1>1, <1>2, <1>3, Zenon

-----------------------------------------------------------------------------
(* YOLO.                                                                   *)

LEMMA YoloLoadsInv ==
  ASSUME IInv, YoloLoads
  PROVE  IInv'
<1>1. TypeOK'
  BY SMTT(60) DEF YoloLoads, TypeOK
<1>2. ServerOK' /\ FramesOK' /\ RequestsOK' /\ OrderOK' /\ ReplyOK' /\ CallOK'
  BY ServerStays, FramesStay, RequestsStay, OrderStays, ReplyStays, CallStays, Zenon
     DEF YoloLoads
<1>. QED
  BY <1>1, <1>2, Zenon

LEMMA YoloWarmsUpInv ==
  ASSUME IInv, YoloWarmsUp
  PROVE  IInv'
<1>1. TypeOK'
  BY SMTT(60) DEF YoloWarmsUp, TypeOK
<1>2. ServerOK' /\ FramesOK' /\ RequestsOK' /\ OrderOK' /\ ReplyOK' /\ CallOK'
  BY ServerStays, FramesStay, RequestsStay, OrderStays, ReplyStays, CallStays, Zenon
     DEF YoloWarmsUp
<1>. QED
  BY <1>1, <1>2, Zenon

LEMMA YoloAnswersInv ==
  ASSUME IInv, YoloAnswers
  PROVE  IInv'
<1>1. /\ Head(inbox).frame \in Frames
      /\ inbox' \in Seq([frame : Frames, mine : BOOLEAN])
  BY InboxFacts, Zenon DEF YoloAnswers
<1>2. \/ reply' = reply
      \/ \E failed \in BOOLEAN :
           reply' = [to |-> Head(inbox).frame, seen |-> Head(inbox).frame, failed |-> failed]
  BY Zenon DEF YoloAnswers
<1>3. reply' \in Replies /\ ReplyOK'
  BY <1>1, <1>2, SMTT(60) DEF ReplyOK, Replies, TypeOK
<1>4. TypeOK'
  BY <1>1, <1>3, SMTT(60) DEF YoloAnswers, TypeOK
<1>5. ServerOK' /\ FramesOK' /\ RequestsOK' /\ OrderOK' /\ CallOK'
  BY ServerStays, FramesStay, RequestsStay, OrderStays, CallStays, Zenon DEF YoloAnswers
<1>. QED
  BY <1>3, <1>4, <1>5, Zenon

LEMMA YoloDiesInv ==
  ASSUME IInv, YoloDies
  PROVE  IInv'
<1>1. TypeOK'
  BY SMTT(60) DEF YoloDies, TypeOK
<1>2. ServerOK' /\ FramesOK' /\ RequestsOK' /\ OrderOK' /\ ReplyOK' /\ CallOK'
  BY ServerStays, FramesStay, RequestsStay, OrderStays, ReplyStays, CallStays, Zenon
     DEF YoloDies
<1>. QED
  BY <1>1, <1>2, Zenon

-----------------------------------------------------------------------------
(* Every step, and the theorems.                                           *)
HIDE DEF IInv

LEMMA NextInv ==
  ASSUME IInv, [Next]_vars
  PROVE  IInv'
<1>1. CASE Next
  BY <1>1, CreateTreeInv, DestroyTreeInv, TakeFrameInv, ActivateInv, ExpireInv,
     CameraTimeoutInv, CameraSuccessInv, CameraHaltInv, PredictInv,
     PredictGivesUpInv, PredictDoneInv, ConfigureInv, OnActivateInv,
     OnDeactivateInv, OnCleanupInv, OnShutdownInv, DestroyInv, ProcessInv,
     DetectTimeoutInv, DetectReplyInv, DetectLateInv, YoloLoadsInv,
     YoloWarmsUpInv, YoloAnswersInv, YoloDiesInv,
     Zenon DEF Next, TreeWork, ClientWork, ServerWork
<1>2. CASE UNCHANGED vars
  <2>1. TypeOK'
    BY <1>2, Zenon DEF IInv, TypeOK, vars, client, camera, server, node, python, world
  <2>. QED
    BY <1>2, <2>1, ServerStays, FramesStay, RequestsStay, OrderStays, ReplyStays, CallStays,
       Zenon DEF IInv, vars, client, camera, server, node, python, world
<1>. QED
  BY <1>1, <1>2, Zenon

\* The invariant all the others follow from.
THEOREM Invariance == Spec => []IInv
BY InitInv, NextInv, PTL DEF Spec

\* Every variable of the tree, of the perception server and of the YOLO server keeps
\* its type; a scene has an object for every detection and nothing else.
THEOREM TypeCorrect == Spec => []TypeOK
<1>1. IInv => TypeOK
  BY Zenon DEF IInv
<1>. QED
  BY <1>1, Invariance, PTL

\* Whatever the order of transitions and requests, process() never uses what
\* cleanup() has reset.
THEOREM Serves == Spec => []ServesWithPlugins
<1>1. IInv => ServesWithPlugins
  <2>1. plugins \in Loaded => \A p \in Plugins : plugins[p] # "null"
    BY DEF Loaded, Grasps
  <2>. QED
    BY <2>1, Zenon DEF IInv, ServerOK, ServesWithPlugins
<1>. QED
  BY <1>1, Invariance, PTL

\* The camera node never gives older images than it gave before, nor any that newer
\* ones had replaced when it was activated.
THEOREM Frames_InOrder == Spec => FramesInOrder
<1>1. ASSUME IInv, [Next]_vars, stage = "camera", stage' = "predict"
      PROVE  image' > image /\ image' >= before
  <2>1. CameraSuccess
    BY <1>1, SMTT(60)
       DEF Next, TreeWork, ClientWork, ServerWork, vars, CreateTree, DestroyTree, TakeFrame,
           Activate, Expire, CameraTimeout, CameraHalt, Predict, PredictGivesUp, PredictDone,
           Configure, OnActivate, OnDeactivate, OnCleanup, OnShutdown, Destroy, Process,
           DetectTimeout, DetectReply, DetectLate, Respond, YoloLoads, YoloWarmsUp,
           YoloAnswers, YoloDies
  <2>2. image' = Spun /\ Spun # NoFrame
    BY <2>1, Zenon DEF CameraSuccess, OnTick
  <2>. QED
    BY <1>1, <2>2, SMTT(60) DEF IInv, TypeOK, FramesOK
<1>2. IInv /\ [Next]_vars
        => [stage = "camera" /\ stage' = "predict" => image' > image /\ image' >= before]_vars
  BY <1>1, Zenon
<1>. QED
  BY <1>2, Invariance, PTL DEF Spec, FramesInOrder

\* The tree takes over a scene only in PredictDone.
LEMMA SceneComesFromDone ==
  ASSUME [Next]_vars, scene' \notin {scene, NoScene}
  PROVE  PredictDone
BY Zenon DEF Next, TreeWork, ClientWork, ServerWork, vars, client, CreateTree, DestroyTree,
   TakeFrame, Activate, Expire, CameraTimeout, CameraSuccess, CameraHalt, Predict,
   PredictGivesUp, Configure, OnActivate, OnDeactivate, OnCleanup, OnShutdown, Destroy,
   Process, DetectTimeout, DetectReply, DetectLate, YoloLoads, YoloWarmsUp, YoloAnswers,
   YoloDies

\* The scene the tree gets was seen in the images it sent, whatever answers were late,
\* and every object with depth is where its own detection is.
THEOREM SceneOfItsFrame == Spec => SceneIsOfItsFrame
<1>1. ASSUME IInv, [Next]_vars, scene' \notin {scene, NoScene}
      PROVE  /\ scene'.frame = image /\ scene'.seen = image
             /\ \A i \in DOMAIN scene'.objects :
                  ComputeXyz(Sight[image][i])
                    => /\ scene'.objects[i].position = i
                       /\ scene'.objects[i].orientation \in {i, Fixed}
  <2>1. PredictDone
    BY <1>1, SceneComesFromDone, Zenon
  <2>2. call = "answered" /\ response # NoScene /\ scene' = response
    BY <1>1, <2>1, Zenon DEF PredictDone
  <2>3. response.frame = image /\ response.seen = image /\ Located(response)
    BY <1>1, <2>2, Zenon DEF IInv, CallOK
  <2>. QED
    BY <2>2, <2>3, Zenon DEF Located
<1>2. IInv /\ [Next]_vars
        => [scene' \notin {scene, NoScene}
              => /\ scene'.frame = image /\ scene'.seen = image
                 /\ \A i \in DOMAIN scene'.objects :
                      ComputeXyz(Sight[image][i])
                        => /\ scene'.objects[i].position = i
                           /\ scene'.objects[i].orientation \in {i, Fixed}]_vars
  BY <1>1, Zenon
<1>. QED
  BY <1>2, Invariance, PTL DEF Spec, SceneIsOfItsFrame
=============================================================================
