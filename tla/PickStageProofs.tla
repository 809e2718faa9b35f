--------------------------- MODULE PickStageProofs ---------------------------
(***************************************************************************)
(* Proofs, for any number of objects, goals and calls given up, of the     *)
(* safety properties of PickStage, and that it implements PickService.     *)
(***************************************************************************)
EXTENDS PickStage, FiniteSetTheorems, SequenceTheorems, TLAPS

\* What the tree nodes leave to one another: only a service node is in a call, an
\* outcome is one of a tree that has ended, and attempts are counted in the loop.
NodeOK ==
  /\ call # "no" => pc \in Services
  /\ outcome # "none" => pc = "idle"
  /\ pc \notin Loop => tries = 0
  /\ pc \in Loop => tries < total
  /\ pc \in {"transform", "clear", "update", "script"} \cup Loop
       => total = detected /\ total > 0

\* MoveHome has written a code before any other node is ticked, and the loop passes
\* RemoveObjectService only with an object.
CodeOK ==
  /\ pc \notin {"idle", "home"} => errorCode \in Codes
  /\ pc = "judge" \/ (pc = "remove" /\ call # "no") => objectName # NoObject

\* What the requests carry that are given up, and the response of the selection.
Requests == [srv : Services, arg : 0..MaxObjects \cup {NoObject}]

CallOK ==
  /\ \A r \in BagToSet(abandoned) :
       /\ r \in Requests
       /\ r.srv = "update" => r.arg # NoObject
       /\ r.srv = "remove" => r.arg \in Names
  /\ pc = "select" /\ call = "answered" => answer \in Names \cup {NoObject}

\* What is counted has been judged, and the counters agree.
CountOK == collected <= judged /\ IndexCountsJudgements

\* The histories of an attempt are those of this attempt once its selection was sent,
\* and from MoveToPick on error_code says how it ended.
AttemptOK ==
  /\ pc = "select" /\ call # "no" => ~selected /\ ~reached
  /\ pc = "pick" => selected /\ ~reached
  /\ pc \in {"remove", "judge"} /\ selected => (reached <=> errorCode = "SUCCESS")

\* When calls are answered in time and removals applied at once, none is given up,
\* every attempt is judged, and the objects left are those not yet judged.
TimelyOK ==
  timely =>
    /\ abandoned = EmptyBag
    /\ (pc = "clear" /\ call = "answered") \/ (pc = "update" /\ call # "answered")
         => Left = {}
    /\ (pc = "update" /\ call = "answered") \/ pc = "script" => Left = 1..total
    /\ pc \in Loop =>
         /\ tries = judged
         /\ Cardinality(Left) = total - judged - (IF Judging THEN 1 ELSE 0)
    /\ pc = "select" /\ call = "answered" => answer \in Left
    /\ pc = "pick" \/ (pc = "remove" /\ call # "answered") => objectName \in Left
    /\ Judging => objectName \notin Left

IInv ==
  /\ TypeOK
  /\ NodeOK
  /\ CodeOK
  /\ CallOK
  /\ CountOK
  /\ AttemptOK
  /\ SuccessJudgedAll
  /\ TimelyOK

-----------------------------------------------------------------------------
(* The words the definitions are written in, and the conjuncts of IInv.    *)
USE StageAssumption
USE DEF Codes, Before, Loop, Services, Moves, Names, Judging, control, board, world, budget,
        history
USE DEF IInv

-----------------------------------------------------------------------------
(* The planning scene, the removals on their way and the objects left.     *)

LEMMA LeftStays ==
  ASSUME UNCHANGED <<scene, posted>>
  PROVE  Left' = Left
BY Zenon DEF Left, Removed

LEMMA NothingRemoved ==
  ASSUME posted = <<>>
  PROVE  Removed = {} /\ Left = scene
BY DEF Left, Removed

LEMMA LeftFacts ==
  ASSUME TypeOK
  PROVE  Left \subseteq Names /\ IsFiniteSet(Left) /\ Cardinality(Left) \in Nat
<1>1. Left \subseteq Names
  BY DEF TypeOK, Left
<1>2. IsFiniteSet(Names)
  BY FS_Interval
<1>. QED
  BY <1>1, <1>2, FS_Subset, FS_CardinalityType

LEMMA LessOne ==
  ASSUME TypeOK, NEW o \in Left
  PROVE  Cardinality(Left \ {o}) = Cardinality(Left) - 1
BY LeftFacts, FS_RemoveElement

LEMMA PublishFacts ==
  ASSUME TypeOK, NEW N \in SUBSET Names, Publish(N)
  PROVE  /\ scene' = scene /\ posted' \in Seq(SUBSET Names)
         /\ Left' = Left \ N
<1>1. CASE N = {}
  BY <1>1, LeftStays DEF Publish, TypeOK
<1>2. CASE N # {}
  <2>1. posted' = Append(posted, N) /\ scene' = scene
    BY <1>2, Zenon DEF Publish
  <2>2. posted \in Seq(SUBSET Names)
    BY Zenon DEF TypeOK
  <2>. DEFINE n == Len(posted)
  <2>3. /\ posted' \in Seq(SUBSET Names) /\ Len(posted') = n + 1 /\ n \in Nat
        /\ \A i \in 1..n : posted'[i] = posted[i]
        /\ posted'[n + 1] = N
    BY <2>1, <2>2, AppendProperties, LenProperties
  <2>4. DOMAIN posted = 1..n /\ DOMAIN posted' = 1..(n + 1)
    BY <2>2, <2>3, LenProperties
  <2>5. \A i : i \in 1..(n + 1) <=> i \in 1..n \/ i = n + 1
    BY <2>3
  <2>. HIDE DEF n
  <2>6. Removed' = Removed \cup N
    BY <2>3, <2>4, <2>5, Zenon DEF Removed
  <2>. QED
    BY <2>1, <2>3, <2>6, Zenon DEF Left
<1>. QED
  BY <1>1, <1>2

LEMMA ApplyFacts ==
  ASSUME TypeOK, ApplyRemoval
  PROVE  /\ scene' \subseteq Names /\ posted' \in Seq(SUBSET Names)
         /\ Left' = Left
<1>1. posted \in Seq(SUBSET Names) /\ posted # <<>> /\ scene' = scene \ Head(posted)
  BY Zenon DEF TypeOK, ApplyRemoval
<1>. DEFINE n == Len(posted)
<1>2. /\ posted' \in Seq(SUBSET Names) /\ Len(posted') = n - 1 /\ n \in Nat \ {0}
      /\ \A i \in 1..Len(posted') : posted'[i] = posted[i + 1]
  BY <1>1, HeadTailProperties, EmptySeq DEF ApplyRemoval
<1>3. DOMAIN posted = 1..n /\ DOMAIN posted' = 1..(n - 1) /\ Head(posted) = posted[1]
  BY <1>1, <1>2, LenProperties
<1>4. /\ \A i \in 1..(n - 1) : i + 1 \in 1..n
      /\ \A i \in 1..n : i = 1 \/ \E j \in 1..(n - 1) : i = j + 1
      /\ 1 \in 1..n
  <2>1. \A i \in 1..n : i # 1 => i - 1 \in 1..(n - 1) /\ i = (i - 1) + 1
    BY <1>2
  <2>. QED
    BY <1>2, <2>1
<1>5. \A j \in 1..(n - 1) : posted'[j] = posted[j + 1]
  BY <1>2
<1>. HIDE DEF n
<1>6. Removed = Head(posted) \cup Removed'
  <2>1. ASSUME NEW o \in Removed
        PROVE  o \in Head(posted) \cup Removed'
    <3>1. PICK i \in 1..n : o \in posted[i]
      BY <1>3, Zenon DEF Removed
    <3>2. CASE i = 1
      BY <1>3, <3>1, <3>2, Zenon
    <3>3. ASSUME NEW j \in 1..(n - 1), i = j + 1
          PROVE  o \in Removed'
      BY <1>3, <1>5, <3>1, <3>3, Zenon DEF Removed
    <3>. QED
      BY <1>4, <3>2, <3>3, Zenon
  <2>2. ASSUME NEW o \in Removed'
        PROVE  o \in Removed
    <3>1. PICK j \in 1..(n - 1) : o \in posted'[j]
      BY <1>3, Zenon DEF Removed
    <3>. QED
      BY <1>3, <1>4, <1>5, <3>1, Zenon DEF Removed
  <2>3. Head(posted) \subseteq Removed
    BY <1>3, <1>4, Zenon DEF Removed
  <2>. QED
    BY <2>1, <2>2, <2>3, Zenon
<1>7. Left' = Left
  BY <1>1, <1>6, Zenon DEF Left
<1>8. scene \subseteq Names
  BY Zenon DEF TypeOK
<1>. QED
  BY <1>1, <1>2, <1>7, <1>8, Zenon

-----------------------------------------------------------------------------
(* The requests given up.                                                  *)

LEMMA BagFacts ==
  ASSUME NEW B, IsABag(B), NEW r
  PROVE  /\ IsABag(B (+) SetToBag({r})) /\ BagToSet(B (+) SetToBag({r})) = BagToSet(B) \cup {r}
         /\ IsABag(B (-) SetToBag({r})) /\ BagToSet(B (-) SetToBag({r})) \subseteq BagToSet(B)
<1>. DEFINE P == B (+) SetToBag({r})
            M == B (-) SetToBag({r})
<1>1. \A e \in DOMAIN B : B[e] \in Nat /\ B[e] > 0
  BY DEF IsABag
<1>2. P = [e \in DOMAIN B \cup {r} |->
             (IF e \in DOMAIN B THEN B[e] ELSE 0) + (IF e \in {r} THEN 1 ELSE 0)]
  BY DEF SetToBag, (+)
<1>3. IsABag(P) /\ BagToSet(P) = BagToSet(B) \cup {r}
  <2>. HIDE DEF P
  <2>1. DOMAIN P = DOMAIN B \cup {r} /\ P = [e \in DOMAIN P |-> P[e]]
    BY <1>2
  <2>2. ASSUME NEW e \in DOMAIN P
        PROVE  P[e] \in {n \in Nat : n > 0}
    <3>1. CASE e \in DOMAIN B
      BY <1>1, <1>2, <2>1, <3>1
    <3>2. CASE e \notin DOMAIN B
      BY <1>2, <2>1, <3>2
    <3>. QED
      BY <3>1, <3>2
  <2>. QED
    BY <2>1, <2>2 DEF IsABag, BagToSet
<1>. DEFINE D == [e \in DOMAIN B |-> IF e \in {r} THEN B[e] - 1 ELSE B[e]]
<1>4. M = [e \in {d \in DOMAIN D : D[d] > 0} |-> D[e]]
  BY DEF SetToBag, (-)
<1>5. \A e \in DOMAIN B : D[e] \in Int
  BY <1>1
<1>6. DOMAIN D = DOMAIN B
  OBVIOUS
<1>. HIDE DEF D, M
<1>7. IsABag(M) /\ BagToSet(M) \subseteq BagToSet(B)
  BY <1>4, <1>5, <1>6 DEF IsABag, BagToSet
<1>. QED
  BY <1>3, <1>7 DEF M

LEMMA RequestFacts ==
  ASSUME IInv, call # "no"
  PROVE  /\ Request \in Requests /\ Request.srv = pc
         /\ Request.srv = "update" => Request.arg # NoObject /\ Request.arg = detected
         /\ Request.srv = "remove" => Request.arg \in Names /\ Request.arg = objectName
BY SMTT(60) DEF Request, Requests, TypeOK, NodeOK, CodeOK

-----------------------------------------------------------------------------
(* How a failing node goes on.                                             *)

LEMMA NodeFailsFacts ==
  ASSUME NodeFails
  PROVE  /\ pc \in Before => TreeEnds("failure")
         /\ pc \in {"select", "pick"} => Goto("remove")
         /\ pc = "remove" => AttemptFails
BY Zenon DEF NodeFails

LEMMA InitInv == Init => IInv
<1>. SUFFICES ASSUME Init  PROVE IInv
  OBVIOUS
<1>1. {timely, actionTimeout, selected, reached} \subseteq BOOLEAN
  BY Zenon DEF Init
<1>2. IsABag(abandoned) /\ BagToSet(abandoned) = {}
  BY DEF Init, EmptyBag, SetToBag, IsABag, BagToSet
<1>3. TypeOK
  BY <1>1, <1>2, EmptySeq, SMTT(60) DEF Init, TypeOK
<1>. QED
  BY <1>2, <1>3, SMTT(60)
     DEF Init, NodeOK, CodeOK, CallOK, CountOK, IndexCountsJudgements, AttemptOK,
         SuccessJudgedAll, TimelyOK

-----------------------------------------------------------------------------
(* The tree and its action nodes.                                          *)

LEMMA StartTreeInv ==
  ASSUME IInv, StartTree
  PROVE  IInv'
<1>1. {timely, actionTimeout, selected, reached}' \subseteq BOOLEAN
  BY Zenon DEF StartTree, Leave, TypeOK
<1>2. TypeOK'
  BY <1>1, SMTT(60) DEF StartTree, Leave, TypeOK
<1>3. NodeOK' /\ CodeOK'
  BY SMTT(60) DEF StartTree, Leave, TypeOK, NodeOK, CodeOK, IndexCountsJudgements, CountOK
<1>4. CallOK'
  BY SMTT(60) DEF StartTree, Leave, TypeOK, NodeOK, CallOK
<1>5. CountOK' /\ SuccessJudgedAll'
  BY SMTT(60)
     DEF StartTree, Leave, TypeOK, NodeOK, CountOK, IndexCountsJudgements,
         SuccessJudgedAll
<1>6. AttemptOK'
  BY SMTT(60) DEF StartTree, Leave, TypeOK, NodeOK, AttemptOK
<1>7. TimelyOK'
  BY LeftStays, SMTT(60) DEF StartTree, Leave, TypeOK, NodeOK, TimelyOK
<1>. QED
  BY <1>2, <1>3, <1>4, <1>5, <1>6, <1>7, Zenon

LEMMA HaltTreeInv ==
  ASSUME IInv, HaltTree
  PROVE  IInv'
<1>1. {timely, actionTimeout, selected, reached}' \subseteq BOOLEAN
  BY Zenon DEF HaltTree, TreeEnds, Leave, TypeOK
<1>2. TypeOK'
  BY <1>1, SMTT(60) DEF HaltTree, TreeEnds, Leave, TypeOK
<1>3. NodeOK' /\ CodeOK'
  BY SMTT(60)
     DEF HaltTree, TreeEnds, Leave, TypeOK, NodeOK, CodeOK, IndexCountsJudgements, CountOK
<1>4. CallOK'
  BY SMTT(60) DEF HaltTree, TreeEnds, Leave, TypeOK, NodeOK, CallOK
<1>5. CountOK' /\ SuccessJudgedAll'
  BY SMTT(60)
     DEF HaltTree, TreeEnds, Leave, TypeOK, NodeOK, CountOK, IndexCountsJudgements,
         SuccessJudgedAll
<1>6. AttemptOK'
  BY SMTT(60) DEF HaltTree, TreeEnds, Leave, TypeOK, NodeOK, AttemptOK
<1>7. TimelyOK'
  BY LeftStays, SMTT(60) DEF HaltTree, TreeEnds, Leave, TypeOK, NodeOK, TimelyOK
<1>. QED
  BY <1>2, <1>3, <1>4, <1>5, <1>6, <1>7, Zenon

LEMMA MoveHomeRequestInv ==
  ASSUME IInv, MoveHomeRequest
  PROVE  IInv'
<1>1. {timely, actionTimeout, selected, reached}' \subseteq BOOLEAN
  BY Zenon DEF MoveHomeRequest, MoveRequest, TypeOK
<1>2. TypeOK'
  BY <1>1, SMTT(60) DEF MoveHomeRequest, MoveRequest, TypeOK
<1>3. NodeOK' /\ CodeOK'
  BY SMTT(60)
     DEF MoveHomeRequest, MoveRequest, TypeOK, NodeOK, CodeOK, IndexCountsJudgements,
         CountOK
<1>4. CallOK'
  BY SMTT(60) DEF MoveHomeRequest, MoveRequest, TypeOK, NodeOK, CallOK
<1>5. CountOK' /\ SuccessJudgedAll'
  BY SMTT(60)
     DEF MoveHomeRequest, MoveRequest, TypeOK, NodeOK, CountOK, IndexCountsJudgements,
         SuccessJudgedAll
<1>6. AttemptOK'
  BY SMTT(60) DEF MoveHomeRequest, MoveRequest, TypeOK, NodeOK, AttemptOK
<1>7. TimelyOK'
  BY LeftStays, SMTT(60) DEF MoveHomeRequest, MoveRequest, TypeOK, NodeOK, TimelyOK
<1>. QED
  BY <1>2, <1>3, <1>4, <1>5, <1>6, <1>7, Zenon

LEMMA MoveHomeSucceedsInv ==
  ASSUME IInv, MoveHomeSucceeds
  PROVE  IInv'
<1>1. {timely, actionTimeout, selected, reached}' \subseteq BOOLEAN
  BY Zenon DEF MoveHomeSucceeds, MoveSucceeds, Goto, Leave, TypeOK
<1>2. TypeOK'
  BY <1>1, SMTT(60) DEF MoveHomeSucceeds, MoveSucceeds, Goto, Leave, TypeOK
<1>3. NodeOK' /\ CodeOK'
  BY SMTT(60)
     DEF MoveHomeSucceeds, MoveSucceeds, Goto, Leave, TypeOK, NodeOK, CodeOK,
         IndexCountsJudgements, CountOK
<1>4. CallOK'
  BY SMTT(60) DEF MoveHomeSucceeds, MoveSucceeds, Goto, Leave, TypeOK, NodeOK, CallOK
<1>5. CountOK' /\ SuccessJudgedAll'
  BY SMTT(60)
     DEF MoveHomeSucceeds, MoveSucceeds, Goto, Leave, TypeOK, NodeOK, CountOK,
         IndexCountsJudgements, SuccessJudgedAll
<1>6. AttemptOK'
  BY SMTT(60) DEF MoveHomeSucceeds, MoveSucceeds, Goto, Leave, TypeOK, NodeOK, AttemptOK
<1>7. TimelyOK'
  BY LeftStays, SMTT(60)
     DEF MoveHomeSucceeds, MoveSucceeds, Goto, Leave, TypeOK, NodeOK, TimelyOK
<1>. QED
  BY <1>2, <1>3, <1>4, <1>5, <1>6, <1>7, Zenon

LEMMA MoveHomeFailsInv ==
  ASSUME IInv, MoveHomeFails
  PROVE  IInv'
<1>1. {timely, actionTimeout, selected, reached}' \subseteq BOOLEAN
  BY Zenon DEF MoveHomeFails, MoveFails, TreeEnds, Goto, Leave, AttemptFails, TypeOK
<1>2. TypeOK'
  BY <1>1, NodeFailsFacts, SMTT(60)
     DEF MoveHomeFails, MoveFails, TreeEnds, Goto, Leave, AttemptFails, TypeOK
<1>3. NodeOK' /\ CodeOK'
  BY NodeFailsFacts, SMTT(60)
     DEF MoveHomeFails, MoveFails, TreeEnds, Goto, Leave, AttemptFails, TypeOK, NodeOK,
         CodeOK, IndexCountsJudgements, CountOK
<1>4. CallOK'
  BY NodeFailsFacts, SMTT(60)
     DEF MoveHomeFails, MoveFails, TreeEnds, Goto, Leave, AttemptFails, TypeOK, NodeOK,
         CallOK
<1>5. CountOK' /\ SuccessJudgedAll'
  BY NodeFailsFacts, SMTT(60)
     DEF MoveHomeFails, MoveFails, TreeEnds, Goto, Leave, AttemptFails, TypeOK, NodeOK,
         CountOK, IndexCountsJudgements, SuccessJudgedAll
<1>6. AttemptOK'
  BY NodeFailsFacts, SMTT(60)
     DEF MoveHomeFails, MoveFails, TreeEnds, Goto, Leave, AttemptFails, TypeOK, NodeOK,
         AttemptOK
<1>7. TimelyOK'
  BY NodeFailsFacts, LeftStays, SMTT(60)
     DEF MoveHomeFails, MoveFails, TreeEnds, Goto, Leave, AttemptFails, TypeOK, NodeOK,
         TimelyOK
<1>. QED
  BY <1>2, <1>3, <1>4, <1>5, <1>6, <1>7, Zenon

LEMMA MoveHomeTimesOutInv ==
  ASSUME IInv, MoveHomeTimesOut
  PROVE  IInv'
<1>1. {timely, actionTimeout, selected, reached}' \subseteq BOOLEAN
  BY Zenon DEF MoveHomeTimesOut, MoveTimesOut, TreeEnds, Goto, Leave, AttemptFails, TypeOK
<1>2. TypeOK'
  BY <1>1, NodeFailsFacts, SMTT(60)
     DEF MoveHomeTimesOut, MoveTimesOut, TreeEnds, Goto, Leave, AttemptFails, TypeOK
<1>3. NodeOK' /\ CodeOK'
  BY NodeFailsFacts, SMTT(60)
     DEF MoveHomeTimesOut, MoveTimesOut, TreeEnds, Goto, Leave, AttemptFails, TypeOK,
         NodeOK, CodeOK, IndexCountsJudgements, CountOK
<1>4. CallOK'
  BY NodeFailsFacts, SMTT(60)
     DEF MoveHomeTimesOut, MoveTimesOut, TreeEnds, Goto, Leave, AttemptFails, TypeOK,
         NodeOK, CallOK
<1>5. CountOK' /\ SuccessJudgedAll'
  BY NodeFailsFacts, SMTT(60)
     DEF MoveHomeTimesOut, MoveTimesOut, TreeEnds, Goto, Leave, AttemptFails, TypeOK,
         NodeOK, CountOK, IndexCountsJudgements, SuccessJudgedAll
<1>6. AttemptOK'
  BY NodeFailsFacts, SMTT(60)
     DEF MoveHomeTimesOut, MoveTimesOut, TreeEnds, Goto, Leave, AttemptFails, TypeOK,
         NodeOK, AttemptOK
<1>7. TimelyOK'
  BY NodeFailsFacts, LeftStays, SMTT(60)
     DEF MoveHomeTimesOut, MoveTimesOut, TreeEnds, Goto, Leave, AttemptFails, TypeOK,
         NodeOK, TimelyOK
<1>. QED
  BY <1>2, <1>3, <1>4, <1>5, <1>6, <1>7, Zenon

LEMMA MoveGripperRequestInv ==
  ASSUME IInv, MoveGripperRequest
  PROVE  IInv'
<1>1. {timely, actionTimeout, selected, reached}' \subseteq BOOLEAN
  BY Zenon DEF MoveGripperRequest, MoveRequest, TypeOK
<1>2. TypeOK'
  BY <1>1, SMTT(60) DEF MoveGripperRequest, MoveRequest, TypeOK
<1>3. NodeOK' /\ CodeOK'
  BY SMTT(60)
     DEF MoveGripperRequest, MoveRequest, TypeOK, NodeOK, CodeOK, IndexCountsJudgements,
         CountOK
<1>4. CallOK'
  BY SMTT(60) DEF MoveGripperRequest, MoveRequest, TypeOK, NodeOK, CallOK
<1>5. CountOK' /\ SuccessJudgedAll'
  BY SMTT(60)
     DEF MoveGripperRequest, MoveRequest, TypeOK, NodeOK, CountOK, IndexCountsJudgements,
         SuccessJudgedAll
<1>6. AttemptOK'
  BY SMTT(60) DEF MoveGripperRequest, MoveRequest, TypeOK, NodeOK, AttemptOK
<1>7. TimelyOK'
  BY LeftStays, SMTT(60) DEF MoveGripperRequest, MoveRequest, TypeOK, NodeOK, TimelyOK
<1>. QED
  BY <1>2, <1>3, <1>4, <1>5, <1>6, <1>7, Zenon

LEMMA MoveGripperSucceedsInv ==
  ASSUME IInv, MoveGripperSucceeds
  PROVE  IInv'
<1>1. {timely, actionTimeout, selected, reached}' \subseteq BOOLEAN
  BY Zenon DEF MoveGripperSucceeds, MoveSucceeds, Goto, Leave, TypeOK
<1>2. TypeOK'
  BY <1>1, SMTT(60) DEF MoveGripperSucceeds, MoveSucceeds, Goto, Leave, TypeOK
<1>3. NodeOK' /\ CodeOK'
  BY SMTT(60)
     DEF MoveGripperSucceeds, MoveSucceeds, Goto, Leave, TypeOK, NodeOK, CodeOK,
         IndexCountsJudgements, CountOK
<1>4. CallOK'
  BY SMTT(60) DEF MoveGripperSucceeds, MoveSucceeds, Goto, Leave, TypeOK, NodeOK, CallOK
<1>5. CountOK' /\ SuccessJudgedAll'
  BY SMTT(60)
     DEF MoveGripperSucceeds, MoveSucceeds, Goto, Leave, TypeOK, NodeOK, CountOK,
         IndexCountsJudgements, SuccessJudgedAll
<1>6. AttemptOK'
  BY SMTT(60) DEF MoveGripperSucceeds, MoveSucceeds, Goto, Leave, TypeOK, NodeOK, AttemptOK
<1>7. TimelyOK'
  BY LeftStays, SMTT(60)
     DEF MoveGripperSucceeds, MoveSucceeds, Goto, Leave, TypeOK, NodeOK, TimelyOK
<1>. QED
  BY <1>2, <1>3, <1>4, <1>5, <1>6, <1>7, Zenon

LEMMA MoveGripperFailsInv ==
  ASSUME IInv, MoveGripperFails
  PROVE  IInv'
<1>1. {timely, actionTimeout, selected, reached}' \subseteq BOOLEAN
  BY Zenon DEF MoveGripperFails, MoveFails, TreeEnds, Goto, Leave, AttemptFails, TypeOK
<1>2. TypeOK'
  BY <1>1, NodeFailsFacts, SMTT(60)
     DEF MoveGripperFails, MoveFails, TreeEnds, Goto, Leave, AttemptFails, TypeOK
<1>3. NodeOK' /\ CodeOK'
  BY NodeFailsFacts, SMTT(60)
     DEF MoveGripperFails, MoveFails, TreeEnds, Goto, Leave, AttemptFails, TypeOK, NodeOK,
         CodeOK, IndexCountsJudgements, CountOK
<1>4. CallOK'
  BY NodeFailsFacts, SMTT(60)
     DEF MoveGripperFails, MoveFails, TreeEnds, Goto, Leave, AttemptFails, TypeOK, NodeOK,
         CallOK
<1>5. CountOK' /\ SuccessJudgedAll'
  BY NodeFailsFacts, SMTT(60)
     DEF MoveGripperFails, MoveFails, TreeEnds, Goto, Leave, AttemptFails, TypeOK, NodeOK,
         CountOK, IndexCountsJudgements, SuccessJudgedAll
<1>6. AttemptOK'
  BY NodeFailsFacts, SMTT(60)
     DEF MoveGripperFails, MoveFails, TreeEnds, Goto, Leave, AttemptFails, TypeOK, NodeOK,
         AttemptOK
<1>7. TimelyOK'
  BY NodeFailsFacts, LeftStays, SMTT(60)
     DEF MoveGripperFails, MoveFails, TreeEnds, Goto, Leave, AttemptFails, TypeOK, NodeOK,
         TimelyOK
<1>. QED
  BY <1>2, <1>3, <1>4, <1>5, <1>6, <1>7, Zenon

LEMMA MoveGripperTimesOutInv ==
  ASSUME IInv, MoveGripperTimesOut
  PROVE  IInv'
<1>1. {timely, actionTimeout, selected, reached}' \subseteq BOOLEAN
  BY Zenon
     DEF MoveGripperTimesOut, MoveTimesOut, TreeEnds, Goto, Leave, AttemptFails, TypeOK
<1>2. TypeOK'
  BY <1>1, NodeFailsFacts, SMTT(60)
     DEF MoveGripperTimesOut, MoveTimesOut, TreeEnds, Goto, Leave, AttemptFails, TypeOK
<1>3. NodeOK' /\ CodeOK'
  BY NodeFailsFacts, SMTT(60)
     DEF MoveGripperTimesOut, MoveTimesOut, TreeEnds, Goto, Leave, AttemptFails, TypeOK,
         NodeOK, CodeOK, IndexCountsJudgements, CountOK
<1>4. CallOK'
  BY NodeFailsFacts, SMTT(60)
     DEF MoveGripperTimesOut, MoveTimesOut, TreeEnds, Goto, Leave, AttemptFails, TypeOK,
         NodeOK, CallOK
<1>5. CountOK' /\ SuccessJudgedAll'
  BY NodeFailsFacts, SMTT(60)
     DEF MoveGripperTimesOut, MoveTimesOut, TreeEnds, Goto, Leave, AttemptFails, TypeOK,
         NodeOK, CountOK, IndexCountsJudgements, SuccessJudgedAll
<1>6. AttemptOK'
  BY NodeFailsFacts, SMTT(60)
     DEF MoveGripperTimesOut, MoveTimesOut, TreeEnds, Goto, Leave, AttemptFails, TypeOK,
         NodeOK, AttemptOK
<1>7. TimelyOK'
  BY NodeFailsFacts, LeftStays, SMTT(60)
     DEF MoveGripperTimesOut, MoveTimesOut, TreeEnds, Goto, Leave, AttemptFails, TypeOK,
         NodeOK, TimelyOK
<1>. QED
  BY <1>2, <1>3, <1>4, <1>5, <1>6, <1>7, Zenon

LEMMA MoveToPickRequestInv ==
  ASSUME IInv, MoveToPickRequest
  PROVE  IInv'
<1>1. {timely, actionTimeout, selected, reached}' \subseteq BOOLEAN
  BY Zenon DEF MoveToPickRequest, MoveRequest, TypeOK
<1>2. TypeOK'
  BY <1>1, SMTT(60) DEF MoveToPickRequest, MoveRequest, TypeOK
<1>3. NodeOK' /\ CodeOK'
  BY SMTT(60)
     DEF MoveToPickRequest, MoveRequest, TypeOK, NodeOK, CodeOK, IndexCountsJudgements,
         CountOK
<1>4. CallOK'
  BY SMTT(60) DEF MoveToPickRequest, MoveRequest, TypeOK, NodeOK, CallOK
<1>5. CountOK' /\ SuccessJudgedAll'
  BY SMTT(60)
     DEF MoveToPickRequest, MoveRequest, TypeOK, NodeOK, CountOK, IndexCountsJudgements,
         SuccessJudgedAll
<1>6. AttemptOK'
  BY SMTT(60) DEF MoveToPickRequest, MoveRequest, TypeOK, NodeOK, AttemptOK
<1>7. TimelyOK'
  BY LeftStays, SMTT(60) DEF MoveToPickRequest, MoveRequest, TypeOK, NodeOK, TimelyOK
<1>. QED
  BY <1>2, <1>3, <1>4, <1>5, <1>6, <1>7, Zenon

LEMMA MoveToPickSucceedsInv ==
  ASSUME IInv, MoveToPickSucceeds
  PROVE  IInv'
<1>1. {timely, actionTimeout, selected, reached}' \subseteq BOOLEAN
  BY Zenon DEF MoveToPickSucceeds, MoveSucceeds, Goto, Leave, TypeOK
<1>2. TypeOK'
  BY <1>1, SMTT(60) DEF MoveToPickSucceeds, MoveSucceeds, Goto, Leave, TypeOK
<1>3. NodeOK' /\ CodeOK'
  BY SMTT(60)
     DEF MoveToPickSucceeds, MoveSucceeds, Goto, Leave, TypeOK, NodeOK, CodeOK,
         IndexCountsJudgements, CountOK
<1>4. CallOK'
  BY SMTT(60) DEF MoveToPickSucceeds, MoveSucceeds, Goto, Leave, TypeOK, NodeOK, CallOK
<1>5. CountOK' /\ SuccessJudgedAll'
  BY SMTT(60)
     DEF MoveToPickSucceeds, MoveSucceeds, Goto, Leave, TypeOK, NodeOK, CountOK,
         IndexCountsJudgements, SuccessJudgedAll
<1>6. AttemptOK'
  <2>1. reached' /\ errorCode' = "SUCCESS" /\ pc' = "remove"
    BY Zenon DEF MoveToPickSucceeds, MoveSucceeds, Goto, Leave
  <2>2. pc' # "select" /\ pc' # "pick"
    BY <2>1
  <2>. QED
    BY <2>1, <2>2, Zenon DEF AttemptOK
<1>7. TimelyOK'
  BY LeftStays, SMTT(60)
     DEF MoveToPickSucceeds, MoveSucceeds, Goto, Leave, TypeOK, NodeOK, TimelyOK
<1>. QED
  BY <1>2, <1>3, <1>4, <1>5, <1>6, <1>7, Zenon

LEMMA MoveToPickFailsInv ==
  ASSUME IInv, MoveToPickFails
  PROVE  IInv'
<1>1. {timely, actionTimeout, selected, reached}' \subseteq BOOLEAN
  BY Zenon DEF MoveToPickFails, MoveFails, TreeEnds, Goto, Leave, AttemptFails, TypeOK
<1>2. TypeOK'
  BY <1>1, NodeFailsFacts, SMTT(60)
     DEF MoveToPickFails, MoveFails, TreeEnds, Goto, Leave, AttemptFails, TypeOK
<1>3. NodeOK' /\ CodeOK'
  BY NodeFailsFacts, SMTT(60)
     DEF MoveToPickFails, MoveFails, TreeEnds, Goto, Leave, AttemptFails, TypeOK, NodeOK,
         CodeOK, IndexCountsJudgements, CountOK
<1>4. CallOK'
  BY NodeFailsFacts, SMTT(60)
     DEF MoveToPickFails, MoveFails, TreeEnds, Goto, Leave, AttemptFails, TypeOK, NodeOK,
         CallOK
<1>5. CountOK' /\ SuccessJudgedAll'
  BY NodeFailsFacts, SMTT(60)
     DEF MoveToPickFails, MoveFails, TreeEnds, Goto, Leave, AttemptFails, TypeOK, NodeOK,
         CountOK, IndexCountsJudgements, SuccessJudgedAll
<1>6. AttemptOK'
  BY NodeFailsFacts, SMTT(60)
     DEF MoveToPickFails, MoveFails, TreeEnds, Goto, Leave, AttemptFails, TypeOK, NodeOK,
         AttemptOK
<1>7. TimelyOK'
  BY NodeFailsFacts, LeftStays, SMTT(60)
     DEF MoveToPickFails, MoveFails, TreeEnds, Goto, Leave, AttemptFails, TypeOK, NodeOK,
         TimelyOK
<1>. QED
  BY <1>2, <1>3, <1>4, <1>5, <1>6, <1>7, Zenon

LEMMA MoveToPickTimesOutInv ==
  ASSUME IInv, MoveToPickTimesOut
  PROVE  IInv'
<1>1. {timely, actionTimeout, selected, reached}' \subseteq BOOLEAN
  BY Zenon DEF MoveToPickTimesOut, MoveTimesOut, TreeEnds, Goto, Leave, AttemptFails, TypeOK
<1>2. TypeOK'
  BY <1>1, NodeFailsFacts, SMTT(60)
     DEF MoveToPickTimesOut, MoveTimesOut, TreeEnds, Goto, Leave, AttemptFails, TypeOK
<1>3. NodeOK' /\ CodeOK'
  BY NodeFailsFacts, SMTT(60)
     DEF MoveToPickTimesOut, MoveTimesOut, TreeEnds, Goto, Leave, AttemptFails, TypeOK,
         NodeOK, CodeOK, IndexCountsJudgements, CountOK
<1>4. CallOK'
  BY NodeFailsFacts, SMTT(60)
     DEF MoveToPickTimesOut, MoveTimesOut, TreeEnds, Goto, Leave, AttemptFails, TypeOK,
         NodeOK, CallOK
<1>5. CountOK' /\ SuccessJudgedAll'
  BY NodeFailsFacts, SMTT(60)
     DEF MoveToPickTimesOut, MoveTimesOut, TreeEnds, Goto, Leave, AttemptFails, TypeOK,
         NodeOK, CountOK, IndexCountsJudgements, SuccessJudgedAll
<1>6. AttemptOK'
  BY NodeFailsFacts, SMTT(60)
     DEF MoveToPickTimesOut, MoveTimesOut, TreeEnds, Goto, Leave, AttemptFails, TypeOK,
         NodeOK, AttemptOK
<1>7. TimelyOK'
  BY NodeFailsFacts, LeftStays, SMTT(60)
     DEF MoveToPickTimesOut, MoveTimesOut, TreeEnds, Goto, Leave, AttemptFails, TypeOK,
         NodeOK, TimelyOK
<1>. QED
  BY <1>2, <1>3, <1>4, <1>5, <1>6, <1>7, Zenon

-----------------------------------------------------------------------------
(* The service nodes and the servers.                                      *)

LEMMA SendInv ==
  ASSUME IInv, Send
  PROVE  IInv'
<1>1. {timely, actionTimeout, selected, reached}' \subseteq BOOLEAN
  BY Zenon DEF Send, TypeOK
<1>2. TypeOK'
  BY <1>1, SMTT(60) DEF Send, TypeOK
<1>3. NodeOK' /\ CodeOK'
  BY SMTT(60) DEF Send, TypeOK, NodeOK, CodeOK, IndexCountsJudgements, CountOK
<1>4. CallOK'
  BY SMTT(60) DEF Send, TypeOK, NodeOK, CallOK
<1>5. CountOK' /\ SuccessJudgedAll'
  BY SMTT(60) DEF Send, TypeOK, NodeOK, CountOK, IndexCountsJudgements, SuccessJudgedAll
<1>6. AttemptOK'
  BY SMTT(60) DEF Send, TypeOK, NodeOK, AttemptOK
<1>7. TimelyOK'
  BY LeftStays, SMTT(60) DEF Send, TypeOK, NodeOK, TimelyOK
<1>. QED
  BY <1>2, <1>3, <1>4, <1>5, <1>6, <1>7, Zenon

LEMMA NothingToSendInv ==
  ASSUME IInv, NothingToSend
  PROVE  IInv'
<1>1. {timely, actionTimeout, selected, reached}' \subseteq BOOLEAN
  BY Zenon DEF NothingToSend, TreeEnds, Goto, Leave, AttemptFails, TypeOK
<1>2. TypeOK'
  BY <1>1, NodeFailsFacts, SMTT(60)
     DEF NothingToSend, TreeEnds, Goto, Leave, AttemptFails, TypeOK
<1>3. NodeOK' /\ CodeOK'
  BY NodeFailsFacts, SMTT(60)
     DEF NothingToSend, TreeEnds, Goto, Leave, AttemptFails, TypeOK, NodeOK, CodeOK,
         IndexCountsJudgements, CountOK
<1>4. CallOK'
  BY NodeFailsFacts, SMTT(60)
     DEF NothingToSend, TreeEnds, Goto, Leave, AttemptFails, TypeOK, NodeOK, CallOK
<1>5. CountOK' /\ SuccessJudgedAll'
  BY NodeFailsFacts, SMTT(60)
     DEF NothingToSend, TreeEnds, Goto, Leave, AttemptFails, TypeOK, NodeOK, CountOK,
         IndexCountsJudgements, SuccessJudgedAll
<1>6. AttemptOK'
  BY NodeFailsFacts, SMTT(60)
     DEF NothingToSend, TreeEnds, Goto, Leave, AttemptFails, TypeOK, NodeOK, AttemptOK
<1>7. TimelyOK'
  <2>1. ~timely /\ ~timely'
    BY LeftFacts, SMTT(60) DEF NothingToSend, TypeOK, TimelyOK
  <2>. QED
    BY <2>1, Zenon DEF TimelyOK
<1>. QED
  BY <1>2, <1>3, <1>4, <1>5, <1>6, <1>7, Zenon

\* What a service answers is in its range, and what it leaves fits the scene.
LEMMA HandleFacts ==
  ASSUME TypeOK, NEW r \in Requests, NEW value, Handle(r, value),
         r.srv = "update" => r.arg # NoObject,
         r.srv = "remove" => r.arg \in Names
  PROVE  /\ scene' \subseteq Names /\ posted' \in Seq(SUBSET Names)
         /\ r.srv = "select" => value \in scene \/ (value = NoObject /\ scene = {})
         /\ r.srv \in {"select", "predict"} => Left' = Left
         /\ timely /\ r.srv = "clear" => Left' = {}
         /\ timely /\ r.srv = "update" => Left' = Left \cup 1..r.arg
         /\ r.srv = "remove" => Left' = Left \ {r.arg}
         /\ timely => Left = scene
<1>1. timely => posted = <<>> /\ Left = scene
  BY NothingRemoved, Zenon DEF Handle
<1>2. r.srv \in Services /\ scene \subseteq Names /\ posted \in Seq(SUBSET Names)
  BY DEF TypeOK, Requests
<1>3. CASE r.srv = "clear"
  <2>1. Publish(scene)
    BY <1>3, Zenon DEF Handle, ClearScene
  <2>2. /\ scene' = scene /\ posted' \in Seq(SUBSET Names)
        /\ Left' = Left \ scene
    BY <1>2, <2>1, PublishFacts
  <2>. QED
    BY <1>1, <1>2, <1>3, <2>2
<1>4. CASE r.srv = "update"
  <2>1. scene' = scene \cup 1..r.arg /\ posted' = posted /\ r.arg \in 0..MaxObjects
    BY <1>4 DEF Handle, UpdateScene, Requests
  <2>2. timely => Left' = scene'
    BY <1>1, <2>1 DEF Left, Removed
  <2>3. 1..r.arg \subseteq Names
    BY <2>1
  <2>. HIDE DEF Names
  <2>. QED
    BY <1>1, <1>2, <1>4, <2>1, <2>2, <2>3
<1>5. CASE r.srv = "remove"
  <2>1. Publish({r.arg}) /\ {r.arg} \in SUBSET Names
    BY <1>5, Zenon DEF Handle, RemoveObject
  <2>2. /\ scene' = scene /\ posted' \in Seq(SUBSET Names)
        /\ Left' = Left \ {r.arg}
    BY <2>1, PublishFacts
  <2>. QED
    BY <1>1, <1>2, <1>5, <2>2
<1>6. CASE r.srv \in {"select", "predict"}
  <2>1. /\ UNCHANGED <<scene, posted>>
        /\ r.srv = "select" => value \in (IF scene = {} THEN {NoObject} ELSE scene)
    BY <1>6, Zenon DEF Handle
  <2>. QED
    BY <1>1, <1>2, <1>6, <2>1, LeftStays
<1>. QED
  BY <1>2, <1>3, <1>4, <1>5, <1>6

LEMMA ServeInv ==
  ASSUME IInv, Serve
  PROVE  IInv'
<1>1. PICK value \in 0..MaxObjects \cup {NoObject} : Handle(Request, value) /\ answer' = value
  BY Zenon DEF Serve
<1>2. /\ call = "sent" /\ call' = "answered" /\ pc \in Services
      /\ UNCHANGED <<pc, moving, outcome, tries, board, abandoned, budget, history>>
  BY Zenon DEF Serve, NodeOK
<1>. DEFINE r == Request
<1>3. /\ r \in Requests /\ r.srv = pc
      /\ r.srv = "update" => r.arg # NoObject /\ r.arg = detected
      /\ r.srv = "remove" => r.arg \in Names /\ r.arg = objectName
  BY <1>2, RequestFacts
<1>. HIDE DEF r
<1>4. /\ scene' \subseteq Names /\ posted' \in Seq(SUBSET Names)
      /\ r.srv = "select" => value \in scene \/ (value = NoObject /\ scene = {})
      /\ r.srv \in {"select", "predict"} => Left' = Left
      /\ timely /\ r.srv = "clear" => Left' = {}
      /\ timely /\ r.srv = "update" => Left' = Left \cup 1..r.arg
      /\ r.srv = "remove" => Left' = Left \ {r.arg}
      /\ timely => Left = scene
  BY <1>1, <1>3, HandleFacts DEF r
<1>5. TypeOK'
  BY <1>1, <1>2, <1>4, SMTT(60) DEF TypeOK
<1>6. NodeOK' /\ CodeOK'
  BY <1>2, SMTT(60) DEF NodeOK, CodeOK
<1>7. CallOK'
  BY <1>1, <1>2, <1>3, <1>4, SMTT(60) DEF TypeOK, CallOK
<1>8. CountOK' /\ SuccessJudgedAll' /\ AttemptOK'
  BY <1>2, SMTT(60) DEF CountOK, IndexCountsJudgements, SuccessJudgedAll, AttemptOK
<1>9. TimelyOK'
  <2>1. SUFFICES ASSUME timely  PROVE TimelyOK'
    BY <1>2, Zenon DEF TimelyOK
  <2>2. Left \subseteq Names /\ Cardinality(Left) \in Nat
    BY LeftFacts
  <2>3. CASE pc \in {"clear", "update", "predict"}
    <3>1. pc = "clear" => Left' = {}
      BY <1>3, <1>4, <2>1, Zenon
    <3>2. pc = "update" => Left' = 1..total
      <4>1. pc = "update" => Left = {} /\ Left' = Left \cup 1..detected /\ total = detected
        BY <1>2, <1>3, <1>4, <2>1, Zenon DEF TimelyOK, NodeOK
      <4>2. \A X : {} \cup X = X
        OBVIOUS
      <4>. QED
        BY <4>1, <4>2, Zenon
    <3>. QED
      BY <1>2, <2>1, <2>3, <3>1, <3>2, SMTT(60) DEF TimelyOK
  <2>4. CASE pc = "select"
    <3>1. Cardinality(Left) > 0
      BY <1>2, <2>1, <2>2, <2>4, SMTT(60)
         DEF TimelyOK, TypeOK, CountOK, IndexCountsJudgements
    <3>2. Left # {}
      BY <3>1, FS_EmptySet
    <3>3. answer' \in Left' /\ Left' = Left
      BY <1>1, <1>3, <1>4, <2>1, <2>4, <3>2, Zenon
    <3>. QED
      BY <1>2, <2>1, <2>4, <3>3, SMTT(60) DEF TimelyOK
  <2>5. CASE pc = "remove"
    <3>1. objectName \in Left /\ Cardinality(Left) = total - judged
      BY <1>2, <2>1, <2>5, SMTT(60) DEF TimelyOK, TypeOK
    <3>2. Left' = Left \ {objectName}
      BY <1>3, <1>4, <2>5, Zenon
    <3>3. Cardinality(Left') = Cardinality(Left) - 1
      BY <3>1, <3>2, LessOne
    <3>. QED
      BY <1>2, <2>1, <2>5, <3>1, <3>2, <3>3, SMTT(60) DEF TimelyOK
  <2>. QED
    BY <1>2, <2>3, <2>4, <2>5
<1>. QED
  BY <1>5, <1>6, <1>7, <1>8, <1>9, Zenon

LEMMA ServeLateInv ==
  ASSUME IInv, ServeLate
  PROVE  IInv'
<1>1. PICK r \in BagToSet(abandoned) :
        /\ \E value \in 0..MaxObjects \cup {NoObject} : Handle(r, value)
        /\ abandoned' = abandoned (-) SetToBag({r})
  BY Zenon DEF ServeLate
<1>2. PICK value : Handle(r, value)
  BY <1>1, Zenon
<1>3. /\ r \in Requests
      /\ r.srv = "update" => r.arg # NoObject
      /\ r.srv = "remove" => r.arg \in Names
  BY <1>1, Zenon DEF CallOK
<1>4. scene' \subseteq Names /\ posted' \in Seq(SUBSET Names)
  BY <1>2, <1>3, HandleFacts
<1>5. IsABag(abandoned') /\ BagToSet(abandoned') \subseteq BagToSet(abandoned)
  BY <1>1, BagFacts DEF TypeOK
<1>6. ~timely
  <2>1. BagToSet(EmptyBag) = {}
    BY DEF BagToSet, EmptyBag, SetToBag
  <2>. QED
    BY <1>1, <2>1, Zenon DEF TimelyOK
<1>7. UNCHANGED <<control, board, budget, history>>
  BY Zenon DEF ServeLate
<1>8. TypeOK'
  BY <1>4, <1>5, <1>7, SMTT(60) DEF TypeOK
<1>9. NodeOK' /\ CodeOK' /\ CountOK' /\ SuccessJudgedAll' /\ AttemptOK'
  BY <1>7, SMTT(60)
     DEF NodeOK, CodeOK, CountOK, IndexCountsJudgements, SuccessJudgedAll, AttemptOK
<1>10. CallOK'
  BY <1>5, <1>7, SMTT(60) DEF CallOK
<1>11. TimelyOK'
  BY <1>6, <1>7, Zenon DEF TimelyOK
<1>. QED
  BY <1>8, <1>9, <1>10, <1>11, Zenon

LEMMA ApplyRemovalInv ==
  ASSUME IInv, ApplyRemoval
  PROVE  IInv'
<1>1. UNCHANGED <<control, board, abandoned, budget, history>>
  BY Zenon DEF ApplyRemoval
<1>2. TypeOK'
  BY <1>1, ApplyFacts, SMTT(60) DEF TypeOK
<1>3. NodeOK' /\ CodeOK' /\ CountOK' /\ SuccessJudgedAll' /\ AttemptOK' /\ CallOK'
  BY <1>1, SMTT(60)
     DEF NodeOK, CodeOK, CallOK, CountOK, IndexCountsJudgements, SuccessJudgedAll, AttemptOK
<1>4. TimelyOK'
  BY <1>1, ApplyFacts, SMTT(60) DEF TimelyOK
<1>. QED
  BY <1>2, <1>3, <1>4, Zenon

LEMMA GiveUpInv ==
  ASSUME IInv, GiveUp
  PROVE  IInv'
<1>1. /\ ~timely /\ ~timely' /\ timeouts' \in 0..MaxTimeouts /\ NodeFails /\ pc \in Services
      /\ UNCHANGED <<board, scene, posted, goalsLeft, timely, actionTimeout, history>>
  BY SMTT(60) DEF GiveUp, TypeOK, NodeOK
<1>2. call # "no" /\ abandoned' \in {abandoned, abandoned (+) SetToBag({Request})}
  BY Zenon DEF GiveUp
<1>3. IsABag(abandoned') /\ BagToSet(abandoned') \subseteq BagToSet(abandoned) \cup {Request}
  <2>1. IsABag(abandoned)
    BY Zenon DEF TypeOK
  <2>2. /\ IsABag(abandoned (+) SetToBag({Request}))
        /\ BagToSet(abandoned (+) SetToBag({Request})) = BagToSet(abandoned) \cup {Request}
    BY <2>1, BagFacts
  <2>. QED
    BY <1>2, <2>1, <2>2, Zenon
<1>4. \A r \in BagToSet(abandoned') :
        /\ r \in Requests
        /\ r.srv = "update" => r.arg # NoObject
        /\ r.srv = "remove" => r.arg \in Names
  BY <1>2, <1>3, RequestFacts, Zenon DEF CallOK
<1>5. \A r \in BagToSet(abandoned') : r.srv \in Services
  BY <1>4 DEF Requests
<1>6. TypeOK'
  BY <1>1, <1>3, <1>5, NodeFailsFacts, SMTT(60)
     DEF TypeOK, NodeOK, TreeEnds, Goto, Leave, AttemptFails
<1>7. NodeOK' /\ CodeOK'
  BY <1>1, NodeFailsFacts, SMTT(60)
     DEF TypeOK, NodeOK, CodeOK, IndexCountsJudgements, CountOK, TreeEnds, Goto, Leave, AttemptFails
<1>8. CallOK'
  BY <1>1, <1>4, NodeFailsFacts, SMTT(60) DEF CallOK, TreeEnds, Goto, Leave, AttemptFails
<1>9. CountOK' /\ SuccessJudgedAll'
  BY <1>1, NodeFailsFacts, SMTT(60)
     DEF TypeOK, NodeOK, CountOK, IndexCountsJudgements, SuccessJudgedAll, TreeEnds, Goto, Leave,
         AttemptFails
<1>10. AttemptOK'
  BY <1>1, <1>2, NodeFailsFacts, SMTT(60)
     DEF TypeOK, NodeOK, AttemptOK, TreeEnds, Goto, Leave, AttemptFails
<1>11. TimelyOK'
  BY <1>1, Zenon DEF TimelyOK
<1>. QED
  BY <1>6, <1>7, <1>8, <1>9, <1>10, <1>11, Zenon

LEMMA ReceivePredictionInv ==
  ASSUME IInv, ReceivePrediction
  PROVE  IInv'
<1>1. {timely, actionTimeout, selected, reached}' \subseteq BOOLEAN
  BY Zenon DEF ReceivePrediction, TreeEnds, Goto, Leave, AttemptFails, TypeOK
<1>2. TypeOK'
  BY <1>1, NodeFailsFacts, SMTT(60)
     DEF ReceivePrediction, TreeEnds, Goto, Leave, AttemptFails, TypeOK
<1>3. NodeOK' /\ CodeOK'
  BY NodeFailsFacts, SMTT(60)
     DEF ReceivePrediction, TreeEnds, Goto, Leave, AttemptFails, TypeOK, NodeOK, CodeOK,
         IndexCountsJudgements, CountOK
<1>4. CallOK'
  BY NodeFailsFacts, SMTT(60)
     DEF ReceivePrediction, TreeEnds, Goto, Leave, AttemptFails, TypeOK, NodeOK, CallOK
<1>5. CountOK' /\ SuccessJudgedAll'
  BY NodeFailsFacts, SMTT(60)
     DEF ReceivePrediction, TreeEnds, Goto, Leave, AttemptFails, TypeOK, NodeOK, CountOK,
         IndexCountsJudgements, SuccessJudgedAll
<1>6. AttemptOK'
  BY NodeFailsFacts, SMTT(60)
     DEF ReceivePrediction, TreeEnds, Goto, Leave, AttemptFails, TypeOK, NodeOK, AttemptOK
<1>7. TimelyOK'
  BY NodeFailsFacts, LeftStays, SMTT(60)
     DEF ReceivePrediction, TreeEnds, Goto, Leave, AttemptFails, TypeOK, NodeOK, TimelyOK
<1>. QED
  BY <1>2, <1>3, <1>4, <1>5, <1>6, <1>7, Zenon

LEMMA ReceiveSceneReadyInv ==
  ASSUME IInv, ReceiveSceneReady
  PROVE  IInv'
<1>1. {timely, actionTimeout, selected, reached}' \subseteq BOOLEAN
  BY Zenon DEF ReceiveSceneReady, Goto, Leave, TypeOK
<1>2. TypeOK'
  BY <1>1, SMTT(60) DEF ReceiveSceneReady, Goto, Leave, TypeOK
<1>3. NodeOK' /\ CodeOK'
  BY SMTT(60)
     DEF ReceiveSceneReady, Goto, Leave, TypeOK, NodeOK, CodeOK, IndexCountsJudgements,
         CountOK
<1>4. CallOK'
  BY SMTT(60) DEF ReceiveSceneReady, Goto, Leave, TypeOK, NodeOK, CallOK
<1>5. CountOK' /\ SuccessJudgedAll'
  BY SMTT(60)
     DEF ReceiveSceneReady, Goto, Leave, TypeOK, NodeOK, CountOK, IndexCountsJudgements,
         SuccessJudgedAll
<1>6. AttemptOK'
  BY SMTT(60) DEF ReceiveSceneReady, Goto, Leave, TypeOK, NodeOK, AttemptOK
<1>7. TimelyOK'
  BY LeftStays, SMTT(60) DEF ReceiveSceneReady, Goto, Leave, TypeOK, NodeOK, TimelyOK
<1>. QED
  BY <1>2, <1>3, <1>4, <1>5, <1>6, <1>7, Zenon

LEMMA ReceiveSelectionInv ==
  ASSUME IInv, ReceiveSelection
  PROVE  IInv'
<1>1. {timely, actionTimeout, selected, reached}' \subseteq BOOLEAN
  BY Zenon DEF ReceiveSelection, TreeEnds, Goto, Leave, AttemptFails, TypeOK
<1>2. TypeOK'
  BY <1>1, NodeFailsFacts, SMTT(60)
     DEF ReceiveSelection, TreeEnds, Goto, Leave, AttemptFails, NodeOK, CallOK, TypeOK
<1>3. NodeOK' /\ CodeOK'
  BY NodeFailsFacts, SMTT(60)
     DEF ReceiveSelection, TreeEnds, Goto, Leave, AttemptFails, TypeOK, NodeOK, CodeOK,
         IndexCountsJudgements, CountOK
<1>4. CallOK'
  BY NodeFailsFacts, SMTT(60)
     DEF ReceiveSelection, TreeEnds, Goto, Leave, AttemptFails, TypeOK, NodeOK, CallOK
<1>5. CountOK' /\ SuccessJudgedAll'
  BY NodeFailsFacts, SMTT(60)
     DEF ReceiveSelection, TreeEnds, Goto, Leave, AttemptFails, TypeOK, NodeOK, CountOK,
         IndexCountsJudgements, SuccessJudgedAll
<1>6. AttemptOK'
  BY NodeFailsFacts, SMTT(60)
     DEF ReceiveSelection, TreeEnds, Goto, Leave, AttemptFails, TypeOK, NodeOK, AttemptOK
<1>7. TimelyOK'
  <2>1. SUFFICES ASSUME timely  PROVE TimelyOK'
    BY Zenon DEF ReceiveSelection, TimelyOK
  <2>2. answer \in Left /\ answer # NoObject /\ Left' = Left
    BY <2>1, LeftFacts, LeftStays, SMTT(60) DEF ReceiveSelection, TimelyOK
  <2>3. pc' = "pick" /\ objectName' = answer /\ call' = "no" /\ tries' = tries
    BY <2>2, Zenon DEF ReceiveSelection, Goto, Leave
  <2>. QED
    BY <2>1, <2>2, <2>3, SMTT(60) DEF ReceiveSelection, TimelyOK
<1>. QED
  BY <1>2, <1>3, <1>4, <1>5, <1>6, <1>7, Zenon

LEMMA ReceiveRemovedInv ==
  ASSUME IInv, ReceiveRemoved
  PROVE  IInv'
<1>1. {timely, actionTimeout, selected, reached}' \subseteq BOOLEAN
  BY Zenon DEF ReceiveRemoved, Goto, Leave, TypeOK
<1>2. TypeOK'
  BY <1>1, SMTT(60) DEF ReceiveRemoved, Goto, Leave, TypeOK
<1>3. NodeOK' /\ CodeOK'
  BY SMTT(60)
     DEF ReceiveRemoved, Goto, Leave, TypeOK, NodeOK, CodeOK, IndexCountsJudgements,
         CountOK
<1>4. CallOK'
  BY SMTT(60) DEF ReceiveRemoved, Goto, Leave, TypeOK, NodeOK, CallOK
<1>5. CountOK' /\ SuccessJudgedAll'
  BY SMTT(60)
     DEF ReceiveRemoved, Goto, Leave, TypeOK, NodeOK, CountOK, IndexCountsJudgements,
         SuccessJudgedAll
<1>6. AttemptOK'
  BY SMTT(60) DEF ReceiveRemoved, Goto, Leave, TypeOK, NodeOK, AttemptOK
<1>7. TimelyOK'
  BY LeftStays, SMTT(60) DEF ReceiveRemoved, Goto, Leave, TypeOK, NodeOK, TimelyOK
<1>. QED
  BY <1>2, <1>3, <1>4, <1>5, <1>6, <1>7, Zenon

-----------------------------------------------------------------------------
(* The other nodes.                                                        *)

LEMMA CameraInv ==
  ASSUME IInv, Camera
  PROVE  IInv'
<1>1. {timely, actionTimeout, selected, reached}' \subseteq BOOLEAN
  BY Zenon DEF Camera, TreeEnds, Goto, Leave, AttemptFails, TypeOK
<1>2. TypeOK'
  BY <1>1, NodeFailsFacts, SMTT(60) DEF Camera, TreeEnds, Goto, Leave, AttemptFails, TypeOK
<1>3. NodeOK' /\ CodeOK'
  BY NodeFailsFacts, SMTT(60)
     DEF Camera, TreeEnds, Goto, Leave, AttemptFails, TypeOK, NodeOK, CodeOK,
         IndexCountsJudgements, CountOK
<1>4. CallOK'
  BY NodeFailsFacts, SMTT(60)
     DEF Camera, TreeEnds, Goto, Leave, AttemptFails, TypeOK, NodeOK, CallOK
<1>5. CountOK' /\ SuccessJudgedAll'
  BY NodeFailsFacts, SMTT(60)
     DEF Camera, TreeEnds, Goto, Leave, AttemptFails, TypeOK, NodeOK, CountOK,
         IndexCountsJudgements, SuccessJudgedAll
<1>6. AttemptOK'
  BY NodeFailsFacts, SMTT(60)
     DEF Camera, TreeEnds, Goto, Leave, AttemptFails, TypeOK, NodeOK, AttemptOK
<1>7. TimelyOK'
  BY NodeFailsFacts, LeftStays, SMTT(60)
     DEF Camera, TreeEnds, Goto, Leave, AttemptFails, TypeOK, NodeOK, TimelyOK
<1>. QED
  BY <1>2, <1>3, <1>4, <1>5, <1>6, <1>7, Zenon

LEMMA ObjectsFoundInv ==
  ASSUME IInv, ObjectsFound
  PROVE  IInv'
<1>1. {timely, actionTimeout, selected, reached}' \subseteq BOOLEAN
  BY Zenon DEF ObjectsFound, TreeEnds, Goto, Leave, AttemptFails, TypeOK
<1>2. TypeOK'
  BY <1>1, NodeFailsFacts, SMTT(60)
     DEF ObjectsFound, TreeEnds, Goto, Leave, AttemptFails, TypeOK
<1>3. NodeOK' /\ CodeOK'
  BY NodeFailsFacts, SMTT(60)
     DEF ObjectsFound, TreeEnds, Goto, Leave, AttemptFails, TypeOK, NodeOK, CodeOK,
         IndexCountsJudgements, CountOK
<1>4. CallOK'
  BY NodeFailsFacts, SMTT(60)
     DEF ObjectsFound, TreeEnds, Goto, Leave, AttemptFails, TypeOK, NodeOK, CallOK
<1>5. CountOK' /\ SuccessJudgedAll'
  BY NodeFailsFacts, SMTT(60)
     DEF ObjectsFound, TreeEnds, Goto, Leave, AttemptFails, TypeOK, NodeOK, CountOK,
         IndexCountsJudgements, SuccessJudgedAll
<1>6. AttemptOK'
  BY NodeFailsFacts, SMTT(60)
     DEF ObjectsFound, TreeEnds, Goto, Leave, AttemptFails, TypeOK, NodeOK, AttemptOK
<1>7. TimelyOK'
  BY NodeFailsFacts, LeftStays, SMTT(60)
     DEF ObjectsFound, TreeEnds, Goto, Leave, AttemptFails, TypeOK, NodeOK, TimelyOK
<1>. QED
  BY <1>2, <1>3, <1>4, <1>5, <1>6, <1>7, Zenon

LEMMA TransformInv ==
  ASSUME IInv, Transform
  PROVE  IInv'
<1>1. {timely, actionTimeout, selected, reached}' \subseteq BOOLEAN
  BY Zenon DEF Transform, TreeEnds, Goto, Leave, AttemptFails, TypeOK
<1>2. TypeOK'
  BY <1>1, NodeFailsFacts, SMTT(60)
     DEF Transform, TreeEnds, Goto, Leave, AttemptFails, TypeOK
<1>3. NodeOK' /\ CodeOK'
  BY NodeFailsFacts, SMTT(60)
     DEF Transform, TreeEnds, Goto, Leave, AttemptFails, TypeOK, NodeOK, CodeOK,
         IndexCountsJudgements, CountOK
<1>4. CallOK'
  BY NodeFailsFacts, SMTT(60)
     DEF Transform, TreeEnds, Goto, Leave, AttemptFails, TypeOK, NodeOK, CallOK
<1>5. CountOK' /\ SuccessJudgedAll'
  BY NodeFailsFacts, SMTT(60)
     DEF Transform, TreeEnds, Goto, Leave, AttemptFails, TypeOK, NodeOK, CountOK,
         IndexCountsJudgements, SuccessJudgedAll
<1>6. AttemptOK'
  BY NodeFailsFacts, SMTT(60)
     DEF Transform, TreeEnds, Goto, Leave, AttemptFails, TypeOK, NodeOK, AttemptOK
<1>7. TimelyOK'
  BY NodeFailsFacts, LeftStays, SMTT(60)
     DEF Transform, TreeEnds, Goto, Leave, AttemptFails, TypeOK, NodeOK, TimelyOK
<1>. QED
  BY <1>2, <1>3, <1>4, <1>5, <1>6, <1>7, Zenon

LEMMA ScriptsInv ==
  ASSUME IInv, Scripts
  PROVE  IInv'
<1>1. {timely, actionTimeout, selected, reached}' \subseteq BOOLEAN
  BY Zenon DEF Scripts, Goto, Leave, TypeOK
<1>2. TypeOK'
  BY <1>1, SMTT(60) DEF Scripts, Goto, Leave, TypeOK
<1>3. NodeOK' /\ CodeOK'
  BY SMTT(60)
     DEF Scripts, Goto, Leave, TypeOK, NodeOK, CodeOK, IndexCountsJudgements, CountOK
<1>4. CallOK'
  BY SMTT(60) DEF Scripts, Goto, Leave, TypeOK, NodeOK, CallOK
<1>5. CountOK' /\ SuccessJudgedAll'
  BY SMTT(60)
     DEF Scripts, Goto, Leave, TypeOK, NodeOK, CountOK, IndexCountsJudgements,
         SuccessJudgedAll
<1>6. AttemptOK'
  BY SMTT(60) DEF Scripts, Goto, Leave, TypeOK, NodeOK, AttemptOK
<1>7. TimelyOK'
  <2>1. SUFFICES ASSUME timely  PROVE TimelyOK'
    BY Zenon DEF Scripts, TimelyOK
  <2>2. Left' = 1..total /\ total \in Nat
    BY <2>1, LeftStays, SMTT(60) DEF Scripts, TypeOK, TimelyOK
  <2>3. Cardinality(Left') = total
    BY <2>2, FS_Interval
  <2>4. pc' = "select" /\ tries' = 0 /\ judged' = 0 /\ call' = "no" /\ total' = total
    BY SMTT(60) DEF Scripts, Goto, Leave, NodeOK
  <2>. QED
    BY <2>1, <2>2, <2>3, <2>4, SMTT(60) DEF Scripts, TimelyOK
<1>. QED
  BY <1>2, <1>3, <1>4, <1>5, <1>6, <1>7, Zenon

LEMMA CheckErrorIdsInv ==
  ASSUME IInv, CheckErrorIds
  PROVE  IInv'
<1>1. {timely, actionTimeout, selected, reached}' \subseteq BOOLEAN
  BY Zenon DEF CheckErrorIds, Count, TreeEnds, AttemptFails, Leave, TypeOK
<1>2. TypeOK'
  BY <1>1, SMTT(60)
     DEF CheckErrorIds, Count, TreeEnds, Leave, AttemptFails, NodeOK, CountOK,
         IndexCountsJudgements, TypeOK
<1>3. NodeOK' /\ CodeOK'
  BY SMTT(60)
     DEF CheckErrorIds, Count, TreeEnds, AttemptFails, Leave, TypeOK, NodeOK, CodeOK,
         IndexCountsJudgements, CountOK
<1>4. CallOK'
  BY SMTT(60)
     DEF CheckErrorIds, Count, TreeEnds, AttemptFails, Leave, TypeOK, NodeOK, CallOK
<1>5. CountOK' /\ SuccessJudgedAll'
  BY SMTT(60)
     DEF CheckErrorIds, Count, TreeEnds, AttemptFails, Leave, TypeOK, NodeOK, CountOK,
         IndexCountsJudgements, SuccessJudgedAll
<1>6. AttemptOK'
  BY SMTT(60)
     DEF CheckErrorIds, Count, TreeEnds, AttemptFails, Leave, TypeOK, NodeOK, AttemptOK
<1>7. TimelyOK'
  BY LeftStays, SMTT(60)
     DEF CheckErrorIds, Count, TreeEnds, AttemptFails, Leave, TypeOK, NodeOK, TimelyOK
<1>. QED
  BY <1>2, <1>3, <1>4, <1>5, <1>6, <1>7, Zenon

-----------------------------------------------------------------------------
(* Every step, and the theorems of the invariant.                          *)
LEMMA StutterInv ==
  ASSUME IInv, UNCHANGED vars
  PROVE  IInv'
<1>. {timely, actionTimeout, selected, reached}' \subseteq BOOLEAN
  BY Zenon DEF vars, TypeOK
<1>1. TypeOK'
  BY SMTT(60) DEF vars, TypeOK
<1>2. NodeOK' /\ CodeOK' /\ CallOK' /\ CountOK' /\ AttemptOK' /\ SuccessJudgedAll'
  BY SMTT(60)
     DEF vars, NodeOK, CodeOK, CallOK, CountOK, IndexCountsJudgements, AttemptOK, SuccessJudgedAll
<1>3. TimelyOK'
  BY LeftStays, SMTT(60) DEF vars, TimelyOK
<1>. QED
  BY <1>1, <1>2, <1>3, Zenon

HIDE DEF IInv

LEMMA NextInv ==
  ASSUME IInv, [Next]_vars
  PROVE  IInv'
BY StartTreeInv, HaltTreeInv, MoveHomeRequestInv, MoveHomeSucceedsInv,
   MoveHomeFailsInv, MoveHomeTimesOutInv, MoveGripperRequestInv,
   MoveGripperSucceedsInv, MoveGripperFailsInv, MoveGripperTimesOutInv,
   MoveToPickRequestInv, MoveToPickSucceedsInv, MoveToPickFailsInv,
   MoveToPickTimesOutInv, SendInv, NothingToSendInv, ServeInv, ServeLateInv,
   ApplyRemovalInv, GiveUpInv, ReceivePredictionInv, ReceiveSceneReadyInv,
   ReceiveSelectionInv, ReceiveRemovedInv, CameraInv, ObjectsFoundInv, TransformInv,
   ScriptsInv, CheckErrorIdsInv, StutterInv,
   Zenon DEF Next, Work, Move, Receive, NoMoreGoals

\* The invariant all the others follow from.
THEOREM Invariance == Spec => []IInv
BY InitInv, NextInv, PTL DEF Spec

\* The blackboard, the counters and the planning scene keep their types, and none of
\* the counters passes the number of objects the detection may find.
THEOREM TypeCorrect == Spec => []TypeOK
<1>1. IInv => TypeOK
  BY Zenon DEF IInv
<1>. QED
  BY <1>1, Invariance, PTL

\* CheckErrorIds always finds one of the six codes and an object.
THEOREM JudgeKnows == Spec => []JudgeKnowsTheCode
<1>1. IInv => JudgeKnowsTheCode
  BY SMTT(60) DEF IInv, CodeOK, JudgeKnowsTheCode
<1>. QED
  BY <1>1, Invariance, PTL

\* In the loop the index counts the judgements, never passes the total, and no
\* judgement is made without an attempt.
THEOREM IndexCounts == Spec => []IndexCountsJudgements
<1>1. IInv => IndexCountsJudgements
  BY Zenon DEF IInv, CountOK
<1>. QED
  BY <1>1, Invariance, PTL

\* The stage succeeds only when every detected object has been judged.
THEOREM SuccessIsOfAll == Spec => []SuccessJudgedAll
<1>1. IInv => SuccessJudgedAll
  BY Zenon DEF IInv
<1>. QED
  BY <1>1, Invariance, PTL

\* Only CheckErrorIds leaves "judge".
LEMMA JudgeIsLeftByCheck ==
  ASSUME IInv, [Next]_vars, pc = "judge", pc' # pc
  PROVE  CheckErrorIds
BY SMTT(60)
   DEF IInv, NodeOK, vars, Next, Work, Move, Receive, NoMoreGoals, MoveRequest,
       MoveSucceeds, MoveFails, MoveTimesOut, StartTree, HaltTree, MoveHomeRequest,
       MoveHomeSucceeds, MoveHomeFails, MoveHomeTimesOut, MoveGripperRequest,
       MoveGripperSucceeds, MoveGripperFails, MoveGripperTimesOut,
       MoveToPickRequest, MoveToPickSucceeds, MoveToPickFails, MoveToPickTimesOut,
       Send, NothingToSend, Serve, ServeLate, ApplyRemoval, GiveUp,
       ReceivePrediction, ReceiveSceneReady, ReceiveSelection, ReceiveRemoved,
       Camera, ObjectsFound, Transform, Scripts

\* An attempt whose object was selected is counted exactly when MoveToPick succeeded.
THEOREM CollectedIfPicked == Spec => CollectedWasPickedIfSelected
<1>1. ASSUME IInv, [Next]_vars, pc = "judge", pc' # pc, selected
      PROVE  collected' = collected + (IF reached THEN 1 ELSE 0)
  <2>1. Count
    BY <1>1, JudgeIsLeftByCheck, Zenon DEF CheckErrorIds
  <2>2. reached <=> errorCode = "SUCCESS"
    BY <1>1, Zenon DEF IInv, AttemptOK
  <2>3. collected \in Nat
    BY <1>1 DEF IInv, TypeOK
  <2>4. CASE reached
    BY <2>1, <2>2, <2>4, Zenon DEF Count
  <2>5. CASE ~reached
    <3>1. collected' = collected /\ collected + 0 = collected
      BY <2>1, <2>2, <2>3, <2>5, SMT DEF Count
    <3>. QED
      BY <2>5, <3>1, Zenon
  <2>. QED
    BY <2>4, <2>5, Zenon
<1>2. IInv /\ [Next]_vars
        => [pc = "judge" /\ pc' # pc /\ selected
              => collected' = collected + (IF reached THEN 1 ELSE 0)]_vars
  BY <1>1, Zenon
<1>. QED
  BY <1>2, Invariance, PTL DEF Spec, CollectedWasPickedIfSelected

-----------------------------------------------------------------------------
(* The abstract stage, step by step.                                       *)
Refines == [Service!Next]_Service!vars

\* Late services promise nothing.
LEMMA UntimelyRefines ==
  ASSUME ~timely, timely' = timely
  PROVE  Refines
BY Zenon DEF Refines, Service!Next

\* Outside the loop the stage only forgets the last goal.
LEMMA OutsideRefines ==
  ASSUME timely' = timely, pc \notin Loop, pc' \notin Loop, collected' = collected,
         outcome' = outcome \/ outcome' # "success"
  PROVE  Refines
<1>1. Remaining = {} /\ Remaining' = {}
  BY Zenon DEF Remaining
<1>2. (pc' \in Loop) = (pc \in Loop)
  BY SMT
<1>3. CASE outcome' = outcome
  BY <1>1, <1>2, <1>3, Zenon DEF Refines, Service!vars
<1>4. CASE outcome' # "success"
  <2>1. Service!NewGoal
    BY <1>1, <1>2, <1>4, Zenon DEF Service!NewGoal
  <2>. QED
    BY <2>1, Zenon DEF Refines, Service!Next
<1>. QED
  BY <1>3, <1>4, Zenon

\* In the loop nothing changes for it until an object is judged.
LEMMA InsideRefines ==
  ASSUME timely' = timely, pc \in Loop, pc' \in Loop, collected' = collected,
         outcome' = outcome, Remaining' = Remaining
  PROVE  Refines
BY Zenon DEF Refines, Service!vars

LEMMA RemainingStays ==
  ASSUME pc \in Loop, pc' \in Loop, Left' = Left, Judging' <=> Judging,
         Judging => objectName' = objectName
  PROVE  Remaining' = Remaining
BY Zenon DEF Remaining

LEMMA StutterRefines ==
  ASSUME UNCHANGED <<control, board, world, timely>>
  PROVE  Refines
<1>1. Left' = Left
  BY LeftStays, Zenon
<1>2. Remaining' = Remaining
  BY <1>1, Zenon DEF Remaining
<1>. QED
  BY <1>2, Zenon DEF Refines, Service!vars

LEMMA MoveRequestRefines ==
  ASSUME NEW node, NEW reply, MoveRequest(node, reply)
  PROVE  Refines
<1>1. /\ UNCHANGED <<pc, call, objectName, collected, outcome, timely>>
      /\ Left' = Left
  BY LeftStays, Zenon DEF MoveRequest
<1>2. Remaining' = Remaining
  BY <1>1, Zenon DEF Remaining
<1>. QED
  BY <1>1, <1>2, Zenon DEF Refines, Service!vars

-----------------------------------------------------------------------------
(* A step of the tree outside its loop, and one in it: what the two need.  *)
USE DEF IInv

LEMMA StartTreeRefines ==
  ASSUME IInv, StartTree
  PROVE  Refines
<1>1. /\ timely' = timely /\ pc \notin Loop /\ pc' \notin Loop /\ collected' = collected
      /\ outcome' = outcome \/ outcome' # "success"
  BY SMTT(60) DEF StartTree, Leave, NodeOK
<1>. QED
  BY <1>1, OutsideRefines, Zenon

LEMMA HaltTreeRefines ==
  ASSUME IInv, HaltTree
  PROVE  Refines
<1>1. /\ timely' = timely /\ pc' = "idle" /\ pc' \notin Loop /\ collected' = collected
      /\ outcome = "none" /\ outcome' = "canceled"
  BY SMTT(60) DEF HaltTree, TreeEnds, Leave, NodeOK
<1>2. CASE pc \in Loop
  <2>1. Remaining' = {}
    BY <1>1, Zenon DEF Remaining
  <2>2. (pc' \in Loop) = FALSE
    BY <1>1, SMT
  <2>3. Service!Abandon
    BY <1>1, <1>2, <2>1, <2>2, Zenon DEF Service!Abandon
  <2>. QED
    BY <1>1, <2>3, Zenon DEF Refines, Service!Next
<1>3. CASE pc \notin Loop
  BY <1>1, <1>3, OutsideRefines, Zenon
<1>. QED
  BY <1>2, <1>3, Zenon

LEMMA MoveHomeRequestRefines ==
  ASSUME MoveHomeRequest
  PROVE  Refines
BY MoveRequestRefines, Zenon DEF MoveHomeRequest

LEMMA MoveHomeSucceedsRefines ==
  ASSUME IInv, MoveHomeSucceeds
  PROVE  Refines
<1>1. /\ timely' = timely /\ pc \notin Loop /\ pc' \notin Loop /\ collected' = collected
      /\ outcome' = outcome \/ outcome' # "success"
  BY SMTT(60) DEF MoveHomeSucceeds, MoveSucceeds, Goto, Leave, NodeOK
<1>. QED
  BY <1>1, OutsideRefines, Zenon

LEMMA MoveHomeFailsRefines ==
  ASSUME IInv, MoveHomeFails
  PROVE  Refines
<1>1. /\ timely' = timely /\ pc \notin Loop /\ pc' \notin Loop /\ collected' = collected
      /\ outcome' = outcome \/ outcome' # "success"
  BY NodeFailsFacts, SMTT(60) DEF MoveHomeFails, MoveFails, TreeEnds, Leave, Goto, NodeOK
<1>. QED
  BY <1>1, OutsideRefines, Zenon

LEMMA MoveHomeTimesOutRefines ==
  ASSUME IInv, MoveHomeTimesOut
  PROVE  Refines
<1>1. /\ timely' = timely /\ pc \notin Loop /\ pc' \notin Loop /\ collected' = collected
      /\ outcome' = outcome \/ outcome' # "success"
  BY NodeFailsFacts, SMTT(60)
     DEF MoveHomeTimesOut, MoveTimesOut, TreeEnds, Leave, Goto, NodeOK
<1>. QED
  BY <1>1, OutsideRefines, Zenon

LEMMA MoveGripperRequestRefines ==
  ASSUME MoveGripperRequest
  PROVE  Refines
BY MoveRequestRefines, Zenon DEF MoveGripperRequest

LEMMA MoveGripperSucceedsRefines ==
  ASSUME IInv, MoveGripperSucceeds
  PROVE  Refines
<1>1. /\ timely' = timely /\ pc \notin Loop /\ pc' \notin Loop /\ collected' = collected
      /\ outcome' = outcome \/ outcome' # "success"
  BY SMTT(60) DEF MoveGripperSucceeds, MoveSucceeds, Goto, Leave, NodeOK
<1>. QED
  BY <1>1, OutsideRefines, Zenon

LEMMA MoveGripperFailsRefines ==
  ASSUME IInv, MoveGripperFails
  PROVE  Refines
<1>1. /\ timely' = timely /\ pc \notin Loop /\ pc' \notin Loop /\ collected' = collected
      /\ outcome' = outcome \/ outcome' # "success"
  BY NodeFailsFacts, SMTT(60) DEF MoveGripperFails, MoveFails, TreeEnds, Leave, Goto, NodeOK
<1>. QED
  BY <1>1, OutsideRefines, Zenon

LEMMA MoveGripperTimesOutRefines ==
  ASSUME IInv, MoveGripperTimesOut
  PROVE  Refines
<1>1. /\ timely' = timely /\ pc \notin Loop /\ pc' \notin Loop /\ collected' = collected
      /\ outcome' = outcome \/ outcome' # "success"
  BY NodeFailsFacts, SMTT(60)
     DEF MoveGripperTimesOut, MoveTimesOut, TreeEnds, Leave, Goto, NodeOK
<1>. QED
  BY <1>1, OutsideRefines, Zenon

LEMMA MoveToPickRequestRefines ==
  ASSUME MoveToPickRequest
  PROVE  Refines
BY MoveRequestRefines, Zenon DEF MoveToPickRequest

LEMMA MoveToPickSucceedsRefines ==
  ASSUME IInv, MoveToPickSucceeds
  PROVE  Refines
<1>1. /\ timely' = timely /\ pc \in Loop /\ pc' \in Loop /\ collected' = collected
      /\ outcome' = outcome /\ (Judging' <=> Judging) /\ (Judging => objectName' = objectName)
  BY SMTT(60) DEF MoveToPickSucceeds, MoveSucceeds, Goto, Leave, NodeOK
<1>2. Left' = Left
  BY LeftStays, Zenon DEF MoveToPickSucceeds, MoveSucceeds, Goto, Leave
<1>. QED
  BY <1>1, <1>2, InsideRefines, RemainingStays, Zenon

LEMMA MoveToPickFailsRefines ==
  ASSUME IInv, MoveToPickFails
  PROVE  Refines
<1>1. /\ timely' = timely /\ pc \in Loop /\ pc' \in Loop /\ collected' = collected
      /\ outcome' = outcome /\ (Judging' <=> Judging) /\ (Judging => objectName' = objectName)
  BY NodeFailsFacts, SMTT(60) DEF MoveToPickFails, MoveFails, Leave, Goto, NodeOK
<1>2. Left' = Left
  BY LeftStays, Zenon DEF MoveToPickFails, MoveFails, Leave, Goto
<1>. QED
  BY <1>1, <1>2, InsideRefines, RemainingStays, Zenon

LEMMA MoveToPickTimesOutRefines ==
  ASSUME IInv, MoveToPickTimesOut
  PROVE  Refines
<1>1. /\ timely' = timely /\ pc \in Loop /\ pc' \in Loop /\ collected' = collected
      /\ outcome' = outcome /\ (Judging' <=> Judging) /\ (Judging => objectName' = objectName)
  BY NodeFailsFacts, SMTT(60) DEF MoveToPickTimesOut, MoveTimesOut, Leave, Goto, NodeOK
<1>2. Left' = Left
  BY LeftStays, Zenon DEF MoveToPickTimesOut, MoveTimesOut, Leave, Goto
<1>. QED
  BY <1>1, <1>2, InsideRefines, RemainingStays, Zenon

LEMMA SendRefines ==
  ASSUME IInv, Send
  PROVE  Refines
<1>1. /\ UNCHANGED <<pc, objectName, collected, outcome, timely>>
      /\ ~Judging /\ ~Judging' /\ Left' = Left
  BY LeftStays, SMTT(60) DEF Send
<1>2. Remaining' = Remaining
  BY <1>1, Zenon DEF Remaining
<1>. QED
  BY <1>1, <1>2, Zenon DEF Refines, Service!vars

\* An attempt has its object, when services keep their time.
LEMMA NothingToSendRefines ==
  ASSUME IInv, NothingToSend
  PROVE  Refines
<1>1. ~timely /\ timely' = timely
  BY LeftFacts, SMTT(60) DEF NothingToSend, TypeOK, TimelyOK
<1>. QED
  BY <1>1, UntimelyRefines, Zenon

\* The object RemoveObjectService has removed is the one to be judged.
LEMMA ServeRefines ==
  ASSUME IInv, Serve
  PROVE  Refines
<1>1. PICK value \in 0..MaxObjects \cup {NoObject} : Handle(Request, value) /\ answer' = value
  BY Zenon DEF Serve
<1>2. /\ call = "sent" /\ call' = "answered" /\ pc \in Services
      /\ UNCHANGED <<pc, objectName, collected, outcome, timely>>
  BY Zenon DEF Serve, NodeOK
<1>. DEFINE r == Request
<1>3. /\ r \in Requests /\ r.srv = pc
      /\ r.srv = "update" => r.arg # NoObject
      /\ r.srv = "remove" => r.arg \in Names /\ r.arg = objectName
  BY <1>2, RequestFacts
<1>. HIDE DEF r
<1>4. /\ r.srv \in {"select", "predict"} => Left' = Left
      /\ r.srv = "remove" => Left' = Left \ {r.arg}
  BY <1>1, <1>3, HandleFacts DEF r
<1>5. CASE ~timely
  BY <1>2, <1>5, UntimelyRefines, Zenon
<1>6. CASE pc \notin Loop
  BY <1>2, <1>6, OutsideRefines, Zenon
<1>7. CASE pc = "select"
  <2>1. Left' = Left /\ ~Judging /\ ~Judging'
    BY <1>2, <1>3, <1>4, <1>7
  <2>2. pc \in Loop
    BY <1>7
  <2>. QED
    BY <1>2, <2>1, <2>2, RemainingStays, InsideRefines, Zenon
<1>8. CASE timely /\ pc = "remove"
  <2>1. objectName \in Left
    BY <1>2, <1>8, SMTT(60) DEF TimelyOK
  <2>2. /\ pc \in Loop /\ ~Judging /\ Judging'
    BY <1>2, <1>8
  <2>3. Left' = Left \ {objectName}
    BY <1>3, <1>4, <1>8, Zenon
  <2>4. Remaining = Left /\ Remaining' = Left' \cup {objectName}
    BY <1>2, <2>2, Zenon DEF Remaining
  <2>5. Remaining' = Remaining
    BY <2>1, <2>3, <2>4, Zenon
  <2>. QED
    BY <1>2, <2>2, <2>5, InsideRefines, Zenon
<1>9. pc \notin Loop \/ pc \in {"select", "remove"}
  BY <1>2
<1>. QED
  BY <1>5, <1>6, <1>7, <1>8, <1>9, Zenon

LEMMA ServeLateRefines ==
  ASSUME IInv, ServeLate
  PROVE  Refines
<1>1. BagToSet(EmptyBag) = {}
  BY DEF BagToSet, EmptyBag, SetToBag
<1>2. ~timely /\ timely' = timely
  BY <1>1, Zenon DEF ServeLate, TimelyOK
<1>. QED
  BY <1>2, UntimelyRefines, Zenon

LEMMA ApplyRemovalRefines ==
  ASSUME IInv, ApplyRemoval
  PROVE  Refines
<1>1. UNCHANGED <<pc, call, objectName, collected, outcome, timely>> /\ Left' = Left
  BY ApplyFacts, Zenon DEF ApplyRemoval
<1>2. Remaining' = Remaining
  BY <1>1, Zenon DEF Remaining
<1>. QED
  BY <1>1, <1>2, Zenon DEF Refines, Service!vars

LEMMA GiveUpRefines ==
  ASSUME IInv, GiveUp
  PROVE  Refines
BY UntimelyRefines, Zenon DEF GiveUp

LEMMA ReceivePredictionRefines ==
  ASSUME IInv, ReceivePrediction
  PROVE  Refines
<1>1. /\ timely' = timely /\ pc \notin Loop /\ pc' \notin Loop /\ collected' = collected
      /\ outcome' = outcome \/ outcome' # "success"
  BY NodeFailsFacts, SMTT(60) DEF ReceivePrediction, TreeEnds, Leave, Goto, NodeOK
<1>. QED
  BY <1>1, OutsideRefines, Zenon

LEMMA ReceiveSceneReadyRefines ==
  ASSUME IInv, ReceiveSceneReady
  PROVE  Refines
<1>1. /\ timely' = timely /\ pc \notin Loop /\ pc' \notin Loop /\ collected' = collected
      /\ outcome' = outcome \/ outcome' # "success"
  BY SMTT(60) DEF ReceiveSceneReady, Goto, Leave, NodeOK
<1>. QED
  BY <1>1, OutsideRefines, Zenon

LEMMA ReceiveSelectionRefines ==
  ASSUME IInv, ReceiveSelection
  PROVE  Refines
<1>1. /\ timely' = timely /\ pc \in Loop /\ pc' \in Loop /\ collected' = collected
      /\ outcome' = outcome /\ ~Judging /\ ~Judging'
  BY NodeFailsFacts, SMTT(60) DEF ReceiveSelection, Goto, Leave
<1>2. Left' = Left
  BY LeftStays, Zenon DEF ReceiveSelection
<1>. QED
  BY <1>1, <1>2, InsideRefines, RemainingStays, Zenon

LEMMA ReceiveRemovedRefines ==
  ASSUME IInv, ReceiveRemoved
  PROVE  Refines
<1>1. /\ timely' = timely /\ pc \in Loop /\ pc' \in Loop /\ collected' = collected
      /\ outcome' = outcome /\ (Judging' <=> Judging) /\ (Judging => objectName' = objectName)
  BY SMTT(60) DEF ReceiveRemoved, Goto, Leave, NodeOK
<1>2. Left' = Left
  BY LeftStays, Zenon DEF ReceiveRemoved, Goto, Leave
<1>. QED
  BY <1>1, <1>2, InsideRefines, RemainingStays, Zenon

LEMMA CameraRefines ==
  ASSUME IInv, Camera
  PROVE  Refines
<1>1. /\ timely' = timely /\ pc \notin Loop /\ pc' \notin Loop /\ collected' = collected
      /\ outcome' = outcome \/ outcome' # "success"
  BY NodeFailsFacts, SMTT(60) DEF Camera, TreeEnds, Leave, Goto, NodeOK
<1>. QED
  BY <1>1, OutsideRefines, Zenon

LEMMA ObjectsFoundRefines ==
  ASSUME IInv, ObjectsFound
  PROVE  Refines
<1>1. /\ timely' = timely /\ pc \notin Loop /\ pc' \notin Loop /\ collected' = collected
      /\ outcome' = outcome \/ outcome' # "success"
  BY NodeFailsFacts, SMTT(60) DEF ObjectsFound, TreeEnds, Leave, Goto, NodeOK
<1>. QED
  BY <1>1, OutsideRefines, Zenon

LEMMA TransformRefines ==
  ASSUME IInv, Transform
  PROVE  Refines
<1>1. /\ timely' = timely /\ pc \notin Loop /\ pc' \notin Loop /\ collected' = collected
      /\ outcome' = outcome \/ outcome' # "success"
  BY NodeFailsFacts, SMTT(60) DEF Transform, TreeEnds, Leave, Goto, NodeOK
<1>. QED
  BY <1>1, OutsideRefines, Zenon

\* The loop begins with an object left for every one detected.
LEMMA ScriptsRefines ==
  ASSUME IInv, Scripts
  PROVE  Refines
<1>1. /\ timely' = timely /\ pc \notin Loop /\ pc' \in Loop /\ ~Judging' /\ collected' = 0
      /\ outcome' = outcome
  BY SMTT(60) DEF Scripts, Goto, Leave
<1>2. CASE ~timely
  BY <1>1, <1>2, UntimelyRefines, Zenon
<1>3. CASE timely
  <2>1. total \in 1..MaxObjects /\ Left = 1..total
    BY <1>3, SMTT(60) DEF Scripts, TypeOK, NodeOK, TimelyOK
  <2>2. Left' = Left
    BY LeftStays, Zenon DEF Scripts
  <2>3. Remaining' = 1..total
    BY <1>1, <2>1, <2>2, Zenon DEF Remaining
  <2>4. Service!Begin
    BY <1>1, <2>1, <2>3, Zenon DEF Service!Begin
  <2>. QED
    BY <1>1, <2>4, Zenon DEF Refines, Service!Next
<1>. QED
  BY <1>2, <1>3, Zenon

\* The object is judged, and the loop ends with the last one.
LEMMA CheckErrorIdsRefines ==
  ASSUME IInv, CheckErrorIds
  PROVE  Refines
<1>1. /\ timely' = timely /\ pc = "judge" /\ pc \in Loop /\ Judging
      /\ outcome = "none" /\ objectName' = objectName
  BY SMTT(60) DEF CheckErrorIds, NodeOK
<1>2. CASE ~timely
  BY <1>1, <1>2, UntimelyRefines, Zenon
<1>3. CASE timely
  <2>1. objectName \notin Left /\ tries = judged /\ Cardinality(Left) = total - judged - 1
    BY <1>1, <1>3, SMTT(60) DEF TimelyOK
  <2>2. Remaining = Left \cup {objectName} /\ Left' = Left
    BY <1>1, LeftStays, Zenon DEF CheckErrorIds, Remaining
  <2>3. Remaining \ {objectName} = Left /\ objectName \in Remaining
    BY <2>1, <2>2, Zenon
  <2>4. collected' \in {collected, collected + 1}
    BY Zenon DEF CheckErrorIds, Count
  <2>5. IsFiniteSet(Left) /\ index = judged + 1 /\ {index, total, judged} \subseteq Nat
    BY <1>1, LeftFacts, SMTT(60) DEF CountOK, IndexCountsJudgements, TypeOK
  <2>6. CASE index + 1 > total
    <3>1. pc' = "idle" /\ outcome' = "success" /\ pc' \notin Loop
      BY <2>6 DEF CheckErrorIds, TreeEnds, Leave
    <3>2. Cardinality(Left) = 0
      BY <1>1, <2>1, <2>5, <2>6, LeftFacts
    <3>3. Left = {}
      BY <2>5, <3>2, FS_EmptySet
    <3>4. Remaining' = {}
      BY <3>1, Zenon DEF Remaining
    <3>5. (pc' \in Loop) = (Remaining' # {})
      BY <3>1, <3>4, SMT
    <3>6. Service!Judge(objectName)
      BY <1>1, <2>3, <2>4, <3>1, <3>3, <3>4, <3>5, Zenon DEF Service!Judge
    <3>. QED
      BY <1>1, <2>3, <3>6, Zenon DEF Refines, Service!Next
  <2>7. CASE ~(index + 1 > total)
    <3>1. tries + 1 < total
      BY <2>1, <2>5, <2>7
    <3>2. pc' = "select" /\ outcome' = outcome /\ pc' \in Loop /\ ~Judging'
      BY <2>7, <3>1 DEF CheckErrorIds, AttemptFails, Leave
    <3>3. Cardinality(Left) # 0
      BY <2>1, <2>5, <2>7
    <3>4. Left # {}
      BY <3>3, FS_EmptySet
    <3>5. Remaining' = Left
      BY <2>2, <3>2, Zenon DEF Remaining
    <3>6. Service!Judge(objectName)
      BY <1>1, <2>3, <2>4, <3>2, <3>4, <3>5, Zenon DEF Service!Judge
    <3>. QED
      BY <1>1, <2>3, <3>6, Zenon DEF Refines, Service!Next
  <2>. QED
    BY <2>6, <2>7, Zenon
<1>. QED
  BY <1>2, <1>3, Zenon

HIDE DEF IInv

LEMMA NextRefines ==
  ASSUME IInv, [Next]_vars
  PROVE  Refines
BY StartTreeRefines, HaltTreeRefines, MoveHomeRequestRefines,
   MoveHomeSucceedsRefines, MoveHomeFailsRefines, MoveHomeTimesOutRefines,
   MoveGripperRequestRefines, MoveGripperSucceedsRefines, MoveGripperFailsRefines,
   MoveGripperTimesOutRefines, MoveToPickRequestRefines, MoveToPickSucceedsRefines,
   MoveToPickFailsRefines, MoveToPickTimesOutRefines, SendRefines,
   NothingToSendRefines, ServeRefines, ServeLateRefines, ApplyRemovalRefines,
   GiveUpRefines, ReceivePredictionRefines, ReceiveSceneReadyRefines,
   ReceiveSelectionRefines, ReceiveRemovedRefines, CameraRefines,
   ObjectsFoundRefines, TransformRefines, ScriptsRefines, CheckErrorIdsRefines,
   StutterRefines,
   Zenon DEF vars, Next, Work, Move, Receive, NoMoreGoals

\* When the services keep their time the stage implements PickService, for any number
\* of objects and goals: every detected object is judged once, counted at most once,
\* and the stage succeeds exactly when none is left.
THEOREM Refinement == Spec => ImplementsPickService
<1>1. Init => Service!Init
  <2>1. Init => /\ pc \notin Loop /\ outcome = "none" /\ collected = 0 /\ timely \in BOOLEAN
    BY Zenon DEF Init
  <2>2. pc \notin Loop => Remaining = {}
    BY Zenon DEF Remaining
  <2>. QED
    <3>1. Init => (pc \in Loop) = FALSE
      BY <2>1, SMT
    <3>. QED
      BY <2>1, <2>2, <3>1, Zenon DEF Service!Init
<1>2. IInv /\ [Next]_vars => [Service!Next]_Service!vars
  BY NextRefines, Zenon DEF Refines
<1>. QED
  BY <1>1, <1>2, Invariance, PTL DEF Spec, ImplementsPickService, Service!Spec

=============================================================================
