----------------------------- MODULE PickService -----------------------------
(***************************************************************************)
(* What the pick and place stage promises when every service answers in    *)
(* time: each detected object is tried once, an object is counted as       *)
(* collected at most once, and the stage succeeds exactly when no object   *)
(* is left to try.  Without that promise of the surroundings, nothing.     *)
(***************************************************************************)
EXTENDS Naturals

CONSTANT MaxObjects

VARIABLES
  promise,    \* the services keep their time
  picking,    \* the stage is in its pick loop
  remaining,  \* the objects it has not judged yet
  collected,  \* the objects counted as collected
  result      \* "success" once the stage has succeeded

vars == <<promise, picking, remaining, collected, result>>

Init == /\ promise \in BOOLEAN
        /\ picking = FALSE /\ remaining = {} /\ collected = 0 /\ result = "none"

Begin == /\ ~picking /\ picking' = TRUE
         /\ \E n \in 1..MaxObjects : remaining' = 1..n
         /\ collected' = 0 /\ UNCHANGED result

Judge(o) == /\ picking /\ o \in remaining
            /\ remaining' = remaining \ {o}
            /\ collected' \in {collected, collected + 1}
            /\ picking' = (remaining' # {})
            /\ result' = IF remaining' = {} THEN "success" ELSE result

\* The tree is halted in the loop.
Abandon == /\ picking /\ picking' = FALSE /\ remaining' = {}
           /\ UNCHANGED <<collected, result>>

NewGoal == /\ ~picking /\ result' = "none"
           /\ UNCHANGED <<picking, remaining, collected>>

Next == /\ UNCHANGED promise
        /\ promise => \/ Begin \/ Abandon \/ NewGoal
                      \/ \E o \in remaining : Judge(o)

Spec == Init /\ [][Next]_vars
=============================================================================
