----------------------------- MODULE TickService -----------------------------
(***************************************************************************)
(* What the "tick" action promises its clients, without the threads, flags *)
(* and joins BTExecutor keeps the promise with: one goal at a time, every  *)
(* goal ends in one outcome, an accepted cancel ends the goal unless the   *)
(* goal is held up by a dead action server its tree waits for, and the     *)
(* service closes only after the goal it was executing has its result.     *)
(* Once a shutdown has begun, goals may overlap.                           *)
(***************************************************************************)
CONSTANT Goals

VARIABLES goals,    \* where each goal stands
          serving,  \* the action server exists
          held,     \* the goals held up by a dead server
          phase     \* the process runs, has begun to shut down, or is gone

vars == <<goals, serving, held, phase>>

Active   == {"executing", "canceling"}
Terminal == {"succeeded", "aborted", "canceled"}

Init == /\ goals = [g \in Goals |-> "unsent"]
        /\ serving = FALSE
        /\ held = {}
        /\ phase = "up"

NoneActive == \A g \in Goals : goals[g] \notin Active

Become(g, s) == goals' = [goals EXCEPT ![g] = s] /\ UNCHANGED <<serving, held, phase>>

Accept(g) == /\ phase # "down" /\ serving /\ goals[g] = "unsent"
             /\ NoneActive \/ phase = "closing"
             /\ Become(g, "executing")

Reject(g) == /\ phase # "down" /\ serving /\ goals[g] = "unsent"
             /\ Become(g, "rejected")

Cancel(g) == phase # "down" /\ goals[g] = "executing" /\ Become(g, "canceling")

EndUncancelled(g) == /\ phase # "down" /\ goals[g] = "executing" /\ g \notin held
                     /\ \E s \in Terminal \ {"canceled"} : Become(g, s)

\* A cancelled goal may still succeed or fail in the tick that was under way.
EndCancelled(g) == /\ phase # "down" /\ goals[g] = "canceling" /\ g \notin held
                   /\ \E s \in Terminal : Become(g, s)

Open == /\ phase # "down" /\ ~serving /\ serving' = TRUE
        /\ UNCHANGED <<goals, held, phase>>

Close == /\ phase # "down" /\ serving /\ NoneActive /\ serving' = FALSE
         /\ UNCHANGED <<goals, held, phase>>

Hold(g) == /\ phase # "down" /\ goals[g] \in Active /\ g \notin held
           /\ held' = held \cup {g}
           /\ UNCHANGED <<goals, serving, phase>>

\* Only a shutdown lets go of it.
Release(g) == /\ phase = "closing" /\ g \in held
              /\ held' = held \ {g}
              /\ UNCHANGED <<goals, serving, phase>>

BeginShutdown == phase = "up" /\ phase' = "closing" /\ UNCHANGED <<goals, serving, held>>

GoDown == phase # "down" /\ phase' = "down" /\ UNCHANGED <<goals, serving, held>>

Next == \/ \E g \in Goals : \/ Accept(g) \/ Reject(g) \/ Cancel(g)
                            \/ EndUncancelled(g) \/ EndCancelled(g)
                            \/ Hold(g) \/ Release(g)
        \/ Open \/ Close \/ BeginShutdown \/ GoDown

SafetySpec == Init /\ [][Next]_vars

Spec == SafetySpec /\ \A g \in Goals : WF_vars(EndCancelled(g))
=============================================================================
