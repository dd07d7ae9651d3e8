------------------------------ MODULE FileRun ------------------------------
(***************************************************************************)
(* What ForjarRunner promises of one run of a file: every task is Running  *)
(* before forjar is asked, forjar judges the file as a whole, so the tasks *)
(* all go one way, they succeed along the edges, and run() returns a       *)
(* report, or the refusal, only when each task has come through.           *)
(***************************************************************************)

VARIABLES
  tasks,      \* the resources of the file
  edges,      \* <<a, b>>: b depends on a; a need not be a resource
  status,     \* task -> what the run has to show for it
  outcome     \* "open", then "ok", "refused" or "err"

vars == <<tasks, edges, status, outcome>>

AllAre(s)  == \A t \in tasks : status[t] = s
NoneIs(s)  == \A t \in tasks : status[t] # s
Started    == NoneIs("Pending")
Set(t, s)  == status' = [status EXCEPT ![t] = s] /\ UNCHANGED <<tasks, edges, outcome>>
End(o)     == outcome' = o /\ UNCHANGED <<tasks, edges, status>>

Init ==
  /\ \A e \in edges : e[2] \in tasks
  /\ status = [t \in tasks |-> "Pending"]
  /\ outcome = "open"

Start(t) ==
  /\ status[t] = "Pending" /\ NoneIs("Failed") /\ NoneIs("Succeeded")
  /\ Set(t, "Running")

Succeed(t) ==
  /\ status[t] = "Running" /\ Started /\ NoneIs("Failed")
  /\ \A e \in edges : e[2] = t => e[1] \in tasks /\ status[e[1]] = "Succeeded"
  /\ Set(t, "Succeeded")

Fail(t) ==
  /\ status[t] = "Running" /\ Started /\ NoneIs("Succeeded")
  /\ Set(t, "Failed")

Return == AllAre("Succeeded") /\ End("ok")
Refuse == AllAre("Failed") /\ End("refused")

\* A command or a statement fails, no order is found, or the run dies.
Abort == End("err")

Next ==
  /\ outcome = "open"
  /\ \/ \E t \in tasks : Start(t) \/ Succeed(t) \/ Fail(t)
     \/ Return
     \/ Refuse
     \/ Abort

Spec == Init /\ [][Next]_vars
=============================================================================
