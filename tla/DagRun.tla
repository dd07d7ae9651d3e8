------------------------------ MODULE DagRun ------------------------------
(***************************************************************************)
(* What the Runner trait of crates/dag-runner promises of one run of a     *)
(* dag: each task is executed at most once and after its upstream tasks,   *)
(* the first failure is the last execution, every other task is skipped,   *)
(* and Ok is returned only when each task has its final state.             *)
(***************************************************************************)
EXTENDS DagCore

CONSTANT Dags

VARIABLES
  dag,
  status,     \* node -> what the run has to show for it
  outcome     \* "open", then "ok" or "err"

vars == <<dag, status, outcome>>

Statuses == {"Pending", "Running", "Succeeded", "Failed", "Skipped"}
Final    == {"Succeeded", "Failed", "Skipped"}

TypeOK ==
  /\ dag \in Dags
  /\ status \in [Nodes(dag) -> Statuses]
  /\ outcome \in {"open", "ok", "err"}

Init ==
  /\ dag \in Dags
  /\ status = [n \in Nodes(dag) |-> "Pending"]
  /\ outcome = "open"

SomeFailed == \E n \in Nodes(dag) : status[n] = "Failed"

Set(n, s) == status' = [status EXCEPT ![n] = s] /\ UNCHANGED <<dag, outcome>>

Start(n) ==
  /\ status[n] = "Pending"
  /\ \A m \in Parents(dag, n) : status[m] = "Succeeded"
  /\ \A m \in Nodes(dag) : status[m] # "Running"
  /\ ~SomeFailed
  /\ Set(n, "Running")

Succeed(n) == status[n] = "Running" /\ Set(n, "Succeeded")
Fail(n)    == status[n] = "Running" /\ Set(n, "Failed")
Skip(n)    == status[n] = "Pending" /\ SomeFailed /\ Set(n, "Skipped")

Return ==
  /\ \A n \in Nodes(dag) : status[n] \in Final
  /\ outcome' = "ok"
  /\ UNCHANGED <<dag, status>>

\* The run is refused, breaks off or dies.
Abort == outcome' = "err" /\ UNCHANGED <<dag, status>>

Next ==
  /\ outcome = "open"
  /\ \/ \E n \in Nodes(dag) : Start(n) \/ Succeed(n) \/ Fail(n) \/ Skip(n)
     \/ Return
     \/ Abort

Spec == Init /\ [][Next]_vars
=============================================================================
