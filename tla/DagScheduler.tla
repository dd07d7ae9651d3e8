---------------------------- MODULE DagScheduler ----------------------------
(***************************************************************************)
(* DagScheduler of crates/dag-scheduler: a registry of job ids kept beside *)
(* the job set of tokio-cron-scheduler.  schedule and unschedule change    *)
(* the two one after the other, with awaits in between, and any number of  *)
(* calls run at once on one scheduler.                                     *)
(*                                                                         *)
(* A member of Calls is one call of one method.  `add` mints a fresh id;   *)
(* the model names it after the schedule call that gets it, and the        *)
(* registry, a map from ids to what schedule was given, becomes a set of   *)
(* ids.  Its RwLock is modelled as such: a call awaits the lock in one     *)
(* step and holds it until the step in which it reads or writes the        *)
(* registry, which no await interrupts.                                    *)
(*                                                                         *)
(* tokio-cron-scheduler and the two cron parsers are outside src/.  Any    *)
(* call of the inner scheduler may fail, start and shutdown included.  A   *)
(* job may fire while its loop runs; that it does, that it keeps its jobs  *)
(* over a shutdown, or that start works after one, is assumed nowhere.     *)
(***************************************************************************)
EXTENDS Naturals

CONSTANTS
  Calls,
  Stranger,       \* a job id that this scheduler never minted
  CronOf,         \* the expression each call gives to schedule
  JobCrons,       \* those Job::new_async takes
  NextFireCrons,  \* those cron::Schedule::from_str takes
  MaxRuns         \* bound on the futures of one job that are under way

ASSUME StrangerAssumption == Stranger \notin Calls
ASSUME MaxRunsAssumption  == MaxRuns \in Nat \ {0}

VARIABLES
  op,             \* the method of each call
  target,         \* the job id it is about
  pc,             \* where it is; then what it returned
  held,           \* its guard of the registry lock
  registry,       \* the keys of by_id
  jobs,           \* the ids the inner scheduler was given, by add, and not asked
                  \* to forget, by remove
  ticking,        \* the tick loop may be running
  running         \* job id -> how many futures of its body are under way

vars      == <<op, target, pc, held, registry, jobs, ticking, running>>
innerVars == <<jobs, ticking, running>>

Queries  == {"next_fire", "dag_name", "job_count"}
Critical == {"insert", "check", "erase", "look"}   \* awaits or holds the lock
Inner    == {"add", "remove"}                      \* awaits the inner scheduler
Answers  == {"ok", "err", "UnknownJob"}

Mode(c) == IF pc[c] \in {"insert", "erase"} THEN "write" ELSE "read"

TypeOK ==
  /\ op \in [Calls -> {"none", "schedule", "unschedule"} \cup Queries]
  /\ target \in [Calls -> Calls \cup {Stranger}]
  /\ pc \in [Calls -> {"idle", "dropped"} \cup Inner \cup Critical \cup Answers]
  /\ held \in [Calls -> {"no", "read", "write"}]
  /\ \A c \in Calls : held[c] # "no" => pc[c] \in Critical /\ held[c] = Mode(c)
  /\ \A c, d \in Calls : held[c] = "write" /\ held[d] # "no" => c = d
  /\ registry \subseteq Calls
  /\ jobs \subseteq Calls
  /\ ticking \in BOOLEAN
  /\ running \in [Calls -> 0..MaxRuns]

Init ==
  /\ op = [c \in Calls |-> "none"]
  /\ target = [c \in Calls |-> Stranger]
  /\ pc = [c \in Calls |-> "idle"]
  /\ held = [c \in Calls |-> "no"]
  /\ registry = {}
  /\ jobs = {}
  /\ ticking = FALSE
  /\ running = [c \in Calls |-> 0]

----------------------------------------------------------------------------

Goto(c, label) == pc' = [pc EXCEPT ![c] = label]
Release(c)     == held' = [held EXCEPT ![c] = "no"]

Call(c, method, id, label) ==
  /\ pc[c] = "idle"
  /\ op' = [op EXCEPT ![c] = method]
  /\ target' = [target EXCEPT ![c] = id]
  /\ Goto(c, label)
  /\ UNCHANGED <<held, registry, innerVars>>

\* The ids a caller can name: those schedule has returned, and a stranger.
Known == {c \in Calls : op[c] = "schedule" /\ pc[c] = "ok"} \cup {Stranger}

\* schedule: an expression that Job::new_async rejects ends the call.
CallSchedule(c) == Call(c, "schedule", c, IF CronOf[c] \in JobCrons THEN "add" ELSE "err")

CallUnschedule(c) == \E id \in Known : Call(c, "unschedule", id, "check")

CallQuery(c) == \E query \in Queries, id \in Known : Call(c, query, id, "look")

\* The await of registry.read() or registry.write().
Acquire(c) ==
  /\ pc[c] \in Critical
  /\ held[c] = "no"
  /\ \A d \in Calls : held[d] # "write" /\ (Mode(c) = "write" => held[d] = "no")
  /\ held' = [held EXCEPT ![c] = Mode(c)]
  /\ UNCHANGED <<op, target, pc, registry, innerVars>>

AddJob(c) ==
  /\ pc[c] = "add"
  /\ jobs' = jobs \cup {c}
  /\ Goto(c, "insert")
  /\ UNCHANGED <<op, target, held, registry, ticking, running>>

\* Mutant: the error of remove is logged, and the call goes on.
InnerFails_GoOn(c) ==
  /\ pc[c] \in Inner
  /\ Goto(c, IF pc[c] = "add" THEN "err" ELSE "erase")
  /\ UNCHANGED <<op, target, held, registry, innerVars>>

\* Mutant: the error path cleans up, and takes the entry out.
InnerFails_Forgets(c) ==
  /\ pc[c] \in Inner
  /\ registry' = registry \ {target[c]}
  /\ Goto(c, "err")
  /\ UNCHANGED <<op, target, held, innerVars>>

\* The inner scheduler fails to add or to remove the job: `?` returns.
InnerFails(c) ==
  /\ pc[c] \in Inner
  /\ Goto(c, "err")
  /\ UNCHANGED <<op, target, held, registry, innerVars>>

\* Mutant: the guard lives on in a binding.
Insert_KeepsGuard(c) ==
  /\ pc[c] = "insert" /\ held[c] = "write"
  /\ registry' = registry \cup {c}
  /\ Goto(c, "ok")
  /\ UNCHANGED <<op, target, held, innerVars>>

Insert(c) ==
  /\ pc[c] = "insert" /\ held[c] = "write"
  /\ registry' = registry \cup {c}
  /\ Release(c)
  /\ Goto(c, "ok")
  /\ UNCHANGED <<op, target, innerVars>>

\* Mutant: an `if let` on the guard, whose temporary lives to the end.
Check_KeepsGuard(c) ==
  /\ pc[c] = "check" /\ held[c] = "read"
  /\ Goto(c, IF target[c] \in registry THEN "remove" ELSE "UnknownJob")
  /\ UNCHANGED <<op, target, held, registry, innerVars>>

\* Mutant: the entry is taken out at once, by_id.remove(&id).is_none().
Check_TakesOut(c) ==
  /\ pc[c] = "check" /\ held[c] = "read"
  /\ registry' = registry \ {target[c]}
  /\ Goto(c, IF target[c] \in registry THEN "remove" ELSE "UnknownJob")
  /\ Release(c)
  /\ UNCHANGED <<op, target, innerVars>>

\* contains_key: the guard is a temporary of the condition, dropped with it.
Check(c) ==
  /\ pc[c] = "check" /\ held[c] = "read"
  /\ Goto(c, IF target[c] \in registry THEN "remove" ELSE "UnknownJob")
  /\ Release(c)
  /\ UNCHANGED <<op, target, registry, innerVars>>

\* Two calls for one id may both get here; remove takes a missing id too.
RemoveJob(c) ==
  /\ pc[c] = "remove"
  /\ jobs' = jobs \ {target[c]}
  /\ Goto(c, "erase")
  /\ UNCHANGED <<op, target, held, registry, ticking, running>>

Erase(c) ==
  /\ pc[c] = "erase" /\ held[c] = "write"
  /\ registry' = registry \ {target[c]}
  /\ Release(c)
  /\ Goto(c, "ok")
  /\ UNCHANGED <<op, target, innerVars>>

\* job_count asks for no id; next_fire parses the expression a second time.
AnswerOf(c) ==
  CASE op[c] = "job_count"                                       -> "ok"
    [] op[c] # "job_count" /\ target[c] \notin registry          -> "UnknownJob"
    [] op[c] = "dag_name"  /\ target[c] \in registry             -> "ok"
    [] op[c] = "next_fire" /\ target[c] \in registry             ->
         IF CronOf[target[c]] \in NextFireCrons THEN "ok" ELSE "err"

Look(c) ==
  /\ pc[c] = "look" /\ held[c] = "read"
  /\ Goto(c, AnswerOf(c))
  /\ Release(c)
  /\ UNCHANGED <<op, target, registry, innerVars>>

\* The future of a call is dropped at an await.  A request to the inner
\* scheduler may have been carried out by then.
Drop(c) ==
  /\ pc[c] \in Inner \cup Critical
  /\ held[c] = "no"
  /\ \/ UNCHANGED jobs
     \/ pc[c] = "add" /\ jobs' = jobs \cup {c}
     \/ pc[c] = "remove" /\ jobs' = jobs \ {target[c]}
  /\ Goto(c, "dropped")
  /\ UNCHANGED <<op, target, held, registry, ticking, running>>

\* start and shutdown only pass the call on: neither touches the registry.
\* Either may return an error (`?`), before or after the loop has changed.
Start ==
  /\ ticking' \in {ticking, TRUE}
  /\ UNCHANGED <<op, target, pc, held, registry, jobs, running>>

\* Runs that are under way go on.
Shutdown ==
  /\ ticking' \in {ticking, FALSE}
  /\ UNCHANGED <<op, target, pc, held, registry, jobs, running>>

\* A tick spawns the body; nothing waits for the runs before it.
Tick(i) ==
  /\ ticking /\ i \in jobs
  /\ running[i] < MaxRuns
  /\ running' = [running EXCEPT ![i] = @ + 1]
  /\ UNCHANGED <<op, target, pc, held, registry, jobs, ticking>>

\* The body ends; its error, if any, is logged and goes nowhere.
RunEnds(i) ==
  /\ running[i] > 0
  /\ running' = [running EXCEPT ![i] = @ - 1]
  /\ UNCHANGED <<op, target, pc, held, registry, jobs, ticking>>

\* What a call does once made.
Step(c) ==
  \/ Acquire(c)
  \/ AddJob(c)
  \/ InnerFails(c)
  \/ Insert(c)
  \/ Check(c)
  \/ RemoveJob(c)
  \/ Erase(c)
  \/ Look(c)

Next ==
  \/ Start
  \/ Shutdown
  \/ \E c \in Calls :
       \/ CallSchedule(c) \/ CallUnschedule(c) \/ CallQuery(c)
       \/ Step(c) \/ Drop(c)
       \/ Tick(c) \/ RunEnds(c)

Spec == Init /\ [][Next]_vars

\* A call that is made is polled until it returns, and the inner scheduler
\* answers.  No call need be made, no job need fire and no body need end.
Fairness == \A c \in Calls : WF_vars(Step(c))
FairSpec == Spec /\ Fairness

----------------------------------------------------------------------------

Unscheduling(id) == {c \in Calls : op[c] = "unschedule" /\ target[c] = id}

\* The registry and the jobs differ only where a call is under way between
\* its two halves, or was dropped there: a job without an entry has its
\* schedule call, an entry without a job an unschedule call, whatever other
\* calls for the id overlap (lib.rs:133-145, 150-157).
RegistryMatchesJobs ==
  /\ \A i \in jobs \ registry : pc[i] \in {"insert", "dropped"}
  /\ \A i \in registry \ jobs :
       \E c \in Unscheduling(i) : pc[c] \in {"erase", "dropped"}

\* UnknownJob is answered for an id that was never minted or whose removal is
\* complete (lib.rs:43-44), and a removal that returned Ok is final: no entry,
\* no job, so no further tick.
AnswersAreRight ==
  \A c \in Calls :
    /\ pc[c] = "UnknownJob" =>
         target[c] = Stranger \/ \E d \in Unscheduling(target[c]) : pc[d] = "ok"
    /\ op[c] = "unschedule" /\ pc[c] = "ok" => target[c] \notin registry \cup jobs
    /\ op[c] = "schedule" /\ pc[c] = "ok" /\ Unscheduling(c) = {} =>
         c \in registry \cap jobs

\* The registry is what a caller can tell from the answers alone: the ids that
\* schedule has returned and no unschedule has returned Ok for.  A removal that
\* failed, or was dropped, or is still under way leaves the id known, so that it
\* can be tried again; a schedule that failed leaves nothing (lib.rs:133-157).
RegistryIsLive ==
  registry = {id \in Known \ {Stranger} : \A d \in Unscheduling(id) : pc[d] # "ok"}

\* Calls wait for one another at the lock; every call returns, or is dropped.
CallsReturn == \A c \in Calls : pc[c] # "idle" ~> pc[c] \in Answers \cup {"dropped"}
=============================================================================
