------------------------- MODULE DagSchedulerProofs -------------------------
(***************************************************************************)
(* Theorems about DagScheduler, for every set of calls and expressions.    *)
(*                                                                         *)
(* RegistryMatchesJobs and AnswersAreRight are not inductive: that Erase   *)
(* leaves no job behind needs that the id's own schedule call is over, so  *)
(* that it cannot add the job once more.  CallsInv says where a call can   *)
(* be, given its method, and what an id it can name says of the call that  *)
(* minted it; JobsInv says where that call is while the id is in jobs or   *)
(* in the registry, and what an unschedule call has done for good.         *)
(***************************************************************************)
EXTENDS DagScheduler, TLAPS

LabelsOf(method) ==
  CASE method = "none"       -> {"idle"}
    [] method = "schedule"   -> {"add", "insert", "dropped", "ok", "err"}
    [] method = "unschedule" -> {"check", "remove", "erase", "dropped"} \cup Answers
    [] OTHER                 -> {"look", "dropped"} \cup Answers

Minted(id) == id \in Calls /\ op[id] = "schedule" /\ pc[id] = "ok"

CallsInv ==
  \A c \in Calls :
    /\ pc[c] \in LabelsOf(op[c])
    /\ op[c] = "schedule" => target[c] = c
    /\ op[c] \notin {"none", "schedule"} => target[c] = Stranger \/ Minted(target[c])

JobsInv ==
  /\ \A i \in jobs : op[i] = "schedule" /\ pc[i] \in {"insert", "dropped", "ok"}
  /\ \A i \in registry : Minted(i)
  /\ \A i \in Calls : pc[i] = "insert" => i \in jobs
  /\ \A i \in Calls : Minted(i) /\ i \notin registry => \E d \in Unscheduling(i) : pc[d] = "ok"
  /\ \A c \in Calls : op[c] = "unschedule" =>
       /\ pc[c] \in {"erase", "ok"} => target[c] \notin jobs
       /\ pc[c] = "ok" => target[c] \notin registry

IInv == TypeOK /\ CallsInv /\ JobsInv /\ RegistryMatchesJobs /\ AnswersAreRight

----------------------------------------------------------------------------

LEMMA InitIInv == Init => IInv
<1> SUFFICES ASSUME Init PROVE IInv
  OBVIOUS
<1>1. TypeOK
  <2>1. 0 \in 0..MaxRuns
    BY MaxRunsAssumption
  <2> QED  BY <2>1 DEF Init, TypeOK
<1>2. CallsInv /\ JobsInv
  BY DEF Init, CallsInv, JobsInv, LabelsOf, Minted
<1>3. RegistryMatchesJobs /\ AnswersAreRight
  BY DEF Init, RegistryMatchesJobs, AnswersAreRight
<1> QED  BY <1>1, <1>2, <1>3 DEF IInv

\* Types.
LEMMA TypeStep == TypeOK /\ CallsInv /\ [Next]_vars => TypeOK'
<1> SUFFICES ASSUME TypeOK, CallsInv, [Next]_vars PROVE TypeOK'
  OBVIOUS
<1> USE StrangerAssumption, MaxRunsAssumption
    DEF TypeOK, Mode, Critical, Inner, Answers, Queries, innerVars, Goto, Release
<1>1. CASE Start \/ Shutdown
  BY <1>1 DEF Start, Shutdown
<1>2. ASSUME NEW c \in Calls, CallSchedule(c) \/ CallUnschedule(c) \/ CallQuery(c)
      PROVE  TypeOK'
  <2>1. PICK method \in {"schedule", "unschedule"} \cup Queries, id \in Calls \cup {Stranger},
             label \in {"add", "err", "check", "look"} : Call(c, method, id, label)
    BY <1>2 DEF CallSchedule, CallUnschedule, CallQuery, Known
  <2> QED  BY <2>1 DEF Call
<1>3. ASSUME NEW c \in Calls, Acquire(c) PROVE TypeOK'
  BY <1>3 DEF Acquire
<1>4. ASSUME NEW c \in Calls, AddJob(c) \/ InnerFails(c) \/ RemoveJob(c) PROVE TypeOK'
  BY <1>4 DEF AddJob, InnerFails, RemoveJob
<1>5. ASSUME NEW c \in Calls, Insert(c) \/ Check(c) \/ Erase(c) PROVE TypeOK'
  BY <1>5 DEF Insert, Check, Erase
<1>6. ASSUME NEW c \in Calls, Look(c) PROVE TypeOK'
  <2>1. AnswerOf(c) \in Answers
    BY <1>6, op[c] \in Queries DEF AnswerOf, CallsInv, LabelsOf, Look
  <2> QED  BY <1>6, <2>1 DEF Look
<1>7. ASSUME NEW c \in Calls, Drop(c) PROVE TypeOK'
  BY <1>7 DEF Drop
<1>8. ASSUME NEW i \in Calls, Tick(i) \/ RunEnds(i) PROVE TypeOK'
  BY <1>8 DEF Tick, RunEnds
<1>9. CASE UNCHANGED vars
  BY <1>9 DEF vars
<1> QED  BY <1>1, <1>2, <1>3, <1>4, <1>5, <1>6, <1>7, <1>8, <1>9 DEF Next, Step

\* A call keeps its method and its id, and what it has answered.
LEMMA CallsAreKept ==
  ASSUME TypeOK, CallsInv, [Next]_vars, NEW c \in Calls, op[c] # "none"
  PROVE  /\ op'[c] = op[c]
         /\ target'[c] = target[c]
         /\ pc[c] \in Answers \cup {"dropped"} => pc'[c] = pc[c]
<1> USE DEF TypeOK, Goto, Answers
<1>1. pc[c] # "idle"
  BY DEF CallsInv, LabelsOf, Queries
<1>2. ASSUME NEW d \in Calls, CallSchedule(d) \/ CallUnschedule(d) \/ CallQuery(d)
      PROVE  op'[c] = op[c] /\ target'[c] = target[c] /\ pc'[c] = pc[c]
  <2>1. PICK method, id, label : Call(d, method, id, label)
    BY <1>2 DEF CallSchedule, CallUnschedule, CallQuery
  <2> QED  BY <1>1, <2>1 DEF Call
<1>3. ASSUME NEW d \in Calls, Step(d) \/ Drop(d)
      PROVE  /\ op' = op /\ target' = target
             /\ pc[c] \in Answers \cup {"dropped"} => pc'[c] = pc[c]
  BY <1>3 DEF Step, Acquire, AddJob, InnerFails, Insert, Check, RemoveJob, Erase, Look, Drop,
              Inner, Critical
<1>4. ASSUME NEW i \in Calls, Tick(i) \/ RunEnds(i)
      PROVE  op' = op /\ target' = target /\ pc' = pc
  BY <1>4 DEF Tick, RunEnds
<1>5. CASE Start \/ Shutdown \/ UNCHANGED vars
  BY <1>5 DEF Start, Shutdown, vars
<1> QED  BY <1>2, <1>3, <1>4, <1>5 DEF Next

LEMMA MintedIsKept ==
  ASSUME TypeOK, CallsInv, [Next]_vars, NEW id, Minted(id)
  PROVE  Minted(id)'
BY CallsAreKept DEF Minted, Answers

LEMMA CallsStep == TypeOK /\ CallsInv /\ [Next]_vars => CallsInv'
<1> SUFFICES ASSUME TypeOK, CallsInv, [Next]_vars PROVE CallsInv'
  OBVIOUS
<1> USE DEF TypeOK, Goto, Answers
<1>1. ASSUME NEW d \in Calls, CallSchedule(d) \/ CallUnschedule(d) \/ CallQuery(d)
      PROVE  CallsInv'
  <2>1. PICK method, id, label :
          /\ Call(d, method, id, label)
          /\ \/ method = "schedule" /\ id = d /\ label \in {"add", "err"}
             \/ method = "unschedule" /\ id \in Known /\ label = "check"
             \/ method \in Queries /\ id \in Known /\ label = "look"
    BY <1>1 DEF CallSchedule, CallUnschedule, CallQuery
  <2>2. \A i \in Known : i = Stranger \/ Minted(i)'
    BY MintedIsKept DEF Known, Minted
  <2>3. \A i : Minted(i) => Minted(i)'
    BY MintedIsKept
  <2>4. ASSUME NEW e \in Calls
        PROVE  /\ (pc[e] \in LabelsOf(op[e]))'
               /\ (op[e] = "schedule" => target[e] = e)'
               /\ (op[e] \notin {"none", "schedule"} => target[e] = Stranger \/ Minted(target[e]))'
    <3>1. CASE e # d
      <4>1. op'[e] = op[e] /\ target'[e] = target[e] /\ pc'[e] = pc[e]
        BY <2>1, <3>1 DEF Call
      <4>2. pc[e] \in LabelsOf(op[e]) => (pc[e] \in LabelsOf(op[e]))'
        BY <4>1 DEF LabelsOf
      <4>3. Minted(target[e]) => Minted(target[e])'
        BY <4>1, <2>3 DEF Minted
      <4> QED  BY <4>1, <4>2, <4>3 DEF CallsInv
    <3>2. CASE e = d
      <4>1. op'[e] = method /\ target'[e] = id /\ pc'[e] = label
        BY <2>1, <3>2 DEF Call
      <4>2. (pc[e] \in LabelsOf(op[e]))'
        BY <2>1, <4>1 DEF LabelsOf, Queries
      <4>3. (op[e] = "schedule" => target[e] = e)'
        BY <2>1, <3>2, <4>1 DEF Queries
      <4>4. (op[e] \notin {"none", "schedule"} => target[e] = Stranger \/ Minted(target[e]))'
        BY <2>1, <2>2, <4>1 DEF Queries, Minted
      <4> QED  BY <4>2, <4>3, <4>4
    <3> QED  BY <3>1, <3>2
  <2> QED  BY <2>4 DEF CallsInv
<1>2. ASSUME op' = op, target' = target,
             \A e \in Calls : pc'[e] \in LabelsOf(op[e])
      PROVE  CallsInv'
  <2>1. \A i : Minted(i) => Minted(i)'
    BY MintedIsKept
  <2>2. ASSUME NEW e \in Calls
        PROVE  /\ (pc[e] \in LabelsOf(op[e]))'
               /\ (op[e] = "schedule" => target[e] = e)'
               /\ (op[e] \notin {"none", "schedule"} => target[e] = Stranger \/ Minted(target[e]))'
    <3>1. (pc[e] \in LabelsOf(op[e]))'
      BY <1>2 DEF LabelsOf
    <3>2. Minted(target[e]) => Minted(target[e])'
      BY <1>2, <2>1 DEF Minted
    <3> QED  BY <1>2, <3>1, <3>2 DEF CallsInv
  <2> QED  BY <2>2 DEF CallsInv
<1>3. ASSUME NEW d \in Calls, Step(d) \/ Drop(d)
      PROVE  CallsInv'
  <2>1. op' = op /\ target' = target
    BY <1>3 DEF Step, Acquire, AddJob, InnerFails, Insert, Check, RemoveJob, Erase, Look, Drop
  <2>2. pc[d] \in LabelsOf(op[d])
    BY DEF CallsInv
  <2>3. pc'[d] \in LabelsOf(op[d])
    <3>1. CASE Look(d)
      <4>1. op[d] \in Queries
        BY <2>2, <3>1 DEF LabelsOf, Look, Queries
      <4>2. AnswerOf(d) \in Answers
        BY <4>1 DEF AnswerOf, Queries
      <4> QED  BY <3>1, <4>1, <4>2 DEF Look, LabelsOf, Queries
    <3>2. CASE ~Look(d)
      BY <1>3, <2>2, <3>2 DEF Step, Acquire, AddJob, InnerFails, Insert, Check, RemoveJob, Erase,
                              Drop, LabelsOf, Inner, Critical
    <3> QED  BY <3>1, <3>2
  <2>4. \A e \in Calls \ {d} : pc'[e] = pc[e]
    BY <1>3 DEF Step, Acquire, AddJob, InnerFails, Insert, Check, RemoveJob, Erase, Look, Drop
  <2> QED  BY <1>2, <2>1, <2>3, <2>4 DEF CallsInv
<1>4. ASSUME UNCHANGED <<op, target, pc>> PROVE CallsInv'
  BY <1>2, <1>4 DEF CallsInv
<1> QED  BY <1>1, <1>3, <1>4 DEF Next, Tick, RunEnds, Start, Shutdown, vars

\* What a step does to the jobs and the registry, and what it tells.
JobsEffects ==
  /\ \A i \in jobs' \ jobs : pc[i] = "add" /\ pc'[i] \in {"insert", "dropped"}
  /\ \A i \in jobs \ jobs' :
       \E c \in Calls : pc[c] = "remove" /\ target[c] = i /\ pc'[c] \in {"erase", "dropped"}
  /\ \A c \in Calls : pc'[c] = "erase" /\ pc[c] # "erase" => target[c] \notin jobs'
  /\ \A i \in Calls : pc'[i] = "insert" /\ pc[i] # "insert" => i \in jobs'

RegistryEffects ==
  /\ \A i \in registry' \ registry : pc[i] = "insert" /\ pc'[i] = "ok"
  /\ \A i \in registry \ registry' :
       \E c \in Calls : pc[c] = "erase" /\ target[c] = i /\ pc'[c] = "ok" /\ jobs' = jobs
  /\ \A c \in Calls : pc[c] = "erase" /\ pc'[c] \notin {"erase", "dropped"} =>
       target[c] \notin registry'
  /\ \A c \in Calls : pc[c] = "insert" =>
       \/ pc'[c] \in {"insert", "dropped"}
       \/ pc'[c] = "ok" /\ c \in registry'

AnswerEffects ==
  /\ \A c \in Calls : pc'[c] = "UnknownJob" /\ pc[c] # "UnknownJob" =>
       op[c] \notin {"none", "schedule"} /\ target[c] \notin registry
  /\ \A c \in Calls : pc'[c] = "ok" /\ pc[c] # "ok" =>
       pc[c] \in {"insert", "erase", "look"}
  /\ \A c \in Calls : op[c] = "none" =>
       \/ op'[c] = "none" /\ pc'[c] = pc[c]
       \/ pc'[c] \in {"add", "err", "check", "look"}

\* Which method a label belongs to.
LEMMA MethodOfLabel ==
  ASSUME CallsInv, NEW c \in Calls
  PROVE  /\ op[c] = "none" => pc[c] = "idle"
         /\ pc[c] \in {"add", "insert"} => op[c] = "schedule"
         /\ pc[c] \in {"check", "remove", "erase"} => op[c] = "unschedule"
         /\ pc[c] = "look" => op[c] \notin {"none", "schedule", "unschedule"}
         /\ pc[c] = "UnknownJob" => op[c] \notin {"none", "schedule"}
BY DEF CallsInv, LabelsOf, Answers

LEMMA StepEffects ==
  TypeOK /\ CallsInv /\ [Next]_vars => JobsEffects /\ RegistryEffects /\ AnswerEffects
<1> SUFFICES ASSUME TypeOK, CallsInv, [Next]_vars
             PROVE  JobsEffects /\ RegistryEffects /\ AnswerEffects
  OBVIOUS
<1> DEFINE Effects == JobsEffects /\ RegistryEffects /\ AnswerEffects
<1> USE MethodOfLabel DEF TypeOK, Goto
<1>1. ASSUME NEW d \in Calls, CallSchedule(d) \/ CallUnschedule(d) \/ CallQuery(d)
      PROVE  Effects
  <2>1. PICK method, id, label :
          Call(d, method, id, label) /\ label \in {"add", "err", "check", "look"}
    BY <1>1 DEF CallSchedule, CallUnschedule, CallQuery
  <2>2. /\ pc[d] = "idle" /\ jobs' = jobs /\ registry' = registry
        /\ pc' = [pc EXCEPT ![d] = label] /\ op' = [op EXCEPT ![d] = method]
    BY <2>1 DEF Call, innerVars
  <2>3. JobsEffects
    BY <2>1, <2>2 DEF JobsEffects
  <2>4. RegistryEffects
    BY <2>1, <2>2 DEF RegistryEffects
  <2>5. AnswerEffects
    BY <2>1, <2>2 DEF AnswerEffects
  <2> QED  BY <2>3, <2>4, <2>5
<1>2. ASSUME NEW d \in Calls, Acquire(d) PROVE Effects
  <2>1. JobsEffects
    BY <1>2 DEF Acquire, JobsEffects, innerVars
  <2>2. RegistryEffects
    BY <1>2 DEF Acquire, RegistryEffects, innerVars
  <2>3. AnswerEffects
    BY <1>2 DEF Acquire, AnswerEffects, innerVars
  <2> QED  BY <2>1, <2>2, <2>3
<1>3. ASSUME NEW d \in Calls, AddJob(d) PROVE Effects
  <2>1. JobsEffects
    BY <1>3 DEF AddJob, JobsEffects
  <2>2. RegistryEffects
    BY <1>3 DEF AddJob, RegistryEffects
  <2>3. AnswerEffects
    BY <1>3 DEF AddJob, AnswerEffects
  <2> QED  BY <2>1, <2>2, <2>3
<1>4. ASSUME NEW d \in Calls, InnerFails(d) PROVE Effects
  <2>1. JobsEffects
    BY <1>4 DEF InnerFails, JobsEffects, innerVars, Inner
  <2>2. RegistryEffects
    BY <1>4 DEF InnerFails, RegistryEffects, innerVars, Inner
  <2>3. AnswerEffects
    BY <1>4 DEF InnerFails, AnswerEffects, innerVars, Inner
  <2> QED  BY <2>1, <2>2, <2>3
<1>5. ASSUME NEW d \in Calls, Insert(d) PROVE Effects
  <2>1. JobsEffects
    BY <1>5 DEF Insert, JobsEffects, innerVars
  <2>2. RegistryEffects
    BY <1>5 DEF Insert, RegistryEffects, innerVars
  <2>3. AnswerEffects
    BY <1>5 DEF Insert, AnswerEffects, innerVars
  <2> QED  BY <2>1, <2>2, <2>3
<1>6. ASSUME NEW d \in Calls, Check(d) PROVE Effects
  <2>1. JobsEffects
    BY <1>6 DEF Check, JobsEffects, innerVars
  <2>2. RegistryEffects
    BY <1>6 DEF Check, RegistryEffects, innerVars
  <2>3. AnswerEffects
    BY <1>6 DEF Check, AnswerEffects, innerVars
  <2> QED  BY <2>1, <2>2, <2>3
<1>7. ASSUME NEW d \in Calls, RemoveJob(d) PROVE Effects
  <2>1. JobsEffects
    BY <1>7 DEF RemoveJob, JobsEffects
  <2>2. RegistryEffects
    BY <1>7 DEF RemoveJob, RegistryEffects
  <2>3. AnswerEffects
    BY <1>7 DEF RemoveJob, AnswerEffects
  <2> QED  BY <2>1, <2>2, <2>3
<1>8. ASSUME NEW d \in Calls, Erase(d) PROVE Effects
  <2>1. JobsEffects
    BY <1>8 DEF Erase, JobsEffects, innerVars
  <2>2. RegistryEffects
    BY <1>8 DEF Erase, RegistryEffects, innerVars
  <2>3. AnswerEffects
    BY <1>8 DEF Erase, AnswerEffects, innerVars
  <2> QED  BY <2>1, <2>2, <2>3
<1>9. ASSUME NEW d \in Calls, Look(d) PROVE Effects
  <2>1. op[d] \in Queries
    BY <1>9 DEF Look, Queries
  <2>2. AnswerOf(d) \in Answers /\ (AnswerOf(d) = "UnknownJob" => target[d] \notin registry)
    BY <2>1 DEF AnswerOf, Queries, Answers
  <2>3. JobsEffects
    BY <1>9, <2>2 DEF Look, innerVars, Answers, JobsEffects
  <2>4. RegistryEffects
    BY <1>9, <2>2 DEF Look, innerVars, Answers, RegistryEffects
  <2>5. AnswerEffects
    BY <1>9, <2>2 DEF Look, innerVars, Answers, AnswerEffects
  <2> QED  BY <2>3, <2>4, <2>5
<1>10. ASSUME NEW d \in Calls, Drop(d) PROVE Effects
  <2>1. JobsEffects
    BY <1>10 DEF Drop, Inner, Critical, JobsEffects
  <2>2. RegistryEffects
    BY <1>10 DEF Drop, Inner, Critical, RegistryEffects
  <2>3. AnswerEffects
    BY <1>10 DEF Drop, Inner, Critical, AnswerEffects
  <2> QED  BY <2>1, <2>2, <2>3
<1>11. ASSUME UNCHANGED <<op, target, pc, jobs, registry>> PROVE Effects
  BY <1>11 DEF JobsEffects, RegistryEffects, AnswerEffects
<1> QED
  BY <1>1, <1>2, <1>3, <1>4, <1>5, <1>6, <1>7, <1>8, <1>9, <1>10, <1>11
     DEF Next, Step, Tick, RunEnds, Start, Shutdown, vars

LEMMA JobsStep == TypeOK /\ CallsInv /\ JobsInv /\ [Next]_vars => JobsInv'
<1> SUFFICES ASSUME TypeOK, CallsInv, JobsInv, [Next]_vars PROVE JobsInv'
  OBVIOUS
<1>1. JobsEffects /\ RegistryEffects /\ AnswerEffects /\ CallsInv' /\ TypeOK'
  BY StepEffects, CallsStep, TypeStep
<1>2. \A c \in Calls : op[c] # "none" => op'[c] = op[c] /\ target'[c] = target[c]
  BY CallsAreKept
<1>3. \A c \in Calls : op[c] # "none" /\ pc[c] \in Answers \cup {"dropped"} => pc'[c] = pc[c]
  BY CallsAreKept
<1>4. \A i : Minted(i) => Minted(i)' /\ i \notin jobs' \ jobs /\ i \notin registry' \ registry
  BY <1>1, MintedIsKept DEF Minted, JobsEffects, RegistryEffects
<1>5. \A c \in Calls : op[c] = "unschedule" => target[c] = Stranger \/ Minted(target[c])
  BY DEF CallsInv
<1>6. ASSUME NEW i \in jobs'
      PROVE  (op[i] = "schedule" /\ pc[i] \in {"insert", "dropped", "ok"})'
  <2>1. CASE i \in jobs
    BY <1>1, <1>2, <1>3, <2>1 DEF JobsInv, RegistryEffects, TypeOK, Answers
  <2>2. CASE i \notin jobs
    BY <1>1, <1>2, <2>2, MethodOfLabel DEF JobsEffects, TypeOK
  <2> QED  BY <2>1, <2>2
<1>7. ASSUME NEW i \in registry' PROVE Minted(i)'
  <2>1. CASE i \in registry
    BY <1>4, <2>1 DEF JobsInv
  <2>2. CASE i \notin registry
    BY <1>1, <1>2, <2>2, MethodOfLabel DEF RegistryEffects, TypeOK, Minted
  <2> QED  BY <2>1, <2>2
<1>8. ASSUME NEW i \in Calls, pc'[i] = "insert" PROVE i \in jobs'
  <2>1. CASE pc[i] = "insert"
    <3>1. i \in jobs /\ ~Minted(i) /\ i # Stranger
      BY <2>1, StrangerAssumption DEF JobsInv, Minted
    <3>2. \A c \in Calls : pc[c] = "remove" => target[c] # i
      BY <1>5, <3>1, MethodOfLabel
    <3> QED  BY <1>1, <3>1, <3>2 DEF JobsEffects
  <2> QED  BY <1>1, <1>8, <2>1 DEF JobsEffects
<1>9. ASSUME NEW i \in Calls, Minted(i)', i \notin registry'
      PROVE  \E d \in Unscheduling(i)' : pc'[d] = "ok"
  <2>1. Minted(i)
    BY <1>1, <1>2, <1>9, MethodOfLabel DEF Minted, AnswerEffects, RegistryEffects
  <2>2. CASE i \in registry
    BY <1>1, <1>2, <1>9, <2>2, MethodOfLabel DEF RegistryEffects, Unscheduling
  <2>3. CASE i \notin registry
    <3>1. PICK d \in Unscheduling(i) : pc[d] = "ok"
      BY <2>1, <2>3 DEF JobsInv
    <3> QED  BY <1>2, <1>3, <3>1 DEF Unscheduling, Answers
  <2> QED  BY <2>2, <2>3
<1>10. ASSUME NEW c \in Calls, op'[c] = "unschedule"
       PROVE  /\ pc'[c] \in {"erase", "ok"} => target'[c] \notin jobs'
              /\ pc'[c] = "ok" => target'[c] \notin registry'
  <2>1. CASE op[c] = "none"
    BY <1>1, <1>10, <2>1, MethodOfLabel DEF AnswerEffects
  <2>2. CASE op[c] # "none"
    <3>1. op[c] = "unschedule" /\ target'[c] = target[c]
      BY <1>2, <1>10, <2>2
    <3>2. target[c] \notin jobs' \ jobs /\ target[c] \notin registry' \ registry
      BY <1>1, <1>4, <1>5, <3>1, StrangerAssumption DEF TypeOK
    <3>3. pc'[c] = "ok" => pc[c] \in {"ok", "erase"}
      BY <1>1, <3>1, MethodOfLabel DEF AnswerEffects
    <3>4. pc'[c] \in {"erase", "ok"} => target[c] \notin jobs'
      BY <1>1, <3>1, <3>2, <3>3 DEF JobsInv, JobsEffects
    <3>5. pc'[c] = "ok" => target[c] \notin registry'
      BY <1>1, <3>1, <3>2, <3>3 DEF JobsInv, RegistryEffects
    <3> QED  BY <3>1, <3>4, <3>5
  <2> QED  BY <2>1, <2>2
<1> QED  BY <1>6, <1>7, <1>8, <1>9, <1>10 DEF JobsInv

LEMMA MatchStep ==
  TypeOK /\ CallsInv /\ JobsInv /\ RegistryMatchesJobs /\ [Next]_vars => RegistryMatchesJobs'
<1> SUFFICES ASSUME TypeOK, CallsInv, JobsInv, RegistryMatchesJobs, [Next]_vars
             PROVE  RegistryMatchesJobs'
  OBVIOUS
<1>1. JobsEffects /\ RegistryEffects /\ AnswerEffects /\ JobsInv' /\ TypeOK'
  BY StepEffects, JobsStep, TypeStep
<1>2. \A c \in Calls : op[c] # "none" => op'[c] = op[c] /\ target'[c] = target[c]
  BY CallsAreKept
<1>3. \A c \in Calls : op[c] # "none" /\ pc[c] = "dropped" => pc'[c] = pc[c]
  BY CallsAreKept
<1>4. ASSUME NEW i \in jobs' \ registry' PROVE pc'[i] \in {"insert", "dropped"}
  <2>1. CASE i \in jobs
    <3>1. i \notin registry
      BY <1>1, <1>4, <2>1, MethodOfLabel DEF RegistryEffects, JobsInv
    <3>2. pc[i] \in {"insert", "dropped"} /\ op[i] = "schedule" /\ i \in Calls
      BY <2>1, <3>1 DEF RegistryMatchesJobs, JobsInv, TypeOK
    <3> QED  BY <1>1, <1>3, <1>4, <3>2 DEF RegistryEffects
  <2>2. CASE i \notin jobs
    BY <1>1, <1>4, <2>2 DEF JobsEffects
  <2> QED  BY <2>1, <2>2
<1>5. ASSUME NEW i \in registry' \ jobs'
      PROVE  \E c \in Unscheduling(i)' : pc'[c] \in {"erase", "dropped"}
  <2>1. CASE i \in jobs
    BY <1>1, <1>2, <1>5, <2>1, MethodOfLabel DEF JobsEffects, Unscheduling
  <2>2. CASE i \notin jobs
    <3>1. i \in registry
      BY <1>1, <1>5, <2>2 DEF RegistryEffects, JobsInv, TypeOK
    <3>2. PICK c \in Unscheduling(i) : pc[c] \in {"erase", "dropped"}
      BY <2>2, <3>1 DEF RegistryMatchesJobs
    <3>3. pc'[c] \in {"erase", "dropped"}
      BY <1>1, <1>3, <1>5, <3>2 DEF RegistryEffects, Unscheduling
    <3> QED  BY <1>2, <3>2, <3>3 DEF Unscheduling
  <2> QED  BY <2>1, <2>2
<1> QED  BY <1>4, <1>5 DEF RegistryMatchesJobs

LEMMA AnswersStep == IInv /\ [Next]_vars => AnswersAreRight'
<1> SUFFICES ASSUME IInv, [Next]_vars PROVE AnswersAreRight'
  OBVIOUS
<1>1. /\ TypeOK /\ CallsInv /\ JobsInv /\ RegistryMatchesJobs /\ AnswersAreRight
      /\ CallsInv' /\ JobsInv' /\ RegistryMatchesJobs' /\ AnswerEffects
  BY CallsStep, JobsStep, MatchStep, StepEffects DEF IInv
<1>2. \A c \in Calls : op[c] # "none" =>
        /\ op'[c] = op[c] /\ target'[c] = target[c]
        /\ pc[c] = "ok" => pc'[c] = "ok"
  BY <1>1, CallsAreKept DEF Answers
<1>3. ASSUME NEW c \in Calls, pc'[c] = "UnknownJob"
      PROVE  \/ target'[c] = Stranger
             \/ \E d \in Calls : op'[d] = "unschedule" /\ target'[d] = target'[c] /\ pc'[d] = "ok"
  <2>1. op[c] \notin {"none", "schedule"}
    BY <1>1, <1>3, MethodOfLabel DEF AnswerEffects
  <2>2. \/ target[c] = Stranger
        \/ \E d \in Calls : op[d] = "unschedule" /\ target[d] = target[c] /\ pc[d] = "ok"
    <3>1. CASE pc[c] = "UnknownJob"
      BY <1>1, <3>1 DEF AnswersAreRight, Unscheduling
    <3>2. CASE pc[c] # "UnknownJob"
      <4>1. target[c] \notin registry
        BY <1>1, <1>3, <3>2 DEF AnswerEffects
      <4>2. target[c] = Stranger \/ Minted(target[c])
        BY <1>1, <2>1 DEF CallsInv
      <4> QED  BY <1>1, <4>1, <4>2 DEF JobsInv, Minted, Unscheduling
    <3> QED  BY <3>1, <3>2
  <2> QED  BY <1>2, <2>1, <2>2
<1>4. ASSUME NEW c \in Calls, op'[c] = "unschedule", pc'[c] = "ok"
      PROVE  target'[c] \notin registry' \cup jobs'
  BY <1>1, <1>4 DEF JobsInv
<1>5. ASSUME NEW c \in Calls, op'[c] = "schedule", pc'[c] = "ok",
             ~ \E d \in Calls : op'[d] = "unschedule" /\ target'[d] = c
      PROVE  c \in registry' \cap jobs'
  <2>1. Minted(c)'
    BY <1>5 DEF Minted
  <2>2. c \in registry'
    BY <1>1, <1>5, <2>1 DEF JobsInv, Unscheduling
  <2> QED  BY <1>1, <1>5, <2>2 DEF RegistryMatchesJobs, Unscheduling
<1> QED  BY <1>3, <1>4, <1>5 DEF AnswersAreRight, Unscheduling

----------------------------------------------------------------------------

\* The inductive invariant holds in every state, whatever the calls do and
\* wherever they are dropped.
THEOREM Inductive == Spec => []IInv
<1>1. Init => IInv
  BY InitIInv
<1>2. IInv /\ [Next]_vars => IInv'
  BY TypeStep, CallsStep, JobsStep, MatchStep, AnswersStep DEF IInv
<1> QED  BY <1>1, <1>2, PTL DEF Spec

\* The types, and the mutual exclusion of the registry lock.
THEOREM TypesAreKept == Spec => []TypeOK
<1>1. IInv => TypeOK
  BY DEF IInv
<1> QED  BY <1>1, Inductive, PTL

\* The registry and the jobs of the inner scheduler differ only where a call
\* is between its two halves or was dropped there (lib.rs:133-145, 150-157).
THEOREM RegistryAndJobsMatch == Spec => []RegistryMatchesJobs
<1>1. IInv => RegistryMatchesJobs
  BY DEF IInv
<1> QED  BY <1>1, Inductive, PTL

\* UnknownJob is the answer for ids never minted or removed only, and a
\* removal that returned Ok is final (lib.rs:43-44).
THEOREM AnswersHold == Spec => []AnswersAreRight
<1>1. IInv => AnswersAreRight
  BY DEF IInv
<1> QED  BY <1>1, Inductive, PTL

----------------------------------------------------------------------------
(* What the registry is, in terms of the calls *)

\* Every call was left alone until it answered, and none is under way.
Quiet == \A c \in Calls : pc[c] \in {"idle"} \cup Answers

\* The registry is exactly the live ids in every state, and once all calls have
\* answered the inner scheduler has a job for each of them and no other: the two
\* stores come apart only through calls under way or dropped (lib.rs:133-157).
THEOREM RegistryIsTheLiveIds == Spec => [](RegistryIsLive /\ (Quiet => jobs = registry))
<1>1. ASSUME IInv PROVE RegistryIsLive
  <2>1. ASSUME NEW i \in registry
        PROVE  i \in Calls /\ Minted(i) /\ \A d \in Unscheduling(i) : pc[d] # "ok"
    BY <1>1, <2>1 DEF IInv, JobsInv, Minted, Unscheduling
  <2>2. ASSUME NEW i \in Calls, Minted(i), \A d \in Unscheduling(i) : pc[d] # "ok"
        PROVE  i \in registry
    BY <1>1, <2>2 DEF IInv, JobsInv
  <2>3. Known \ {Stranger} = {i \in Calls : Minted(i)}
    BY StrangerAssumption DEF Known, Minted
  <2> QED  BY <2>1, <2>2, <2>3 DEF RegistryIsLive
<1>2. ASSUME IInv, Quiet PROVE jobs = registry
  <2>1. jobs \subseteq Calls /\ registry \subseteq Calls
    BY <1>2 DEF IInv, TypeOK
  <2>2. \A c \in Calls : pc[c] \notin {"insert", "erase", "dropped"}
    BY <1>2 DEF Quiet, Answers
  <2>3. jobs \ registry = {}
    BY <1>2, <2>1, <2>2 DEF IInv, RegistryMatchesJobs
  <2>4. registry \ jobs = {}
    BY <1>2, <2>1, <2>2 DEF IInv, RegistryMatchesJobs, Unscheduling
  <2> QED  BY <2>3, <2>4
<1> QED  BY <1>1, <1>2, Inductive, PTL

----------------------------------------------------------------------------
(* Progress of the calls, as far as safety can say it *)

UnderWay(c) == pc[c] \in Inner \cup Critical

\* The guards of Step: the call awaits the inner scheduler, holds its guard of
\* the lock, or finds the lock free for what it wants.
CanGoOn(c) ==
  /\ UnderWay(c)
  /\ \/ pc[c] \in Inner
     \/ held[c] # "no"
     \/ \A d \in Calls : held[d] # "write" /\ (Mode(c) = "write" => held[d] = "no")

\* A call that cannot go on waits for one that holds the lock, and a call that
\* holds the lock can go on and gives it up by the very step it takes next.
NobodyIsStuck ==
  \A c \in Calls : UnderWay(c) =>
    CanGoOn(c) \/ \E d \in Calls \ {c} : held[d] # "no" /\ CanGoOn(d)

HoldersLetGo == \A d \in Calls : held[d] # "no" /\ Step(d) => held'[d] = "no"

\* The most steps left to a call that is under way.
StepsOf(label) ==
  CASE label = "check"                       -> 5
    [] label \in Inner                       -> 3
    [] label \in {"insert", "erase", "look"} -> 2
    [] label \notin Inner \cup Critical      -> 0

CallStepsLeft(c) == StepsOf(pc[c]) - (IF held[c] = "no" THEN 0 ELSE 1)

\* A call under way only comes nearer to its answer, and keeps it then.
CallsDrawNearer ==
  \A c \in Calls :
    /\ pc[c] # "idle" => CallStepsLeft(c)' <= CallStepsLeft(c)
    /\ Step(c) \/ Drop(c) => CallStepsLeft(c)' < CallStepsLeft(c)
    /\ pc[c] \in Answers \cup {"dropped"} => UNCHANGED <<op[c], target[c], pc[c]>>

LEMMA StepsOfLabel ==
  /\ StepsOf("check") = 5 /\ StepsOf("add") = 3 /\ StepsOf("remove") = 3
  /\ StepsOf("insert") = 2 /\ StepsOf("erase") = 2 /\ StepsOf("look") = 2
  /\ \A label \in {"idle", "dropped"} \cup Answers : StepsOf(label) = 0
BY DEF StepsOf, Inner, Critical, Answers

LEMMA CallStepsLeftIsNat ==
  ASSUME TypeOK, NEW c \in Calls
  PROVE  CallStepsLeft(c) \in 0..5 /\ (CallStepsLeft(c) = 0 <=> ~UnderWay(c))
<1>1. /\ held[c] # "no" => pc[c] \in Critical
      /\ pc[c] \in {"idle", "dropped"} \cup Inner \cup Critical \cup Answers
  BY DEF TypeOK
<1>2. CASE UnderWay(c)
  <2>1. CASE pc[c] \in Inner
    <3>1. StepsOf(pc[c]) = 3 /\ held[c] = "no"
      BY <1>1, <2>1, StepsOfLabel DEF Inner, Critical
    <3> QED  BY <1>2, <3>1 DEF CallStepsLeft
  <2>2. CASE pc[c] \in Critical
    <3>1. StepsOf(pc[c]) \in {2, 5}
      BY <2>2, StepsOfLabel DEF Critical
    <3> QED  BY <1>2, <3>1 DEF CallStepsLeft
  <2> QED  BY <1>2, <2>1, <2>2 DEF UnderWay
<1>3. CASE ~UnderWay(c)
  <2>1. pc[c] \in {"idle", "dropped"} \cup Answers /\ held[c] = "no"
    BY <1>1, <1>3 DEF UnderWay
  <2>2. StepsOf(pc[c]) = 0
    BY <2>1, StepsOfLabel
  <2> QED  BY <1>3, <2>1, <2>2 DEF CallStepsLeft
<1> QED  BY <1>2, <1>3

LEMMA LockIsShared ==
  ASSUME TypeOK
  PROVE  NobodyIsStuck
<1> SUFFICES ASSUME NEW c \in Calls, UnderWay(c), ~CanGoOn(c)
             PROVE  \E d \in Calls \ {c} : held[d] # "no" /\ CanGoOn(d)
  BY DEF NobodyIsStuck
<1>1. PICK d \in Calls : held[d] # "no"
  BY DEF CanGoOn
<1>2. d # c
  BY <1>1 DEF CanGoOn
<1>3. UnderWay(d)
  BY <1>1 DEF TypeOK, UnderWay
<1> QED  BY <1>1, <1>2, <1>3 DEF CanGoOn

\* What a step of a call does to its own place and guard, and to the others'.
LEMMA StepShrinks ==
  ASSUME TypeOK, CallsInv, NEW c \in Calls, Step(c) \/ Drop(c)
  PROVE  /\ CallStepsLeft(c)' < CallStepsLeft(c) /\ CallStepsLeft(c)' <= CallStepsLeft(c)
         /\ held[c] # "no" => held'[c] = "no"
         /\ \A d \in Calls \ {c} : pc'[d] = pc[d] /\ held'[d] = held[d]
<1> USE DEF Goto, Release
<1>0. DOMAIN pc = Calls /\ DOMAIN held = Calls
  BY DEF TypeOK
<1>1. \A d \in Calls \ {c} : pc'[d] = pc[d] /\ held'[d] = held[d]
  BY <1>0 DEF Step, Acquire, AddJob, InnerFails, Insert, Check, RemoveJob, Erase, Look, Drop
<1>2. CallStepsLeft(c)' = StepsOf(pc'[c]) - (IF held'[c] = "no" THEN 0 ELSE 1)
  BY DEF CallStepsLeft
<1>3. CASE Acquire(c)
  <2>1. pc' = pc /\ held[c] = "no" /\ held'[c] # "no" /\ pc[c] \in Critical
    BY <1>0, <1>3 DEF Acquire, Mode
  <2>2. StepsOf(pc[c]) \in Nat
    BY <2>1, StepsOfLabel DEF Critical
  <2> QED  BY <1>1, <1>2, <2>1, <2>2 DEF CallStepsLeft
<1>4. CASE Insert(c) \/ Check(c) \/ Erase(c) \/ Look(c)
  <2>1. held[c] # "no" /\ held'[c] = "no"
    BY <1>0, <1>4 DEF Insert, Check, Erase, Look
  <2>2. \/ pc[c] \in {"insert", "erase", "look"} /\ pc'[c] \in Answers
        \/ pc[c] = "check" /\ pc'[c] \in {"remove", "UnknownJob"}
    <3>1. CASE Look(c)
      <4>1. pc[c] = "look" /\ pc'[c] = AnswerOf(c)
        BY <1>0, <3>1 DEF Look
      <4>2. op[c] \in Queries
        BY <4>1 DEF CallsInv, LabelsOf, TypeOK, Answers
      <4>3. AnswerOf(c) \in Answers
        BY <4>2 DEF AnswerOf, Queries, Answers
      <4> QED  BY <4>1, <4>3
    <3>2. CASE ~Look(c)
      BY <1>0, <1>4, <3>2 DEF Insert, Check, Erase, Answers
    <3> QED  BY <3>1, <3>2
  <2> QED  BY <1>1, <1>2, <2>1, <2>2, StepsOfLabel DEF CallStepsLeft, Answers
<1>5. CASE AddJob(c) \/ InnerFails(c) \/ RemoveJob(c)
  <2>1. /\ pc[c] \in Inner /\ pc'[c] \in {"insert", "erase", "err"} /\ held' = held
    BY <1>0, <1>5 DEF AddJob, InnerFails, RemoveJob, Inner
  <2>2. held[c] = "no"
    BY <2>1 DEF TypeOK, Inner, Critical
  <2> QED  BY <1>1, <1>2, <2>1, <2>2, StepsOfLabel DEF CallStepsLeft, Inner, Answers
<1>6. CASE Drop(c)
  <2>1. /\ pc[c] \in Inner \cup Critical /\ pc'[c] = "dropped"
        /\ held' = held /\ held[c] = "no"
    BY <1>0, <1>6 DEF Drop
  <2> QED  BY <1>1, <1>2, <2>1, StepsOfLabel DEF CallStepsLeft, Inner, Critical
<1> QED  BY <1>3, <1>4, <1>5, <1>6 DEF Step

\* The calls cannot block one another: in every state a call under way can go
\* on, or another holds the lock, can go on and lets it go by its next step; and
\* no call takes more than five steps (lib.rs:133-145, 150-157, 160-185).  What
\* is left of CallsReturn is that the runtime polls each call.
THEOREM CallsAreBounded ==
  Spec => /\ [](NobodyIsStuck /\ \A c \in Calls : CallStepsLeft(c) \in 0..5)
          /\ [][CallsDrawNearer /\ HoldersLetGo]_vars
<1>1. TypeOK => NobodyIsStuck /\ \A c \in Calls : CallStepsLeft(c) \in 0..5
  BY LockIsShared, CallStepsLeftIsNat
<1>2. IInv /\ [Next]_vars => [CallsDrawNearer /\ HoldersLetGo]_vars
  <2> SUFFICES ASSUME TypeOK, CallsInv, Next PROVE CallsDrawNearer /\ HoldersLetGo
    BY DEF IInv
  <2>1. HoldersLetGo
    BY StepShrinks DEF HoldersLetGo
  <2>2. ASSUME NEW c \in Calls, pc[c] # "idle" PROVE CallStepsLeft(c)' <= CallStepsLeft(c)
    <3>1. CallStepsLeft(c) \in Nat
      BY CallStepsLeftIsNat
    <3>2. ASSUME pc'[c] = pc[c], held'[c] = held[c]
          PROVE  CallStepsLeft(c)' = CallStepsLeft(c)
      BY <3>2 DEF CallStepsLeft
    <3>3. CASE Step(c) \/ Drop(c)
      BY <3>3, StepShrinks
    <3>4. ASSUME NEW d \in Calls \ {c}, Step(d) \/ Drop(d)
          PROVE  pc'[c] = pc[c] /\ held'[c] = held[c]
      BY <3>4, StepShrinks
    <3>5. ASSUME NEW d \in Calls, CallSchedule(d) \/ CallUnschedule(d) \/ CallQuery(d)
          PROVE  pc'[c] = pc[c] /\ held'[c] = held[c]
      <4>1. PICK method, id, label : Call(d, method, id, label)
        BY <3>5 DEF CallSchedule, CallUnschedule, CallQuery
      <4> QED  BY <2>2, <4>1 DEF Call, Goto, TypeOK
    <3>6. ASSUME NEW i \in Calls, Tick(i) \/ RunEnds(i) \/ Start \/ Shutdown
          PROVE  pc'[c] = pc[c] /\ held'[c] = held[c]
      BY <3>6 DEF Tick, RunEnds, Start, Shutdown
    <3>7. CASE Start \/ Shutdown
      BY <3>1, <3>2, <3>6, <3>7
    <3> QED  BY <3>1, <3>2, <3>3, <3>4, <3>5, <3>6, <3>7 DEF Next
  <2>3. ASSUME NEW c \in Calls, Step(c) \/ Drop(c)
        PROVE  CallStepsLeft(c)' < CallStepsLeft(c)
    BY <2>3, StepShrinks
  <2>4. ASSUME NEW c \in Calls, pc[c] \in Answers \cup {"dropped"}
        PROVE  op'[c] = op[c] /\ target'[c] = target[c] /\ pc'[c] = pc[c]
    <3>1. op[c] # "none"
      BY <2>4 DEF CallsInv, LabelsOf, Answers
    <3> QED  BY <2>4, <3>1, CallsAreKept
  <2> QED  BY <2>1, <2>2, <2>3, <2>4 DEF CallsDrawNearer
<1> QED  BY <1>1, <1>2, Inductive, TypesAreKept, PTL DEF Spec
=============================================================================
