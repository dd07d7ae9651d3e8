--------------------------- MODULE BackfillProofs ---------------------------
(***************************************************************************)
(* Theorems about Backfill, for every set of calls, ranges and dags.       *)
(*                                                                         *)
(* A backfill only makes calls of LocalRunner::run, so its behaviours are  *)
(* behaviours of LocalRunner, and what LocalRunnerProofs proves of the     *)
(* rows holds under any number of overlapping backfills.                   *)
(***************************************************************************)
EXTENDS Backfill, LocalRunnerProofs

\* One day later is one date later.
LEMMA NextDate ==
  ASSUME NEW t \in Nat
  PROVE  DateOf(t + DayLen) = DateOf(t) + 1 /\ DateOf(t) \in Nat
BY DayAssumption DEF DateOf

LEMMA DateMonotonic ==
  ASSUME NEW s \in Nat, NEW t \in Nat, s <= t
  PROVE  DateOf(s) <= DateOf(t)
BY DayAssumption DEF DateOf

----------------------------------------------------------------------------
(* The command's own variables *)

\* A run is under way for a date of the range only.
CmdOK ==
  /\ range \in [Calls -> Ranges]
  /\ bpc \in [Calls -> {"idle", "loop", "run"} \cup Over]
  /\ runs_executed \in [Calls -> Nat]
  /\ cursor = [c \in Calls |-> First(c) + DayLen * runs_executed[c]]
  /\ \A c \in Calls : bpc[c] = "run" => cursor[c] <= Last(c)

LEMMA CmdFacts ==
  ASSUME CmdOK, NEW c \in Calls
  PROVE  /\ First(c) \in Nat /\ Last(c) \in Nat /\ runs_executed[c] \in Nat
         /\ cursor[c] \in Nat /\ First(c) <= cursor[c]
         /\ DateOf(First(c)) <= DateOf(cursor[c])
         /\ CalendarDays(c) \subseteq Dates
         /\ cursor[c] <= Last(c) => DateOf(cursor[c]) \in Dates /\ Day(c) \in Attempts
<1>1. First(c) \in Nat /\ Last(c) \in Nat /\ runs_executed[c] \in Nat /\ CalendarDays(c) \subseteq Dates
  BY RangesAssumption DEF CmdOK, First, Last, CalendarDays
<1>2. DayLen * runs_executed[c] \in Nat
  BY <1>1, DayAssumption
<1>3. cursor[c] \in Nat /\ First(c) <= cursor[c]
  BY <1>1, <1>2 DEF CmdOK
<1>4. DateOf(First(c)) <= DateOf(cursor[c])
  BY <1>1, <1>3, DateMonotonic
<1>5. ASSUME cursor[c] <= Last(c)
      PROVE  DateOf(cursor[c]) \in CalendarDays(c)
  BY <1>1, <1>3, <1>4, <1>5, DateMonotonic, NextDate DEF CalendarDays
<1> QED  BY <1>1, <1>3, <1>4, <1>5, AttemptsAreDays DEF Day

LEMMA InitCmd == BackfillInit => CmdOK
<1> SUFFICES ASSUME BackfillInit PROVE CmdOK
  OBVIOUS
<1>1. \A c \in Calls : First(c) \in Nat
  BY RangesAssumption DEF BackfillInit, First
<1>2. \A c \in Calls : First(c) + DayLen * 0 = First(c)
  BY <1>1, DayAssumption
<1> QED  BY <1>2 DEF BackfillInit, CmdOK, First

LEMMA NextCmd == CmdOK /\ [BackfillNext]_backfillVars => CmdOK'
<1> SUFFICES ASSUME CmdOK, [BackfillNext]_backfillVars PROVE CmdOK'
  OBVIOUS
<1>1. ASSUME NEW c \in Calls, NextDay(c) PROVE CmdOK'
  <2>1. range' = range /\ bpc' = [bpc EXCEPT ![c] = "loop"]
    BY <1>1 DEF NextDay, BGoto
  <2>2. runs_executed' = [runs_executed EXCEPT ![c] = @ + 1]
    BY <1>1 DEF NextDay
  <2>3. cursor[c] + DayLen = First(c) + DayLen * (runs_executed[c] + 1)
    BY CmdFacts, DayAssumption DEF CmdOK
  <2>4. cursor' = [b \in Calls |-> First(b) + DayLen * runs_executed'[b]]
    BY <1>1, <2>2, <2>3 DEF NextDay, CmdOK
  <2>5. \A b \in Calls : bpc'[b] = "run" => b # c /\ bpc[b] = "run" /\ cursor'[b] = cursor[b]
    BY <1>1, <2>1 DEF NextDay, CmdOK
  <2>6. range' \in [Calls -> Ranges] /\ bpc' \in [Calls -> {"idle", "loop", "run"} \cup Over]
    BY <2>1 DEF CmdOK
  <2>7. runs_executed' \in [Calls -> Nat]
    BY <2>2 DEF CmdOK
  <2> QED  BY <2>1, <2>4, <2>5, <2>6, <2>7 DEF CmdOK, First, Last
<1>2. ASSUME NEW c \in Calls, UNCHANGED <<range, cursor, runs_executed>>,
             \/ bpc' = bpc
             \/ bpc' = [bpc EXCEPT ![c] = "run"] /\ cursor[c] <= Last(c)
             \/ \E label \in {"loop"} \cup Over : bpc' = [bpc EXCEPT ![c] = label]
      PROVE  CmdOK'
  BY <1>2 DEF CmdOK, First, Last, Over
<1>3. ASSUME NEW c \in Calls,
             Refuse(c) \/ Open(c) \/ BuildFails(c) \/ StartDay(c) \/ RunDay(c)
               \/ BailDay(c) \/ Done(c) \/ CrashCall(c)
      PROVE  CmdOK'
  BY <1>2, <1>3 DEF Refuse, Open, BuildFails, StartDay, RunDay, BailDay, Done, CrashCall,
                    BGoto, Over, cmdVars
<1>4. CASE UNCHANGED backfillVars
  BY <1>4 DEF backfillVars, cmdVars, CmdOK, First, Last
<1> QED  BY <1>1, <1>3, <1>4 DEF BackfillNext, BStep

\* A step of a backfill is a step of the run it has under way, or leaves all
\* runs alone.
LEMMA WhoMoves ==
  ASSUME CmdOK, NEW c \in Calls, Refuse(c) \/ Open(c) \/ BStep(c) \/ CrashCall(c)
  PROVE  \/ UNCHANGED vars
         \/ /\ cursor' = cursor /\ cursor[c] <= Last(c) /\ Day(c) \in Attempts
            /\ \/ bpc[c] = "loop" /\ bpc'[c] = "run" /\ Begin(Day(c))
               \/ bpc[c] = "run" /\ (Step(Day(c)) \/ Crash(Day(c)))
<1>1. CASE StartDay(c)
  BY <1>1, CmdFacts DEF StartDay, BGoto, CmdOK
<1>2. CASE RunDay(c) \/ CrashCall(c)
  BY <1>2, CmdFacts DEF RunDay, CrashCall, cmdVars, CmdOK
<1>3. CASE Refuse(c) \/ Open(c) \/ BuildFails(c) \/ NextDay(c) \/ BailDay(c) \/ Done(c)
  BY <1>3 DEF Refuse, Open, BuildFails, NextDay, BailDay, Done
<1> QED  BY <1>1, <1>2, <1>3 DEF BStep

LEMMA StepIsRunnerStep == CmdOK /\ [BackfillNext]_backfillVars => [Next]_vars
BY WhoMoves DEF BackfillNext, Next, backfillVars

\* Whatever backfills do is something that LocalRunner may do.
THEOREM BackfillIsLocalRunner == BackfillSpec => Spec
<1>1. BackfillInit => Init
  BY DEF BackfillInit
<1>2. BackfillSpec => []CmdOK
  BY InitCmd, NextCmd, PTL DEF BackfillSpec
<1> QED  BY <1>1, <1>2, StepIsRunnerStep, PTL DEF BackfillSpec, Spec

\* The types of LocalRunner and of the command, the cursor among them: it is
\* always a whole number of days after the start.
THEOREM BackfillTypesAreKept == BackfillSpec => []BackfillTypeOK
<1>1. BackfillSpec => []CmdOK
  BY InitCmd, NextCmd, PTL DEF BackfillSpec
<1>2. BackfillSpec => []TypeOK
  BY BackfillIsLocalRunner, TypeCorrect, PTL
<1>3. CmdOK /\ TypeOK => BackfillTypeOK
  BY DEF CmdOK, BackfillTypeOK
<1> QED  BY <1>1, <1>2, <1>3, PTL

----------------------------------------------------------------------------
(* The days are run in order *)

\* The dates before the cursor have succeeded; the date of the cursor has been
\* started only once the call is in its run or over; later ones have not.
DaysOK ==
  \A c \in Calls :
    /\ \A d \in Started(c) :
         /\ DateOf(First(c)) <= d /\ d <= DateOf(cursor[c])
         /\ bpc[c] \in {"idle", "loop"} => d # DateOf(cursor[c])
    /\ \A e \in Dates : DateOf(First(c)) <= e /\ e < DateOf(cursor[c]) => e \in Succeeded(c)

\* A run that has ended stays as it is, and only its own call starts a run.
LEMMA RunsAreKept ==
  ASSUME TypeOK, CmdOK, [BackfillNext]_backfillVars, NEW c \in Calls, NEW d \in Dates
  PROVE  /\ d \in Succeeded(c) => d \in Succeeded(c)'
         /\ d \in Started(c)' /\ d \notin Started(c) =>
              /\ bpc[c] = "loop" /\ bpc'[c] = "run" /\ cursor' = cursor
              /\ d = DateOf(cursor[c])
<1> DEFINE a == <<c, d>>
<1>1. a \in Attempts
  BY AttemptsAreDays
<1>2. CASE UNCHANGED vars
  BY <1>2 DEF vars, localVars, Succeeded, Started, AllSucceeded
<1>3. ASSUME NEW b \in Calls, cursor' = cursor, Day(b) \in Attempts,
             \/ bpc[b] = "loop" /\ bpc'[b] = "run" /\ Begin(Day(b))
             \/ bpc[b] = "run" /\ (Step(Day(b)) \/ Crash(Day(b)))
      PROVE  /\ d \in Succeeded(c) => d \in Succeeded(c)'
             /\ d \in Started(c)' /\ d \notin Started(c) =>
                  /\ bpc[c] = "loop" /\ bpc'[c] = "run" /\ cursor' = cursor
                  /\ d = DateOf(cursor[c])
  <2>1. CASE Day(b) = a
    <3>1. pc[a] # "ok"
      BY <1>3, <2>1 DEF Begin, Step, RecordNextEdge, StartWalk, SkipTask, StartTask, ExecuteOk,
            ExecuteErr, PersistSucceeded, PersistFailed, ReturnOk, ReturnErr, Crash, Ended
    <3>2. Step(a) \/ Crash(a) => pc[a] # "idle"
      BY DEF Step, RecordNextEdge, StartWalk, SkipTask, StartTask, ExecuteOk,
            ExecuteErr, PersistSucceeded, PersistFailed, ReturnOk, ReturnErr, Crash
    <3>3. b = c /\ d = DateOf(cursor[c])
      BY <2>1 DEF Day
    <3> QED  BY <1>3, <2>1, <3>1, <3>2, <3>3 DEF Succeeded, Started
  <2>2. CASE Day(b) # a
    <3>1. dag' = dag /\ pc'[a] = pc[a] /\ task_states'[a] = task_states[a]
      BY <1>1, <1>3, <2>2, OthersUnchanged
    <3> QED  BY <3>1 DEF Succeeded, Started, AllSucceeded
  <2> QED  BY <2>1, <2>2
<1> QED  BY <1>2, <1>3, WhoMoves DEF BackfillNext, backfillVars

\* What a step does to the cursor of a call.
LEMMA CursorMoves ==
  ASSUME CmdOK, [BackfillNext]_backfillVars, NEW c \in Calls
  PROVE  /\ range' = range
         /\ \/ /\ cursor'[c] = cursor[c]
               /\ bpc'[c] \in {"idle", "loop"} => bpc[c] \in {"idle", "loop"}
            \/ /\ UNCHANGED vars
               /\ cursor'[c] = cursor[c] + DayLen /\ cursor[c] <= Last(c)
               /\ pc[Day(c)] = "ok" /\ AllSucceeded(Day(c))
<1>1. ASSUME NEW b \in Calls, NextDay(b)
      PROVE  /\ range' = range
             /\ b # c => cursor'[c] = cursor[c] /\ bpc'[c] = bpc[c]
             /\ b = c => /\ UNCHANGED vars
                         /\ cursor'[c] = cursor[c] + DayLen /\ cursor[c] <= Last(c)
                         /\ pc[Day(c)] = "ok" /\ AllSucceeded(Day(c))
  BY <1>1 DEF NextDay, BGoto, CmdOK
<1>2. ASSUME NEW b \in Calls,
             Refuse(b) \/ Open(b) \/ BuildFails(b) \/ StartDay(b) \/ RunDay(b)
               \/ BailDay(b) \/ Done(b) \/ CrashCall(b)
      PROVE  /\ range' = range /\ cursor' = cursor
             /\ bpc'[c] \in {"idle", "loop"} => bpc[c] \in {"idle", "loop"}
  BY <1>2 DEF Refuse, Open, BuildFails, StartDay, RunDay, BailDay, Done, CrashCall,
              BGoto, CmdOK, cmdVars
<1>3. CASE UNCHANGED backfillVars
  BY <1>3 DEF backfillVars, cmdVars
<1> QED  BY <1>1, <1>2, <1>3 DEF BackfillNext, BStep

LEMMA InitDays == BackfillInit => DaysOK
<1> SUFFICES ASSUME BackfillInit, NEW c \in Calls
             PROVE  /\ Started(c) = {}
                    /\ cursor[c] = First(c) /\ DateOf(First(c)) \in Nat
  BY DayAssumption DEF DaysOK
<1>1. Started(c) = {}
  BY AttemptsAreDays DEF BackfillInit, Init, Started
<1>2. cursor[c] = First(c) /\ First(c) \in Nat
  BY RangesAssumption DEF BackfillInit, First
<1> QED  BY <1>1, <1>2, NextDate

LEMMA NextDays == TypeOK /\ CmdOK /\ DaysOK /\ [BackfillNext]_backfillVars => DaysOK'
<1> SUFFICES ASSUME TypeOK, CmdOK, DaysOK, [BackfillNext]_backfillVars, NEW c \in Calls
             PROVE  (/\ \A d \in Started(c) :
                          /\ DateOf(First(c)) <= d /\ d <= DateOf(cursor[c])
                          /\ bpc[c] \in {"idle", "loop"} => d # DateOf(cursor[c])
                     /\ \A e \in Dates :
                          DateOf(First(c)) <= e /\ e < DateOf(cursor[c]) => e \in Succeeded(c))'
  BY DEF DaysOK
<1> DEFINE start == DateOf(First(c))
           today == DateOf(cursor[c])
<1>1. /\ First(c)' = First(c) /\ start' = start
      /\ start \in Nat /\ today \in Nat /\ start <= today /\ Dates \subseteq Nat
  BY CursorMoves, CmdFacts, NextDate, DayAssumption DEF First, DateOf
<1>2. \A d \in Dates : d \in Succeeded(c) => d \in Succeeded(c)'
  BY RunsAreKept
<1>3. \A d \in Started(c)' :
        \/ d \in Started(c)
        \/ bpc[c] = "loop" /\ bpc'[c] = "run" /\ cursor' = cursor /\ d = today
  BY RunsAreKept DEF Started
<1>4. CASE /\ cursor'[c] = cursor[c]
           /\ bpc'[c] \in {"idle", "loop"} => bpc[c] \in {"idle", "loop"}
  <2>1. today' = today
    BY <1>4 DEF DateOf
  <2>2. ASSUME NEW d \in Started(c)'
        PROVE  /\ start <= d /\ d <= today
               /\ bpc'[c] \in {"idle", "loop"} => d # today
    BY <1>1, <1>3, <1>4 DEF DaysOK
  <2>3. ASSUME NEW e \in Dates, start <= e, e < today
        PROVE  e \in Succeeded(c)'
    BY <1>2, <2>3 DEF DaysOK
  <2> QED  BY <1>1, <2>1, <2>2, <2>3
<1>5. CASE /\ UNCHANGED vars
           /\ cursor'[c] = cursor[c] + DayLen /\ cursor[c] <= Last(c)
           /\ pc[Day(c)] = "ok" /\ AllSucceeded(Day(c))
  <2>1. today' = today + 1
    BY <1>5, CmdFacts, NextDate DEF DateOf
  <2>2. today \in Dates /\ today \in Succeeded(c)
    BY <1>5, CmdFacts DEF Succeeded, Day
  <2>3. ASSUME NEW d \in Started(c)' PROVE start <= d /\ d <= today /\ d \in Dates
    BY <1>1, <1>3, <1>5 DEF DaysOK, Started
  <2>4. ASSUME NEW e \in Dates, start <= e, e < today + 1
        PROVE  e \in Succeeded(c)'
    <3>1. e \in Nat
      BY DayAssumption
    <3>2. e < today \/ e = today
      BY <1>1, <2>4, <3>1
    <3> QED  BY <1>2, <2>2, <2>4, <3>2 DEF DaysOK
  <2>5. ASSUME NEW d \in Started(c)' PROVE d <= today + 1 /\ d # today + 1
    <3>1. d \in Nat /\ d <= today
      BY <1>1, <2>3
    <3> HIDE DEF today
    <3> QED  BY <1>1, <3>1
  <2> QED  BY <1>1, <2>1, <2>3, <2>4, <2>5
<1> QED  BY <1>4, <1>5, CursorMoves

LEMMA DaysCorrect == BackfillSpec => [](CmdOK /\ DaysOK)
<1>1. BackfillSpec => []CmdOK
  BY InitCmd, NextCmd, PTL DEF BackfillSpec
<1>2. BackfillSpec => []TypeOK
  BY BackfillIsLocalRunner, TypeCorrect, PTL
<1> QED  BY <1>1, <1>2, InitDays, NextDays, PTL DEF BackfillSpec

\* A day is started only when every earlier day of the range has succeeded,
\* however many backfills overlap (main.rs:323-328).
THEOREM DaysAreInOrder == BackfillSpec => []DaysInOrder
<1>1. CmdOK /\ DaysOK => DaysInOrder
  <2> SUFFICES ASSUME CmdOK, DaysOK, NEW c \in Calls, NEW d \in Started(c),
                      NEW e \in CalendarDays(c), e < d
               PROVE  e \in Succeeded(c)
    BY DEF DaysInOrder
  <2>1. e \in Dates /\ DateOf(First(c)) <= e /\ d <= DateOf(cursor[c])
    BY CmdFacts DEF DaysOK, CalendarDays
  <2>2. e \in Nat /\ d \in Nat /\ DateOf(cursor[c]) \in Nat
    BY <2>1, CmdFacts, NextDate, DayAssumption DEF Started
  <2> QED  BY <2>1, <2>2 DEF DaysOK
<1> QED  BY <1>1, DaysCorrect, PTL

----------------------------------------------------------------------------
(* A complete backfill is complete *)

LEMMA Strictly ==
  ASSUME NEW i \in Int, NEW j \in Int
  PROVE  i < j <=> DayLen * i < DayLen * j
BY DayAssumption

\* Quotient and remainder are unique.
LEMMA DateIs ==
  ASSUME NEW q \in Int, NEW r \in Nat, r < DayLen, DayLen * q + r \in Nat
  PROVE  DateOf(DayLen * q + r) = q /\ TimeOfDay(DayLen * q + r) = r
<1> DEFINE t == DayLen * q + r
           p == t \div DayLen
           s == t % DayLen
<1>1. p \in Int /\ s \in Nat /\ s < DayLen /\ t = DayLen * p + s /\ DayLen \in Nat
  BY DayAssumption
<1> HIDE DEF p, s
<1>2. DayLen * p < DayLen * q + DayLen /\ DayLen * q < DayLen * p + DayLen
  BY <1>1
<1>3. DayLen * q + DayLen = DayLen * (q + 1) /\ DayLen * p + DayLen = DayLen * (p + 1)
  BY <1>1
<1>4. p < q + 1 /\ q < p + 1
  BY <1>1, <1>2, <1>3, Strictly
<1>5. p = q
  BY <1>1, <1>4
<1>6. s = r
  BY <1>1, <1>5
<1> QED  BY <1>5, <1>6 DEF DateOf, TimeOfDay, p, s

\* What date and time of day make of an instant.
LEMMA InstantIs ==
  ASSUME NEW t \in Nat
  PROVE  /\ DateOf(t) \in Nat /\ TimeOfDay(t) \in Nat /\ TimeOfDay(t) < DayLen
         /\ t = DayLen * DateOf(t) + TimeOfDay(t)
BY DayAssumption DEF DateOf, TimeOfDay

\* Days later it is the same time of day.
LEMMA DaysLater ==
  ASSUME NEW t \in Nat, NEW n \in Nat
  PROVE  DateOf(t + DayLen * n) = DateOf(t) + n /\ TimeOfDay(t + DayLen * n) = TimeOfDay(t)
<1> DEFINE q == DateOf(t)
           r == TimeOfDay(t)
<1>1. q \in Nat /\ r \in Nat /\ r < DayLen /\ t = DayLen * q + r
  BY InstantIs
<1> HIDE DEF q, r
<1>2. t + DayLen * n = DayLen * (q + n) + r
  BY <1>1, DayAssumption
<1>3. t + DayLen * n \in Nat /\ q + n \in Int
  BY <1>1, DayAssumption
<1>4. DateOf(DayLen * (q + n) + r) = q + n /\ TimeOfDay(DayLen * (q + n) + r) = r
  BY <1>1, <1>2, <1>3, DateIs
<1> QED  BY <1>2, <1>4 DEF q, r

\* The first instant of a range's steps that is past its end: the dates before
\* it are those that the range covers.
LEMMA PastTheEnd ==
  ASSUME NEW t \in Nat, NEW last \in Nat, t > last, t <= last + DayLen
  PROVE  /\ TimeOfDay(t) <= TimeOfDay(last) => DateOf(t) = DateOf(last) + 1
         /\ TimeOfDay(t) > TimeOfDay(last) => DateOf(t) = DateOf(last)
<1> DEFINE q == DateOf(t)
           r == TimeOfDay(t)
           p == DateOf(last)
           s == TimeOfDay(last)
<1>1. /\ q \in Nat /\ r \in Nat /\ r < DayLen /\ t = DayLen * q + r
      /\ p \in Nat /\ s \in Nat /\ s < DayLen /\ last = DayLen * p + s
      /\ DayLen \in Nat
  BY InstantIs, DayAssumption
<1> HIDE DEF q, r, p, s
<1>2. /\ DayLen * (p + 1) = DayLen * p + DayLen
      /\ DayLen * (p + 2) = DayLen * p + DayLen + DayLen
      /\ DayLen * (q + 1) = DayLen * q + DayLen
      /\ DayLen * p \in Nat /\ DayLen * q \in Nat
  BY <1>1
<1>3. CASE r <= s
  <2>1. DayLen * p < DayLen * q /\ DayLen * q < DayLen * (p + 2)
    BY <1>1, <1>2, <1>3
  <2>2. p < q /\ q < p + 2
    BY <1>1, <2>1, Strictly
  <2> QED  BY <1>1, <1>3, <2>2 DEF p, q, r, s
<1>4. CASE r > s
  <2>1. DayLen * p < DayLen * (q + 1) /\ DayLen * q < DayLen * (p + 1)
    BY <1>1, <1>2, <1>4
  <2>2. p < q + 1 /\ q < p + 1
    BY <1>1, <2>1, Strictly
  <2> QED  BY <1>1, <1>4, <2>2 DEF p, q, r, s
<1> QED  BY <1>1, <1>3, <1>4

\* A call that got into its loop had a range that is not inverted, and leaves
\* the loop one day past its end at most.
LoopOK ==
  \A c \in Calls :
    /\ bpc[c] = "idle" => cursor[c] = First(c)
    /\ bpc[c] \in {"loop", "run", "done"} => First(c) <= Last(c) /\ cursor[c] <= Last(c) + DayLen
    /\ bpc[c] = "done" => cursor[c] > Last(c) /\ DateOf(cursor[c]) \notin Started(c)

LEMMA NextLoop ==
  TypeOK /\ CmdOK /\ DaysOK /\ LoopOK /\ [BackfillNext]_backfillVars => LoopOK'
<1> SUFFICES ASSUME TypeOK, CmdOK, DaysOK, LoopOK, [BackfillNext]_backfillVars, NEW c \in Calls
             PROVE  (/\ bpc[c] = "idle" => cursor[c] = First(c)
                     /\ bpc[c] \in {"loop", "run", "done"} =>
                          First(c) <= Last(c) /\ cursor[c] <= Last(c) + DayLen
                     /\ bpc[c] = "done" =>
                          cursor[c] > Last(c) /\ DateOf(cursor[c]) \notin Started(c))'
  BY DEF LoopOK
<1>1. /\ First(c)' = First(c) /\ Last(c)' = Last(c) /\ DayLen \in Nat
      /\ First(c) \in Nat /\ Last(c) \in Nat /\ cursor[c] \in Nat
  BY CursorMoves, CmdFacts, DayAssumption DEF First, Last
\* What the steps of the calls do to the label and the cursor of c.
<1> DEFINE Moves ==
      \/ cursor'[c] = cursor[c] /\ bpc'[c] \in {bpc[c], "err", "crashed"}
      \/ cursor'[c] = cursor[c] /\ bpc[c] = "loop" /\ bpc'[c] = "run"
      \/ /\ bpc[c] = "idle" /\ bpc'[c] = "loop"
         /\ cursor' = cursor /\ First(c) <= Last(c) /\ UNCHANGED vars
      \/ /\ bpc[c] = "run" /\ bpc'[c] = "loop"
         /\ cursor'[c] = cursor[c] + DayLen
      \/ /\ bpc[c] = "loop" /\ bpc'[c] = "done"
         /\ cursor' = cursor /\ cursor[c] > Last(c) /\ UNCHANGED vars
<1>2. Moves
  <2>1. ASSUME NEW b \in Calls, NextDay(b) PROVE Moves
    BY <2>1 DEF NextDay, BGoto, CmdOK
  <2>2. ASSUME NEW b \in Calls, Open(b) \/ Done(b) PROVE Moves
    BY <2>2 DEF Open, Done, BGoto, CmdOK
  <2>3. ASSUME NEW b \in Calls,
               Refuse(b) \/ BuildFails(b) \/ StartDay(b) \/ RunDay(b) \/ BailDay(b) \/ CrashCall(b)
        PROVE  Moves
    BY <2>3 DEF Refuse, BuildFails, StartDay, RunDay, BailDay, CrashCall, BGoto, CmdOK, cmdVars
  <2>4. CASE UNCHANGED backfillVars
    BY <2>4 DEF backfillVars, cmdVars
  <2> QED  BY <2>1, <2>2, <2>3, <2>4 DEF BackfillNext, BStep
<1>3. \A d \in Started(c)' : d \in Started(c) \/ (bpc[c] = "loop" /\ bpc'[c] = "run")
  BY RunsAreKept DEF Started
<1>4. /\ bpc[c] \in {"loop", "run", "done"} => First(c) <= Last(c) /\ cursor[c] <= Last(c) + DayLen
      /\ bpc[c] = "done" => cursor[c] > Last(c) /\ DateOf(cursor[c]) \notin Started(c)
      /\ bpc[c] = "loop" => DateOf(cursor[c]) \notin Started(c)
      /\ bpc[c] = "run" => cursor[c] <= Last(c)
      /\ bpc[c] = "idle" => cursor[c] = First(c)
  BY DEF LoopOK, DaysOK, CmdOK
<1> QED  BY <1>1, <1>2, <1>3, <1>4 DEF DateOf

LEMMA LoopCorrect == BackfillSpec => []LoopOK
<1>1. BackfillInit => LoopOK
  BY DayAssumption, RangesAssumption DEF BackfillInit, LoopOK, First
<1>2. BackfillSpec => []TypeOK
  BY BackfillIsLocalRunner, TypeCorrect, PTL
<1> QED  BY <1>1, <1>2, DaysCorrect, NextLoop, PTL DEF BackfillSpec

\* "OK: backfill complete" is printed when exactly the dates that the range
\* covers have had a run, all Succeeded, and their number is printed with it
\* (main.rs:314-337).
THEOREM CompleteMeansComplete == BackfillSpec => []CompleteIsComplete
<1>4. ASSUME CmdOK, DaysOK, LoopOK, NEW c \in Calls, bpc[c] = "done"
      PROVE  /\ Started(c) = Covered(c)
             /\ Succeeded(c) = Covered(c)
             /\ runs_executed[c] = Cardinality(Covered(c))
  <2> DEFINE q == DateOf(First(c))
             n == runs_executed[c]
             Run == {d \in Dates : q <= d /\ d < q + n}
  <2>1. /\ First(c) \in Nat /\ Last(c) \in Nat /\ cursor[c] \in Nat /\ n \in Nat /\ q \in Nat
        /\ Dates \subseteq Nat /\ CalendarDays(c) \subseteq Dates
        /\ First(c) <= Last(c) /\ Last(c) < cursor[c] /\ cursor[c] <= Last(c) + DayLen
    BY <1>4, CmdFacts, InstantIs, DayAssumption DEF LoopOK
  <2>2. cursor[c] = First(c) + DayLen * n
    BY <1>4 DEF CmdOK
  <2>3. DateOf(cursor[c]) = q + n /\ TimeOfDay(cursor[c]) = TimeOfDay(First(c))
    BY <2>1, <2>2, DaysLater
  <2>4. /\ TimeOfDay(First(c)) <= TimeOfDay(Last(c)) => q + n = DateOf(Last(c)) + 1
        /\ TimeOfDay(First(c)) > TimeOfDay(Last(c)) => q + n = DateOf(Last(c))
        /\ DateOf(Last(c)) \in Nat
        /\ TimeOfDay(First(c)) \in Nat /\ TimeOfDay(Last(c)) \in Nat
    BY <2>1, <2>3, PastTheEnd, InstantIs
  <2> HIDE DEF q, n
  <2>5. Covered(c) = q..(q + n - 1)
    <3>1. CalendarDays(c) = q..DateOf(Last(c))
      BY DEF CalendarDays, q
    <3> QED  BY <2>1, <2>4, <3>1 DEF Covered
  <2>6. Covered(c) = Run
    <3>1. Covered(c) \subseteq Dates
      BY <2>1 DEF Covered
    <3>2. \A d \in Nat : d \in q..(q + n - 1) <=> q <= d /\ d < q + n
      BY <2>1
    <3> QED  BY <2>1, <2>5, <3>1, <3>2
  <2>7. Run \subseteq Succeeded(c)
    BY <1>4, <2>3 DEF DaysOK, q
  <2>8. Succeeded(c) \subseteq Started(c)
    BY DEF Succeeded, Started
  <2>9. ASSUME NEW d \in Started(c) PROVE d \in Run
    <3>1. d \in Dates /\ q <= d /\ d <= q + n /\ d # q + n
      BY <1>4, <2>3 DEF DaysOK, LoopOK, Started, q
    <3> QED  BY <2>1, <3>1
  <2>10. Cardinality(q..(q + n - 1)) = n
    BY <2>1, FS_Interval
  <2> QED  BY <2>5, <2>6, <2>7, <2>8, <2>9, <2>10 DEF n
<1>5. CmdOK /\ DaysOK /\ LoopOK => CompleteIsComplete
  BY <1>4 DEF CompleteIsComplete
<1> QED  BY <1>5, LoopCorrect, DaysCorrect, PTL

----------------------------------------------------------------------------
(* Reruns *)

Rerun(c) == bpc[c] = "idle" /\ \A b \in Calls \ {c} : bpc[b] \in Over

\* From a rerun on, no other backfill calls a runner.
AloneNow(c) ==
  /\ \A b \in Calls \ {c} : bpc[b] \in Over
  /\ \A d \in Dates : Kept(<<c, d>>)

\* A call that was not started has no runs, and nothing to remember.
LEMMA RerunIsAlone ==
  ASSUME ControlOK, CmdOK, DaysOK, LoopOK, NEW c \in Calls, Rerun(c)
  PROVE  AloneNow(c)
<1> SUFFICES ASSUME NEW d \in Dates PROVE Kept(<<c, d>>)
  BY DEF Rerun, AloneNow
<1>1. <<c, d>> \in Attempts
  BY AttemptsAreDays
<1>2. cursor[c] = First(c) /\ DateOf(First(c)) \in Nat /\ d \in Nat
  BY CmdFacts, NextDate, DayAssumption DEF Rerun, LoopOK
<1>3. d \notin Started(c)
  BY <1>2 DEF Rerun, DaysOK
<1>4. pc[<<c, d>>] = "idle"
  BY <1>3 DEF Started
<1> QED  BY <1>1, <1>4 DEF Kept, ControlOK, ControlOf

LEMMA AloneIsKept ==
  ASSUME TypeOK, ControlOK, StoreMatchesMemory, CmdOK, NEW c \in Calls, AloneNow(c),
         [BackfillNext]_backfillVars
  PROVE  AloneNow(c)'
<1>0. CASE UNCHANGED backfillVars
  BY <1>0 DEF backfillVars, cmdVars, vars, storeVars, localVars, AloneNow, Kept
<1> SUFFICES ASSUME NEW e \in Calls, Refuse(e) \/ Open(e) \/ BStep(e) \/ CrashCall(e)
             PROVE  AloneNow(c)'
  BY <1>0 DEF BackfillNext
<1>1. e = c
  BY DEF AloneNow, Over, Refuse, Open, BStep, BuildFails, StartDay, RunDay, NextDay, BailDay,
         Done, CrashCall
<1>2. \A b \in Calls \ {c} : bpc'[b] = bpc[b]
  BY <1>1 DEF Refuse, Open, BStep, BuildFails, StartDay, RunDay, NextDay, BailDay,
         Done, CrashCall, BGoto, CmdOK, cmdVars
<1>3. ASSUME NEW d \in Dates PROVE Kept(<<c, d>>)'
  <2>1. <<c, d>> \in Attempts /\ Kept(<<c, d>>)
    BY AttemptsAreDays DEF AloneNow
  <2>2. CASE UNCHANGED vars
    BY <2>1, <2>2 DEF vars, storeVars, localVars, Kept
  <2>3. CASE Day(c) \in Attempts /\ (Begin(Day(c)) \/ Step(Day(c)) \/ Crash(Day(c)))
    <3>1. Day(c) \notin Rivals(<<c, d>>)
      <4>1. Day(c) = <<c, DateOf(cursor[c])>> /\ DateOf(cursor[c]) \in Dates
        BY <2>3, AttemptsAreDays DEF Day
      <4>2. RunOf[Day(c)] = DateOf(cursor[c]) /\ RunOf[<<c, d>>] = d
        BY <4>1, AttemptsAreDays
      <4> QED  BY <4>1, <4>2 DEF Rivals, OnRun
    <3> QED  BY <2>1, <2>3, <3>1, OnlyRivalsTakeRows
  <2> QED  BY <1>1, <2>2, <2>3, WhoMoves
<1> QED  BY <1>2, <1>3 DEF AloneNow

\* A backfill made after all others are over, crashed ones among them, leaves
\* none of their rows on the days it covers when it is complete
\* (main.rs:314-337).
THEOREM RerunsRepair == BackfillSpec => RerunRepairs
<1> DEFINE Inv == /\ TypeOK /\ ControlOK /\ StatesOK /\ StoreMatchesMemory
                  /\ CmdOK /\ DaysOK /\ LoopOK /\ CompleteIsComplete
           Own(c) == bpc[c] = "done" =>
                       \A d \in Covered(c) : \A t \in Ids(dag[<<c, d>>]) :
                         /\ taskRuns[<<d, t>>].by = <<c, d>>
                         /\ taskRuns[<<d, t>>].state = "Succeeded"
<1>1. BackfillSpec => []Inv
  BY BackfillIsLocalRunner, TypeCorrect, StatesCorrect, RowsCorrect, DaysCorrect, LoopCorrect,
     CompleteMeansComplete, PTL
<1>2. ASSUME NEW c \in Calls
      PROVE  BackfillSpec => [](Rerun(c) => []Own(c))
  <2>1. Inv /\ Rerun(c) => AloneNow(c)
    BY RerunIsAlone
  <2>2. Inv /\ AloneNow(c) /\ [BackfillNext]_backfillVars => AloneNow(c)'
    BY AloneIsKept
  <2>3. ASSUME Inv, AloneNow(c), bpc[c] = "done", NEW d \in Covered(c), NEW t \in Ids(dag[<<c, d>>])
        PROVE  taskRuns[<<d, t>>].by = <<c, d>> /\ taskRuns[<<d, t>>].state = "Succeeded"
    <3> DEFINE a == <<c, d>>
    <3>1. d \in Dates /\ pc[a] = "ok" /\ AllSucceeded(a)
      BY <2>3 DEF CompleteIsComplete, Succeeded
    <3>2. a \in Attempts /\ RunOf[a] = d /\ Kept(a)
      BY <2>3, <3>1, AttemptsAreDays DEF AloneNow
    <3>3. t \in TaskIds /\ task_states[a][t] = "Succeeded"
      BY <2>3, <3>1, <3>2, ReportIsFinal DEF AllSucceeded
    <3>4. taskRuns[<<d, t>>].by = a
      BY <3>2, <3>3 DEF Kept
    <3> QED  BY <2>3, <3>2, <3>3, <3>4 DEF StoreMatchesMemory
  <2>4. Inv /\ AloneNow(c) => Own(c)
    BY <2>3
  <2> QED  BY <1>1, <2>1, <2>2, <2>4, PTL DEF BackfillSpec
<1> QED  BY <1>2 DEF RerunRepairs, Rerun

----------------------------------------------------------------------------
(* The length of a backfill *)

\* The instants from the cursor to the end, both included.
Ahead(c) == IF cursor[c] <= Last(c) THEN Last(c) + 1 - cursor[c] ELSE 0

\* The most steps of its own left to a call, beside those of its runs: two for
\* each day, of which there are no more than instants.
CmdStepsLeft(c) ==
  CASE bpc[c] = "idle"  -> 2 * Ahead(c) + 2
    [] bpc[c] = "loop"  -> 2 * Ahead(c) + 1
    [] bpc[c] = "run"   -> 2 * Ahead(c)
    [] bpc[c] \in Over  -> 0

LEMMA AheadFacts ==
  ASSUME CmdOK, NEW c \in Calls
  PROVE  /\ Ahead(c) \in Nat
         /\ cursor[c] <= Last(c) => Ahead(c) # 0
         /\ bpc[c] = "run" => Ahead(c) # 0
BY CmdFacts DEF Ahead, CmdOK

LEMMA CmdStepsLeftIsNat ==
  ASSUME CmdOK, NEW c \in Calls
  PROVE  /\ CmdStepsLeft(c) \in Nat
         /\ bpc[c] \notin Over => CmdStepsLeft(c) # 0
<1>1. bpc[c] \in {"idle", "loop", "run"} \cup Over
  BY DEF CmdOK
<1> DEFINE n == Ahead(c)
<1>2. n \in Nat /\ (bpc[c] = "run" => n # 0)
  BY AheadFacts
<1> HIDE DEF n
<1>3. /\ bpc[c] = "idle" => CmdStepsLeft(c) = 2 * n + 2
      /\ bpc[c] = "loop" => CmdStepsLeft(c) = 2 * n + 1
      /\ bpc[c] = "run" => CmdStepsLeft(c) = 2 * n
      /\ bpc[c] \in Over => CmdStepsLeft(c) = 0
  BY DEF CmdStepsLeft, Over, n
<1> QED  BY <1>1, <1>2, <1>3 DEF Over

\* What a step of the system does to the steps left to a call and to its run.
BackfillShrinks ==
  \A c \in Calls :
    /\ CmdStepsLeft(c)' <= CmdStepsLeft(c)
    /\ Refuse(c) \/ Open(c) \/ BStep(c) \/ CrashCall(c) =>
         \/ CmdStepsLeft(c)' < CmdStepsLeft(c)
         \/ UNCHANGED <<cursor, CmdStepsLeft(c)>> /\ StepsLeft(Day(c))' < StepsLeft(Day(c))

LEMMA CmdStepShrinks ==
  ASSUME TypeOK, ControlOK, EdgeLoopOK, CmdOK, NEW c \in Calls,
         Refuse(c) \/ Open(c) \/ BStep(c) \/ CrashCall(c)
  PROVE  /\ CmdStepsLeft(c)' <= CmdStepsLeft(c)
         /\ \/ CmdStepsLeft(c)' < CmdStepsLeft(c)
            \/ UNCHANGED <<cursor, CmdStepsLeft(c)>> /\ StepsLeft(Day(c))' < StepsLeft(Day(c))
         /\ \A b \in Calls \ {c} : CmdStepsLeft(b)' = CmdStepsLeft(b)
<1> DEFINE n == Ahead(c)
           Values(m) == /\ bpc[c] = "idle" => CmdStepsLeft(c) = 2 * m + 2
                        /\ bpc[c] = "loop" => CmdStepsLeft(c) = 2 * m + 1
                        /\ bpc[c] = "run" => CmdStepsLeft(c) = 2 * m
                        /\ bpc[c] \in Over => CmdStepsLeft(c) = 0
<1>0. /\ n \in Nat /\ (bpc[c] = "run" => n # 0) /\ (cursor[c] <= Last(c) => n # 0)
      /\ First(c) \in Nat /\ Last(c) \in Nat /\ cursor[c] \in Nat
      /\ DayLen \in Nat /\ DayLen # 0 /\ DOMAIN bpc = Calls /\ DOMAIN cursor = Calls
  BY AheadFacts, CmdFacts, DayAssumption DEF CmdOK
<1>1. Values(n)
  BY DEF CmdStepsLeft, Over
<1>2. /\ bpc'[c] = "idle" => CmdStepsLeft(c)' = 2 * Ahead(c)' + 2
      /\ bpc'[c] = "loop" => CmdStepsLeft(c)' = 2 * Ahead(c)' + 1
      /\ bpc'[c] = "run" => CmdStepsLeft(c)' = 2 * Ahead(c)'
      /\ bpc'[c] \in Over => CmdStepsLeft(c)' = 0
  BY DEF CmdStepsLeft, Over
<1>3. range' = range /\ Last(c)' = Last(c)
  BY DEF Refuse, Open, BStep, BuildFails, StartDay, RunDay, NextDay, BailDay, Done, CrashCall,
         cmdVars, Last
<1>4. \A b \in Calls \ {c} : CmdStepsLeft(b)' = CmdStepsLeft(b)
  <2>1. \A b \in Calls \ {c} : bpc'[b] = bpc[b] /\ cursor'[b] = cursor[b]
    BY <1>0 DEF Refuse, Open, BStep, BuildFails, StartDay, RunDay, NextDay, BailDay, Done,
       CrashCall, cmdVars, BGoto
  <2> QED  BY <1>3, <2>1 DEF CmdStepsLeft, Ahead, Last
<1>5. CASE Refuse(c) \/ BuildFails(c) \/ BailDay(c) \/ Done(c) \/ CrashCall(c)
  <2>1. bpc[c] \in {"idle", "loop", "run"} /\ bpc'[c] \in Over
    BY <1>0, <1>5 DEF Refuse, BuildFails, BailDay, Done, CrashCall, BGoto, Over
  <2>2. CmdStepsLeft(c)' = 0 /\ CmdStepsLeft(c) \in Nat /\ CmdStepsLeft(c) # 0
    BY <1>2, <2>1, CmdStepsLeftIsNat DEF Over
  <2> QED  BY <1>4, <2>2
<1>6. CASE Open(c) \/ StartDay(c)
  <2>1. /\ \/ bpc[c] = "idle" /\ bpc'[c] = "loop"
           \/ bpc[c] = "loop" /\ bpc'[c] = "run"
        /\ cursor' = cursor
    BY <1>0, <1>6 DEF Open, StartDay, BGoto
  <2>2. Ahead(c)' = n
    BY <1>3, <2>1 DEF Ahead
  <2> HIDE DEF n
  <2> QED  BY <1>0, <1>1, <1>2, <1>4, <2>1, <2>2
<1>7. CASE RunDay(c)
  <2>1. UNCHANGED <<bpc, cursor>> /\ bpc[c] = "run" /\ Step(Day(c))
    BY <1>7 DEF RunDay, cmdVars
  <2>2. CmdStepsLeft(c)' = CmdStepsLeft(c) /\ Day(c)' = Day(c)
    BY <1>3, <2>1 DEF CmdStepsLeft, Ahead, Day
  <2>3. Day(c) \in Attempts
    BY <2>1, CmdFacts DEF CmdOK
  <2>4. StepsLeft(Day(c))' < StepsLeft(Day(c))
    <3> DEFINE d == Day(c)
    <3>1. dag' = dag
      BY <2>1, <2>3, BegunIsKept DEF Next
    <3>2. d' = d
      BY <2>2
    <3>3. d \in Attempts /\ Step(d)
      BY <2>1, <2>3
    <3> HIDE DEF d
    <3>4. ASSUME NEW x \in Attempts, Step(x) PROVE StepsLeft(x)' < StepsLeft(x)
      BY <3>1, <3>4, StepShrinks
    <3> QED  BY <2>2, <3>3, <3>4 DEF d, StepsLeft
  <2>5. CmdStepsLeft(c) \in Nat
    BY CmdStepsLeftIsNat
  <2> QED  BY <1>4, <2>1, <2>2, <2>4, <2>5
<1>8. CASE NextDay(c)
  <2>1. bpc[c] = "run" /\ bpc'[c] = "loop" /\ cursor'[c] = cursor[c] + DayLen
    BY <1>0, <1>8 DEF NextDay, BGoto
  <2>2. cursor[c] <= Last(c)
    BY <2>1 DEF CmdOK
  <2>3. Ahead(c)' \in Nat /\ Ahead(c)' < n
    BY <1>0, <1>3, <2>1, <2>2 DEF Ahead
  <2> HIDE DEF n
  <2> QED  BY <1>0, <1>1, <1>2, <1>4, <2>1, <2>3
<1> QED  BY <1>5, <1>6, <1>7, <1>8 DEF BStep

\* A backfill takes at most two steps of its own for each instant of its range
\* and two more, and between two of them its run takes finitely many
\* (main.rs:314-331): it cannot go on for ever, whatever others do.
THEOREM BackfillsAreBounded ==
  BackfillSpec =>
    /\ [](\A c \in Calls : CmdStepsLeft(c) \in Nat)
    /\ [](\A a \in Attempts : StepsLeft(a) \in Nat)
    /\ [][BackfillShrinks]_backfillVars
<1> DEFINE Inv == TypeOK /\ ControlOK /\ EdgeLoopOK /\ CmdOK
<1>1. BackfillSpec => []Inv
  <2>1. Init => EdgeLoopOK
    BY DEF Init, EdgeLoopOK
  <2>2. Spec => [](TypeOK /\ ControlOK /\ EdgeLoopOK)
    BY <2>1, NextEdgeLoop, TypeCorrect, PTL DEF Spec
  <2>3. BackfillSpec => []CmdOK
    BY InitCmd, NextCmd, PTL DEF BackfillSpec
  <2> QED  BY <2>2, <2>3, BackfillIsLocalRunner, PTL
<1>2. Inv => /\ \A c \in Calls : CmdStepsLeft(c) \in Nat
             /\ \A a \in Attempts : StepsLeft(a) \in Nat
  BY CmdStepsLeftIsNat, StepsLeftIsNat
<1>3. Inv /\ [BackfillNext]_backfillVars => [BackfillShrinks]_backfillVars
  <2> SUFFICES ASSUME Inv, NEW c \in Calls, Refuse(c) \/ Open(c) \/ BStep(c) \/ CrashCall(c),
                      NEW b \in Calls
               PROVE  /\ CmdStepsLeft(b)' <= CmdStepsLeft(b)
                      /\ Refuse(b) \/ Open(b) \/ BStep(b) \/ CrashCall(b) =>
                           \/ CmdStepsLeft(b)' < CmdStepsLeft(b)
                           \/ /\ UNCHANGED <<cursor, CmdStepsLeft(b)>>
                              /\ StepsLeft(Day(b))' < StepsLeft(Day(b))
    BY DEF BackfillNext, BackfillShrinks
  <2>1. CmdStepsLeft(b)' <= CmdStepsLeft(b)
    <3>1. CmdStepsLeft(b) \in Nat
      BY CmdStepsLeftIsNat
    <3> QED  BY <3>1, CmdStepShrinks
  <2>2. Refuse(b) \/ Open(b) \/ BStep(b) \/ CrashCall(b) =>
          \/ CmdStepsLeft(b)' < CmdStepsLeft(b)
          \/ UNCHANGED <<cursor, CmdStepsLeft(b)>> /\ StepsLeft(Day(b))' < StepsLeft(Day(b))
    BY CmdStepShrinks
  <2> QED  BY <2>1, <2>2
<1> QED  BY <1>1, <1>2, <1>3, PTL DEF BackfillSpec
=============================================================================
