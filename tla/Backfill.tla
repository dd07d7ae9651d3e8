------------------------------ MODULE Backfill ------------------------------
(***************************************************************************)
(* cmd_backfill of crates/dag-cli: one LocalRunner run per day of a range, *)
(* one after the other, on one lineage store.  The run id of a day is made *)
(* of its date alone, so two backfills whose ranges meet share run ids.    *)
(*                                                                         *)
(* An instant is a number, DayLen of which make a day.  Several calls may  *)
(* be made on one database, by a shell loop or by hand: a call is an entry *)
(* of Calls, its day d is the attempt <<call, d>> of LocalRunner, and the  *)
(* run ids are the dates.  The spec file is read once per call, so all     *)
(* days of a call have one dag.  A cyclic dag stands for every spec that   *)
(* build_runnable_dag refuses (SpecBuild).  The bodies that it makes       *)
(* return a name, and never an error.                                      *)
(***************************************************************************)
EXTENDS LocalRunner, FiniteSets

CONSTANTS
  Calls,         \* calls of cmd_backfill
  Dates,         \* the calendar dates of the instants in Ranges
  DayLen,        \* instants of a day
  Ranges         \* the pairs <<start, end>> a call may be given

DateOf(t)    == t \div DayLen
TimeOfDay(t) == t % DayLen

ASSUME DayAssumption == DayLen \in Nat \ {0} /\ Dates \subseteq Nat
ASSUME RangesAssumption ==
  /\ Ranges \subseteq Nat \X Nat
  /\ \A r \in Ranges : DateOf(r[1])..DateOf(r[2]) \subseteq Dates
ASSUME AttemptsAreDays ==
  /\ Attempts = Calls \X Dates
  /\ Runs = Dates
  /\ \A c \in Calls, d \in Dates : RunOf[<<c, d>>] = d

VARIABLES
  range,         \* <<start, end>>
  bpc,           \* where cmd_backfill is
  cursor,
  runs_executed

cmdVars      == <<range, bpc, cursor, runs_executed>>
backfillVars == <<vars, cmdVars>>

Over == {"done", "err", "crashed"}

First(c) == range[c][1]
Last(c)  == range[c][2]
Day(c)   == <<c, DateOf(cursor[c])>>        \* the run under way

BackfillTypeOK ==
  /\ TypeOK
  /\ range \in [Calls -> Ranges]
  /\ bpc \in [Calls -> {"idle", "loop", "run"} \cup Over]
  /\ runs_executed \in [Calls -> Nat]
  /\ cursor = [c \in Calls |-> First(c) + DayLen * runs_executed[c]]

BackfillInit ==
  /\ Init
  /\ \A c \in Calls, d, e \in Dates : dag[<<c, d>>] = dag[<<c, e>>]
  /\ range \in [Calls -> Ranges]
  /\ bpc = [c \in Calls |-> "idle"]
  /\ cursor = [c \in Calls |-> First(c)]
  /\ runs_executed = [c \in Calls |-> 0]

----------------------------------------------------------------------------

BGoto(c, label) == bpc' = [bpc EXCEPT ![c] = label]

\* The range is inverted, the file cannot be read or parsed, or the database
\* cannot be opened.
Refuse(c) ==
  /\ bpc[c] = "idle"
  /\ BGoto(c, "err")
  /\ UNCHANGED <<vars, range, cursor, runs_executed>>

Open(c) ==
  /\ bpc[c] = "idle"
  /\ First(c) <= Last(c)
  /\ BGoto(c, "loop")
  /\ UNCHANGED <<vars, range, cursor, runs_executed>>

\* build_runnable_dag is called again for each day.
BuildFails(c) ==
  /\ bpc[c] = "loop" /\ cursor[c] <= Last(c)
  /\ ~CycleCheckOk(dag[Day(c)])
  /\ BGoto(c, "err")
  /\ UNCHANGED <<vars, range, cursor, runs_executed>>

\* runner.run(&rid) is called.
StartDay(c) ==
  /\ bpc[c] = "loop" /\ cursor[c] <= Last(c)
  /\ Begin(Day(c))
  /\ BGoto(c, "run")
  /\ UNCHANGED <<range, cursor, runs_executed>>

RunDay(c) ==
  /\ bpc[c] = "run"
  /\ Step(Day(c))
  /\ pc'[Day(c)] # "saveErr"
  /\ UNCHANGED cmdVars

\* Mutant: the verdict of the report is not looked at, nor an error.
NextDay_Regardless(c) ==
  /\ bpc[c] = "run" /\ pc[Day(c)] \in {"ok", "err"}
  /\ runs_executed' = [runs_executed EXCEPT ![c] = @ + 1]
  /\ cursor' = [cursor EXCEPT ![c] = @ + DayLen]
  /\ BGoto(c, "loop")
  /\ UNCHANGED <<vars, range>>

\* Mutant: the cursor moves by two days.
NextDay_Strides(c) ==
  /\ bpc[c] = "run" /\ pc[Day(c)] = "ok" /\ AllSucceeded(Day(c))
  /\ runs_executed' = [runs_executed EXCEPT ![c] = @ + 1]
  /\ cursor' = [cursor EXCEPT ![c] = @ + 2 * DayLen]
  /\ BGoto(c, "loop")
  /\ UNCHANGED <<vars, range>>

NextDay(c) ==
  /\ bpc[c] = "run" /\ pc[Day(c)] = "ok" /\ AllSucceeded(Day(c))
  /\ runs_executed' = [runs_executed EXCEPT ![c] = @ + 1]
  /\ cursor' = [cursor EXCEPT ![c] = @ + DayLen]
  /\ BGoto(c, "loop")
  /\ UNCHANGED <<vars, range>>

\* Mutant: only a report ends the call, an error of run() does not.
BailDay_ReportOnly(c) ==
  /\ bpc[c] = "run"
  /\ pc[Day(c)] = "ok" /\ ~AllSucceeded(Day(c))
  /\ BGoto(c, "err")
  /\ UNCHANGED <<vars, range, cursor, runs_executed>>

\* run() returned an error, or a report that is not all Succeeded: since no
\* body fails, that of a dag without tasks.
BailDay(c) ==
  /\ bpc[c] = "run"
  /\ \/ pc[Day(c)] = "err"
     \/ pc[Day(c)] = "ok" /\ ~AllSucceeded(Day(c))
  /\ BGoto(c, "err")
  /\ UNCHANGED <<vars, range, cursor, runs_executed>>

\* Mutant: while cursor < end.
Done_BeforeEnd(c) ==
  /\ bpc[c] = "loop" /\ cursor[c] >= Last(c)
  /\ BGoto(c, "done")
  /\ UNCHANGED <<vars, range, cursor, runs_executed>>

Done(c) ==
  /\ bpc[c] = "loop" /\ cursor[c] > Last(c)
  /\ BGoto(c, "done")
  /\ UNCHANGED <<vars, range, cursor, runs_executed>>

\* The process dies, and with it the run that is under way.
CrashCall(c) ==
  /\ bpc[c] \in {"loop", "run"}
  /\ \/ bpc[c] = "run" /\ Crash(Day(c))
     \/ (bpc[c] = "run" => pc[Day(c)] \in Ended) /\ UNCHANGED vars
  /\ BGoto(c, "crashed")
  /\ UNCHANGED <<range, cursor, runs_executed>>

BStep(c) ==
  \/ BuildFails(c)
  \/ StartDay(c)
  \/ RunDay(c)
  \/ NextDay(c)
  \/ BailDay(c)
  \/ Done(c)

BackfillNext == \E c \in Calls : Refuse(c) \/ Open(c) \/ BStep(c) \/ CrashCall(c)

BackfillSpec == BackfillInit /\ [][BackfillNext]_backfillVars

\* As in LocalRunner: a command that was started is run on.
BackfillFairness == \A c \in Calls : WF_backfillVars(BStep(c))
FairBackfillSpec == BackfillSpec /\ BackfillFairness

----------------------------------------------------------------------------

Started(c)      == {d \in Dates : pc[<<c, d>>] # "idle"}
Succeeded(c)    == {d \in Dates : pc[<<c, d>>] = "ok" /\ AllSucceeded(<<c, d>>)}
CalendarDays(c) == DateOf(First(c))..DateOf(Last(c))

\* The dates of the instants a whole number of days after the start, up to
\* the end: the last date is left out when the start is later in its day.
Covered(c) ==
  {d \in CalendarDays(c) : d = DateOf(Last(c)) => TimeOfDay(First(c)) <= TimeOfDay(Last(c))}

\* "OK: backfill complete" is printed only when exactly the dates it covers
\* have had a run, each of them all Succeeded, and the number it prints is
\* the number of those dates (main.rs:314-337).
CompleteIsComplete ==
  \A c \in Calls : bpc[c] = "done" =>
    /\ Started(c) = Covered(c)
    /\ Succeeded(c) = Covered(c)
    /\ runs_executed[c] = Cardinality(Covered(c))

\* A day is started only when every earlier day of the range has succeeded:
\* whatever breaks a backfill off, the days that were run are a prefix of its
\* range, and all but the last of them are done (main.rs:323-328).
DaysInOrder ==
  \A c \in Calls : \A d \in Started(c) : \A e \in CalendarDays(c) :
    e < d => e \in Succeeded(c)

\* A backfill made after others have ended, crashed ones among them, starts
\* at the first day of its range again; when it is complete no row of its days
\* shows what they left there.
RerunRepairs ==
  \A c \in Calls :
    []( bpc[c] = "idle" /\ (\A b \in Calls \ {c} : bpc[b] \in Over)
        => [](bpc[c] = "done" => \A d \in Covered(c) : \A t \in Ids(dag[<<c, d>>]) :
                 /\ taskRuns[<<d, t>>].by = <<c, d>>
                 /\ taskRuns[<<d, t>>].state = "Succeeded") )

\* A backfill that is started ends.
BackfillTerminates == \A c \in Calls : bpc[c] \in {"loop", "run"} ~> bpc[c] \in Over

(* A statement of the documentation that the code does not meet *)

\* main.rs:79-80 "Re-run the DAG once per logical date in the closed range
\* [start, end]. Inclusive on both ends."
EveryDateRuns ==
  \A c \in Calls : bpc[c] = "done" => Started(c) = CalendarDays(c)
=============================================================================
