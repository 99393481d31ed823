----------------------------- MODULE Lifecycle -----------------------------
(***************************************************************************)
(* The composition root (__main__.py): what run() opens, in order, and     *)
(* closes on the way out, from wherever it got to; with the update         *)
(* handlers that python-telegram-bot runs and the timers and tasks of      *)
(* AsyncTaskScheduler (infrastructure/__init__.py) going on meanwhile.     *)
(*                                                                         *)
(* The rules, the users and the VPN are opened and need no close.          *)
(***************************************************************************)
EXTENDS Naturals, Sequences, FiniteSets, SequencesExt

CONSTANTS Handlers, Jobs

VARIABLES
  concurrent,  \* more than one update at a time: the keyed processor is used
  step,        \* the step of StartOrder that comes next
  leaving,     \* the step of StopOrder that comes next; 0 before the end
  opened, shut,
  handler,     \* each update handler: "none", "busy", "done"
  timerJob,    \* each job: "none", "timer", "task", "cancelled", "over"
  misused      \* history: what was used after it was closed

lifecycleVars ==
  <<concurrent, step, leaving, opened, shut, handler, timerJob, misused>>

StartOrder == <<"rules", "users", "vpn", "repo", "scheduler", "jira", "gemini",
                "limiter", "keyed", "application", "polling", "started">>

\* Mutant of StopOrder: the scheduler is closed after what its tasks use.
SchedulerLast == <<"polling", "started", "application", "keyed", "limiter",
                   "gemini", "jira", "repo", "scheduler">>
StopOrder == <<"polling", "started", "application", "keyed", "limiter",
               "scheduler", "gemini", "jira", "repo">>

Opened == ToSet(StartOrder)

LifecycleTypeOK ==
  /\ concurrent \in BOOLEAN
  /\ step \in 1 .. Len(StartOrder) + 1
  /\ leaving \in 0 .. Len(StopOrder) + 1
  /\ opened \subseteq Opened /\ shut \subseteq Opened /\ misused \subseteq Opened
  /\ handler \in [Handlers -> {"none", "busy", "done"}]
  /\ timerJob \in [Jobs -> {"none", "timer", "task", "cancelled", "over"}]

LifecycleInit ==
  /\ concurrent \in BOOLEAN
  /\ step = 1 /\ leaving = 0
  /\ opened = {} /\ shut = {} /\ misused = {}
  /\ handler = [h \in Handlers |-> "none"]
  /\ timerJob = [j \in Jobs |-> "none"]

-----------------------------------------------------------------------------

\* The next thing is opened; the keyed processor only where it is used.
OpenNext ==
  /\ leaving = 0 /\ step <= Len(StartOrder)
  /\ step' = step + 1
  /\ opened' = IF StartOrder[step] = "keyed" /\ ~concurrent THEN opened
               ELSE opened \cup {StartOrder[step]}
  /\ UNCHANGED <<concurrent, leaving, shut, handler, timerJob, misused>>

\* It cannot be opened, or the stop signal has come.
BeginStop ==
  /\ leaving = 0
  /\ leaving' = 1
  /\ UNCHANGED <<concurrent, step, opened, shut, handler, timerJob, misused>>

-----------------------------------------------------------------------------
(* What runs meanwhile.                                                    *)

Busy == {h \in Handlers : handler[h] = "busy"}

\* The application hands an update to a handler; one that was fetched before
\* polling stopped is handed out until the application stops.
BeginUpdate(h) ==
  /\ "started" \in opened \ shut
  /\ handler[h] = "none"
  /\ Busy = {} \/ concurrent
  /\ handler' = [handler EXCEPT ![h] = "busy"]
  /\ UNCHANGED <<concurrent, step, leaving, opened, shut, timerJob, misused>>

\* A handler or a task uses r.
Use(r) ==
  /\ misused' = IF r \in opened \ shut THEN misused ELSE misused \cup {r}
  /\ UNCHANGED <<concurrent, step, leaving, opened, shut, handler, timerJob>>

UseInHandler(r) == Busy # {} /\ Use(r)

\* A collected message sets its batch's deadline.
SetTimer(j) ==
  /\ Busy # {}
  /\ timerJob[j] = "none"
  /\ timerJob' = [timerJob EXCEPT ![j] = "timer"]
  /\ UNCHANGED <<concurrent, step, leaving, opened, shut, handler, misused>>

EndUpdate(h) ==
  /\ handler[h] = "busy"
  /\ handler' = [handler EXCEPT ![h] = "done"]
  /\ UNCHANGED <<concurrent, step, leaving, opened, shut, timerJob, misused>>

TimerFires(j) ==
  /\ timerJob[j] = "timer"
  /\ timerJob' = [timerJob EXCEPT ![j] = "task"]
  /\ UNCHANGED <<concurrent, step, leaving, opened, shut, handler, misused>>

UseInTask(r) == (\E j \in Jobs : timerJob[j] = "task") /\ Use(r)

EndTask(j) ==
  /\ timerJob[j] \in {"task", "cancelled"}
  /\ timerJob' = [timerJob EXCEPT ![j] = "over"]
  /\ UNCHANGED <<concurrent, step, leaving, opened, shut, handler, misused>>

-----------------------------------------------------------------------------
(* The way out.                                                            *)

\* scheduler.close() drops the timers, cancels the tasks, and waits for them.
CancelJobs ==
  /\ leaving \in DOMAIN StopOrder
  /\ StopOrder[leaving] = "scheduler" /\ "scheduler" \in opened
  /\ \E j \in Jobs : timerJob[j] \in {"timer", "task"}
  /\ timerJob' = [j \in Jobs |-> CASE timerJob[j] = "timer" -> "over"
                                   [] timerJob[j] = "task" -> "cancelled"
                                   [] OTHER -> timerJob[j]]
  /\ UNCHANGED <<concurrent, step, leaving, opened, shut, handler, misused>>

\* Whether r is at rest: application.stop() waits for the updates it handed
\* out, scheduler.close() for its tasks.
AtRest(r) ==
  CASE r = "started" -> Busy = {}
    [] r = "scheduler" -> \A j \in Jobs : timerJob[j] \in {"none", "over"}
    [] OTHER -> TRUE

\* The next thing, if it was opened, is closed; an error is logged.
CloseNext ==
  /\ leaving \in DOMAIN StopOrder
  /\ StopOrder[leaving] \in opened => AtRest(StopOrder[leaving])
  /\ shut' = shut \cup ({StopOrder[leaving]} \cap opened)
  /\ leaving' = leaving + 1
  /\ UNCHANGED <<concurrent, step, opened, handler, timerJob, misused>>

-----------------------------------------------------------------------------

LifecycleNext ==
  \/ OpenNext \/ BeginStop \/ CancelJobs \/ CloseNext
  \/ \E h \in Handlers : BeginUpdate(h) \/ EndUpdate(h)
  \/ \E r \in {"repo", "jira", "application"} : UseInHandler(r)
  \/ \E r \in {"repo", "gemini", "application"} : UseInTask(r)
  \/ \E j \in Jobs : SetTimer(j) \/ TimerFires(j) \/ EndTask(j)

LifecycleSpec == LifecycleInit /\ [][LifecycleNext]_lifecycleVars

-----------------------------------------------------------------------------
(* Properties.                                                             *)

\* From wherever run() leaves, nothing a handler or an analysis still uses is
\* closed under it; only the bot is, when an analysis ends during the teardown
\* and its card can no longer be shown.
NothingIsUsedClosed == misused \subseteq {"application"}

=============================================================================
