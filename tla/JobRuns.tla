------------------------------- MODULE JobRuns -------------------------------
(***************************************************************************)
(* The life of a background extraction of the portal.                      *)
(*                                                                         *)
(* `operations` opens a run (a row of operations.job_run) when a heartbeat *)
(* finds a source due or a person asks for it, under a transaction-scoped  *)
(* advisory lock, commits it, and only then hands the work to Celery.      *)
(* `portal.tasks` reads the portal, retries, and reports how the run       *)
(* ended; the heartbeat closes the runs nobody came back to close.         *)
(*                                                                         *)
(* Every database transaction is split where another session can step in   *)
(* between: what a step reads is what was committed then, what a           *)
(* transaction writes becomes visible when it commits, and an UPDATE waits *)
(* for the row's other uncommitted writer (READ COMMITTED).                *)
(*                                                                         *)
(* One unit of time is the 15 minutes of the margin in ABANDONED_AFTER:    *)
(* HardLimit = 2 is Celery's 30 minutes, Abandoned = 3 the 45 of the code. *)
(***************************************************************************)
EXTENDS Integers, FiniteSets, Sequences

CONSTANTS
    Jobs,        \* the scheduled sources of the portal (UPDATE_SOURCES)
    PriceList,   \* the source whose interruptions are announced to the owner
    Callers,     \* requests of people («Traer ahora»), one process each
    Tickers,     \* heartbeats that can be executing at the same time
    BeatOf,      \* the jobs each heartbeat walks over, in order
    Workers,     \* coroutines the worker loops can be running at the same time
    Concurrency, \* CELERY_CONCURRENCY: how many of them hold a slot
    Intervals,   \* values the interval parameters can have, in units of time
    MaxRetries,  \* portal.tasks.MAX_RETRIES
    HardLimit,   \* celery task_time_limit
    Abandoned,   \* operations.service.ABANDONED_AFTER
    MaxAge,      \* bound: no age is told apart beyond this one
    MaxRuns,     \* bound: runs in the history
    MaxFaults,   \* bound: crashes and lost messages in one behaviour
    NoOne        \* nobody holds the lock

Actors == Callers \cup Tickers
RunIds == 1 .. MaxRuns
StallThreshold == 2

ASSUME JobsAssumption == Jobs # {} /\ NoOne \notin Jobs \cup {PriceList}
ASSUME ActorsAssumption == Callers \cap Tickers = {} /\ NoOne \notin Actors
ASSUME BeatAssumption == BeatOf \in [Tickers -> Seq(Jobs)]
ASSUME BoundsAssumption ==
    /\ {MaxRetries, MaxFaults, MaxRuns, Concurrency} \subseteq Nat
    /\ {HardLimit, Abandoned, MaxAge} \subseteq Nat \ {0}
    /\ HardLimit < Abandoned /\ Abandoned <= MaxAge
    /\ Intervals \subseteq 0 .. MaxAge

VARIABLES
    status,  \* job_run.status of each run; "absent" before it is inserted
    task,    \* job_run.task_name of each run
    age,     \* now - job_run.started_at, capped at MaxAge
    last,    \* identifier of the newest run
    reaped,  \* runs closed with the reason ABANDONED
    lock,    \* holder of each source's pg advisory lock
    actor,   \* where each caller and heartbeat is
    queue,   \* extraction messages in the broker: [run, attempt]
    wk,      \* what each coroutine of the workers is doing
    alerts,  \* PriceUpdateStalled / PriceUpdateRecovered, as published
    faults   \* crashes and losses so far

runVars == <<status, task, age, last, reaped>>
vars == <<status, task, age, last, reaped, lock, actor, queue, wk, alerts, faults>>

-----------------------------------------------------------------------------
(* The table of runs, as a session reads it.                               *)

Statuses == {"absent", "RUNNING", "SUCCEEDED", "FAILED"}
Phases == {"idle", "reap", "reaping", "due", "lock", "check", "insert", "dispatch"}
Stages == {"idle", "portal", "landed", "closing", "failing", "flushed"}

RunsOf(j) == {r \in RunIds : status[r] # "absent" /\ task[r] = j}

\* JobRunRepository.running
Running(j) == {r \in RunsOf(j) : status[r] = "RUNNING"}

\* JobRunRepository.latest(limit=1)
Newest(j) == {r \in RunsOf(j) : \A q \in RunsOf(j) : q <= r}

\* OperationsService._consecutive_failures over latest(j), the table being st:
\* runs still open are stepped over, the first success ends the count.
ConsecutiveFailures(st, j) ==
    Cardinality({r \in RunsOf(j) :
        st[r] = "FAILED" /\ \A q \in RunsOf(j) : q > r => st[q] # "SUCCEEDED"})

\* A slip: the failures are counted before this one is written.
WarnsBeforeWriting(r) ==
    task[r] = PriceList /\ ConsecutiveFailures(status, task[r]) = StallThreshold

\* A slip: every failure from the threshold on warns.
WarnsFromThresholdOn(r) ==
    /\ task[r] = PriceList
    /\ ConsecutiveFailures([status EXCEPT ![r] = "FAILED"], task[r]) >= StallThreshold

\* Closing a run as failed publishes the warning exactly at the transition.
WarnsOfStall(r) ==
    /\ task[r] = PriceList
    /\ ConsecutiveFailures([status EXCEPT ![r] = "FAILED"], task[r]) = StallThreshold

-----------------------------------------------------------------------------
(* Processes.                                                              *)

IdleActor == [at |-> "idle", pos |-> 0, job |-> NoOne, run |-> 0, warn |-> FALSE]
IdleWorker == [at |-> "idle", run |-> 0, attempt |-> 0, elapsed |-> 0,
               from |-> 0, stray |-> FALSE, seen |-> "absent", alert |-> FALSE]
Message(r, n) == [run |-> r, attempt |-> n]

\* A transaction that wrote this row and has not ended yet holds it.
RowIsFree(r) ==
    /\ \A t \in Tickers : actor[t].at = "reaping" => actor[t].run # r
    /\ \A w \in Workers : wk[w].at = "flushed" => wk[w].run # r

\* Transaction-scoped locks go with the transaction, whatever ends it.
Released(a) == [j \in Jobs |-> IF lock[j] = a THEN NoOne ELSE lock[j]]

Init ==
    /\ status = [r \in RunIds |-> "absent"]
    /\ task = [r \in RunIds |-> NoOne]
    /\ age = [r \in RunIds |-> 0]
    /\ last = 0
    /\ reaped = {}
    /\ lock = [j \in Jobs |-> NoOne]
    /\ actor = [a \in Actors |-> IdleActor]
    /\ queue = {}
    /\ wk = [w \in Workers |-> IdleWorker]
    /\ alerts = <<>>
    /\ faults = 0

-----------------------------------------------------------------------------
(* The heartbeats: tick_price_update and tick_extractions.                 *)

Position(t, phase, p) ==
    IF p <= Len(BeatOf[t])
    THEN [IdleActor EXCEPT !.at = phase, !.pos = p, !.job = BeatOf[t][p]]
    ELSE IdleActor

\* The next source of the phase; after the last one of the sweep, the asking.
AfterReap(t) ==
    IF actor[t].pos < Len(BeatOf[t]) THEN Position(t, "reap", actor[t].pos + 1)
                                     ELSE Position(t, "due", 1)

TickStart(t) ==
    /\ actor[t].at = "idle"
    /\ actor' = [actor EXCEPT ![t] = Position(t, "reap", 1)]
    /\ UNCHANGED <<runVars, lock, queue, wk, alerts, faults>>

\* A slip: the sweep passes over a run however long it has been open.
ReapPassesOver(t) ==
    /\ actor[t].at = "reap"
    /\ actor[t].run = 0
    /\ actor' = [actor EXCEPT ![t] = AfterReap(t)]
    /\ UNCHANGED <<runVars, lock, queue, wk, alerts, faults>>

\* close_abandoned_*: nothing open, or not open for long enough.
ReapNothing(t) ==
    /\ actor[t].at = "reap"
    /\ actor[t].run = 0
    /\ \A r \in Running(actor[t].job) : age[r] < Abandoned
    /\ actor' = [actor EXCEPT ![t] = AfterReap(t)]
    /\ UNCHANGED <<runVars, lock, queue, wk, alerts, faults>>

\* A slip: the bound of the sweep without its margin.
ReapAtLimit(t) ==
    /\ actor[t].at = "reap"
    /\ actor[t].run = 0
    /\ \E r \in Running(actor[t].job) :
        age[r] >= HardLimit /\ actor' = [actor EXCEPT ![t].run = r]
    /\ UNCHANGED <<runVars, lock, queue, wk, alerts, faults>>

\* The open run is read, and found too old; the write is a later statement.
ReapRead(t) ==
    /\ actor[t].at = "reap"
    /\ actor[t].run = 0
    /\ \E r \in Running(actor[t].job) :
        /\ age[r] >= Abandoned
        /\ actor' = [actor EXCEPT ![t].run = r]
    /\ UNCHANGED <<runVars, lock, queue, wk, alerts, faults>>

\* The UPDATE is by identifier, whatever the row says by then, and the count of
\* failures is read inside the same transaction.
ReapFlush(t) ==
    /\ actor[t].at = "reap"
    /\ actor[t].run # 0
    /\ RowIsFree(actor[t].run)
    /\ actor' = [actor EXCEPT ![t].at = "reaping", ![t].warn = WarnsOfStall(actor[t].run)]
    /\ UNCHANGED <<runVars, lock, queue, wk, alerts, faults>>

\* A slip: the sweep ends without the commit.
ReapRollback(t) ==
    /\ actor[t].at = "reaping"
    /\ actor' = [actor EXCEPT ![t] = AfterReap(t)]
    /\ lock' = Released(t)
    /\ UNCHANGED <<runVars, queue, wk, alerts, faults>>

ReapCommit(t) ==
    LET r == actor[t].run IN
    /\ actor[t].at = "reaping"
    /\ status' = [status EXCEPT ![r] = "FAILED"]
    /\ reaped' = reaped \cup {r}
    /\ alerts' = IF actor[t].warn THEN Append(alerts, "stalled") ELSE alerts
    /\ actor' = [actor EXCEPT ![t] = AfterReap(t)]
    /\ lock' = Released(t)
    /\ UNCHANGED <<task, age, last, queue, wk, faults>>

\* due_for_update / due_for_sync: the interval is the parameter's value now.
IsDue(j, every) ==
    /\ Running(j) = {}
    /\ \A r \in Newest(j) : age[r] >= every

\* The source is left for the next tick, and the heartbeat goes on to the next
\* one in the same session: a lock it took stays with it until that ends.
Skip(t) ==
    LET next == Position(t, "due", actor[t].pos + 1) IN
    /\ actor' = [actor EXCEPT ![t] = next]
    /\ lock' = IF next = IdleActor THEN Released(t) ELSE lock

TickDue(t) ==
    /\ actor[t].at = "due"
    /\ \E every \in Intervals :
        IF IsDue(actor[t].job, every)
        THEN actor' = [actor EXCEPT ![t].at = "lock"] /\ lock' = lock
        ELSE Skip(t)
    /\ UNCHANGED <<runVars, queue, wk, alerts, faults>>

-----------------------------------------------------------------------------
(* request_price_update / request_sync / request_manual_sync.              *)

\* A slip: an unknown key is not refused.
RequestUnknown(c, j) ==
    /\ actor[c].at = "idle"
    /\ actor' = [actor EXCEPT ![c] = [IdleActor EXCEPT !.at = "lock"]]
    /\ UNCHANGED <<runVars, lock, queue, wk, alerts, faults>>

RequestManually(c, j) ==
    /\ actor[c].at = "idle"
    /\ actor' = [actor EXCEPT ![c] = [IdleActor EXCEPT !.at = "lock", !.job = j]]
    /\ UNCHANGED <<runVars, lock, queue, wk, alerts, faults>>

\* A person is told one is already running; a heartbeat gives way in silence.
Refuse(a) ==
    IF a \in Tickers THEN Skip(a)
    ELSE /\ actor' = [actor EXCEPT ![a] = IdleActor]
         /\ lock' = Released(a)

\* A slip: the answer of the lock is not looked at.
TryLockUnheeded(a) ==
    /\ actor[a].at = "lock"
    /\ actor' = [actor EXCEPT ![a].at = "check"]
    /\ UNCHANGED <<runVars, lock, queue, wk, alerts, faults>>

TryLock(a) ==
    LET j == actor[a].job IN
    /\ actor[a].at = "lock"
    /\ IF lock[j] \in {NoOne, a}
       THEN /\ lock' = [lock EXCEPT ![j] = a]
            /\ actor' = [actor EXCEPT ![a].at = "check"]
       ELSE Refuse(a)
    /\ UNCHANGED <<runVars, queue, wk, alerts, faults>>

\* A slip: the work is handed over before the run is committed.
CheckAndDispatch(a) ==
    /\ actor[a].at = "check"
    /\ Running(actor[a].job) = {}
    /\ last < MaxRuns
    /\ queue' = queue \cup {Message(last + 1, 0)}
    /\ actor' = [actor EXCEPT ![a].at = "insert"]
    /\ UNCHANGED <<runVars, lock, wk, alerts, faults>>

CheckRunning(a) ==
    /\ actor[a].at = "check"
    /\ IF Running(actor[a].job) = {}
       THEN actor' = [actor EXCEPT ![a].at = "insert"] /\ lock' = lock
       ELSE Refuse(a)
    /\ UNCHANGED <<runVars, queue, wk, alerts, faults>>

\* INSERT and COMMIT: the row is visible and the transaction's locks are gone.
OpenRun(a) ==
    LET r == last + 1 IN
    /\ actor[a].at = "insert"
    /\ last < MaxRuns
    /\ last' = r
    /\ status' = [status EXCEPT ![r] = "RUNNING"]
    /\ task' = [task EXCEPT ![r] = actor[a].job]
    /\ age' = [age EXCEPT ![r] = 0]
    /\ actor' = [actor EXCEPT ![a].at = "dispatch", ![a].run = r]
    /\ lock' = Released(a)
    /\ UNCHANGED <<reaped, queue, wk, alerts, faults>>

Dispatch(a) ==
    /\ actor[a].at = "dispatch"
    /\ queue' = queue \cup {Message(actor[a].run, 0)}
    /\ actor' = [actor EXCEPT ![a] =
                    IF a \in Tickers THEN Position(a, "due", actor[a].pos + 1)
                                     ELSE IdleActor]
    /\ UNCHANGED <<runVars, lock, wk, alerts, faults>>

\* The bound of the model: no more rows, so the insertion is rolled back.
HistoryFull(a) ==
    /\ actor[a].at = "insert"
    /\ last = MaxRuns
    /\ actor' = [actor EXCEPT ![a] = IdleActor]
    /\ lock' = Released(a)
    /\ UNCHANGED <<runVars, queue, wk, alerts, faults>>

\* The process dies, or the broker refuses the message: the session is rolled
\* back, and a run that was already committed has nobody working on it.
ActorCrash(a) ==
    /\ actor[a].at # "idle"
    /\ faults < MaxFaults
    /\ faults' = faults + 1
    /\ actor' = [actor EXCEPT ![a] = IdleActor]
    /\ lock' = Released(a)
    /\ UNCHANGED <<runVars, queue, wk, alerts>>

-----------------------------------------------------------------------------
(* portal.tasks: one attempt of an extraction. The task holds a slot of the *)
(* worker, and waits there for a coroutine of the process's loop thread.   *)

SlotsTaken == {w \in Workers : wk[w].at # "idle" /\ ~ wk[w].stray}

\* A slip: the attempt writes the run as running, as a run of its own would.
StartReopens(w, m) ==
    /\ wk[w].at = "idle"
    /\ m \in queue
    /\ Cardinality(SlotsTaken) < Concurrency
    /\ status' = [status EXCEPT ![m.run] = "RUNNING"]
    /\ queue' = queue \ {m}
    /\ wk' = [wk EXCEPT ![w] = [IdleWorker EXCEPT
                 !.at = "portal", !.run = m.run, !.attempt = m.attempt,
                 !.from = age[m.run]]]
    /\ UNCHANGED <<task, age, last, reaped, lock, actor, alerts, faults>>

Start(w, m) ==
    /\ wk[w].at = "idle"
    /\ m \in queue
    /\ Cardinality(SlotsTaken) < Concurrency
    /\ queue' = queue \ {m}
    /\ wk' = [wk EXCEPT ![w] = [IdleWorker EXCEPT
                 !.at = "portal", !.run = m.run, !.attempt = m.attempt,
                 !.from = age[m.run]]]
    /\ UNCHANGED <<runVars, lock, actor, alerts, faults>>

\* The section was read and its pipeline committed: raw, staging and core.
Extract(w) ==
    /\ wk[w].at = "portal"
    /\ wk' = [wk EXCEPT ![w].at = "landed"]
    /\ UNCHANGED <<runVars, lock, actor, queue, alerts, faults>>

\* A slip: the failure is reported although another attempt was asked for.
ExtractionFailsTwice(w) ==
    /\ wk[w].at = "portal"
    /\ wk[w].attempt < MaxRetries
    /\ queue' = queue \cup {Message(wk[w].run, wk[w].attempt + 1)}
    /\ wk' = [wk EXCEPT ![w].at = "failing"]
    /\ UNCHANGED <<runVars, lock, actor, alerts, faults>>

\* ExtractionError: another attempt is asked for while there are any left, and
\* the run stays open; started_at does not move. Task.retry reads the request of
\* the thread it is called on, and the coroutine is not on the task's: whether a
\* message leaves is Celery's answer, and both are modelled.
ExtractionFails(w) ==
    /\ wk[w].at = "portal"
    /\ IF wk[w].attempt < MaxRetries
       THEN /\ queue' \in {queue, queue \cup {Message(wk[w].run, wk[w].attempt + 1)}}
            /\ wk' = [wk EXCEPT ![w] = IdleWorker]
       ELSE /\ wk' = [wk EXCEPT ![w].at = "failing"]
            /\ queue' = queue
    /\ UNCHANGED <<runVars, lock, actor, alerts, faults>>

\* PortalShapeError or a defect, in a section: reported at once. The price list
\* has no such handler: its shape error is an ExtractionError like the others,
\* and a defect leaves the run open.
ExtractionBreaks(w) ==
    /\ wk[w].at = "portal"
    /\ wk' = [wk EXCEPT ![w] =
                 IF task[wk[w].run] = PriceList THEN IdleWorker
                                                ELSE [@ EXCEPT !.at = "failing"]]
    /\ UNCHANGED <<runVars, lock, actor, queue, alerts, faults>>

\* JobRunSucceeded: whether the source was interrupted is read before the run
\* is written.
ReportSuccessRead(w) ==
    LET r == wk[w].run IN
    /\ wk[w].at = "landed"
    /\ wk' = [wk EXCEPT ![w].at = "closing", ![w].seen = status[r],
                 ![w].alert = /\ task[r] = PriceList
                              /\ ConsecutiveFailures(status, task[r]) >= StallThreshold]
    /\ UNCHANGED <<runVars, lock, actor, queue, alerts, faults>>

\* The UPDATE carries the columns that differ from what was read.
ReportSuccessCommit(w) ==
    LET r == wk[w].run IN
    /\ wk[w].at = "closing"
    /\ RowIsFree(r)
    /\ status' = IF wk[w].seen = "SUCCEEDED" THEN status
                                             ELSE [status EXCEPT ![r] = "SUCCEEDED"]
    /\ alerts' = IF wk[w].alert THEN Append(alerts, "recovered") ELSE alerts
    /\ wk' = [wk EXCEPT ![w] = IdleWorker]
    /\ UNCHANGED <<task, age, last, reaped, lock, actor, queue, faults>>

\* JobRunFailed: the run is written first, and the failures counted after. The
\* row is read by the statement before the UPDATE, and the two are one step.
ReportFailureFlush(w) ==
    /\ wk[w].at = "failing"
    /\ RowIsFree(wk[w].run)
    /\ wk' = [wk EXCEPT ![w].at = "flushed", ![w].alert = WarnsOfStall(wk[w].run)]
    /\ UNCHANGED <<runVars, lock, actor, queue, alerts, faults>>

ReportFailureCommit(w) ==
    /\ wk[w].at = "flushed"
    /\ status' = [status EXCEPT ![wk[w].run] = "FAILED"]
    /\ alerts' = IF wk[w].alert THEN Append(alerts, "stalled") ELSE alerts
    /\ wk' = [wk EXCEPT ![w] = IdleWorker]
    /\ UNCHANGED <<task, age, last, reaped, lock, actor, queue, faults>>

\* task_soft_time_limit: the exception ends the wait of _LoopRunner.run, and
\* with it the task, which frees its slot and acknowledges its message. Nobody
\* cancels the coroutine.
SoftLimit(w) ==
    /\ w \in SlotsTaken
    /\ wk[w].elapsed = HardLimit
    /\ wk' = [wk EXCEPT ![w].stray = TRUE]
    /\ UNCHANGED <<runVars, lock, actor, queue, alerts, faults>>

\* task_time_limit: the process is killed and the message is not delivered again.
Kill(w) ==
    /\ w \in SlotsTaken
    /\ wk[w].elapsed = HardLimit
    /\ wk' = [wk EXCEPT ![w] = IdleWorker]
    /\ UNCHANGED <<runVars, lock, actor, queue, alerts, faults>>

\* The process of a coroutine whose task is over goes away, for whatever reason.
StrayDies(w) ==
    /\ wk[w].stray
    /\ wk' = [wk EXCEPT ![w] = IdleWorker]
    /\ UNCHANGED <<runVars, lock, actor, queue, alerts, faults>>

\* The worker is replaced mid-task. task_acks_late: its message comes back.
WorkerCrash(w) ==
    /\ w \in SlotsTaken
    /\ faults < MaxFaults
    /\ faults' = faults + 1
    /\ queue' = queue \cup {Message(wk[w].run, wk[w].attempt)}
    /\ wk' = [wk EXCEPT ![w] = IdleWorker]
    /\ UNCHANGED <<runVars, lock, actor, alerts>>

\* A deploy in between loses a retry that was waiting.
LoseMessage(m) ==
    /\ m \in queue
    /\ faults < MaxFaults
    /\ faults' = faults + 1
    /\ queue' = queue \ {m}
    /\ UNCHANGED <<runVars, lock, actor, wk, alerts>>

-----------------------------------------------------------------------------
(* Time. No task holds a slot beyond the hard limit: a limit comes first.  *)

Older(n) == IF n < MaxAge THEN n + 1 ELSE n

TimePasses ==
    /\ \A w \in SlotsTaken : wk[w].elapsed < HardLimit
    /\ age' = [r \in RunIds |-> IF status[r] = "absent" THEN age[r] ELSE Older(age[r])]
    /\ wk' = [w \in Workers |-> IF w \in SlotsTaken THEN [wk[w] EXCEPT !.elapsed = @ + 1]
                                                  ELSE wk[w]]
    /\ UNCHANGED <<status, task, last, reaped, lock, actor, queue, alerts, faults>>

Heartbeat(t) ==
    \/ TickStart(t) \/ ReapNothing(t) \/ ReapRead(t) \/ ReapFlush(t) \/ ReapCommit(t)
    \/ TickDue(t)

Request(a) == TryLock(a) \/ CheckRunning(a) \/ OpenRun(a) \/ Dispatch(a) \/ HistoryFull(a)

Attempt(w) ==
    \/ Extract(w) \/ ExtractionFails(w) \/ ExtractionBreaks(w)
    \/ ReportSuccessRead(w) \/ ReportSuccessCommit(w)
    \/ ReportFailureFlush(w) \/ ReportFailureCommit(w)

Limit(w) == SoftLimit(w) \/ Kill(w)

Next ==
    \/ \E t \in Tickers : Heartbeat(t)
    \/ \E c \in Callers, j \in Jobs : RequestManually(c, j)
    \/ \E a \in Actors : Request(a) \/ ActorCrash(a)
    \/ \E w \in Workers : Attempt(w) \/ Limit(w) \/ StrayDies(w) \/ WorkerCrash(w)
    \/ \E m \in queue, w \in Workers : Start(w, m)
    \/ \E m \in queue : LoseMessage(m)
    \/ TimePasses

Spec == Init /\ [][Next]_vars

\* Beat wakes the heartbeats for ever, requests and statements sent to the
\* database end, Celery enforces the limits of a task, and time passes. Nothing
\* is asked of the portal, of the workers that read it or of the broker.
Fairness ==
    /\ \A t \in Tickers : WF_vars(Heartbeat(t))
    /\ \A a \in Actors : WF_vars(Request(a))
    /\ \A w \in Workers : WF_vars(Limit(w)) /\ WF_vars(ReportFailureCommit(w))
    /\ WF_vars(TimePasses)

FairSpec == Spec /\ Fairness

-----------------------------------------------------------------------------
(* Properties.                                                             *)

ActorState == [at : Phases, pos : Nat, job : Jobs \cup {NoOne},
               run : 0 .. MaxRuns, warn : BOOLEAN]
WorkerState == [at : Stages, run : 0 .. MaxRuns, attempt : Nat, elapsed : Nat,
                from : Nat, stray : BOOLEAN, seen : Statuses, alert : BOOLEAN]

TableTyped ==
    /\ status \in [RunIds -> Statuses]
    /\ task \in [RunIds -> Jobs \cup {NoOne}]
    /\ age \in [RunIds -> Nat]
    /\ last \in 0 .. MaxRuns
    /\ reaped \subseteq RunIds

ActorsTyped ==
    /\ actor \in [Actors -> ActorState]
    /\ \A a \in Actors : actor[a].at # "idle" => actor[a].job \in Jobs
    /\ \A a \in Actors : actor[a].at \in {"reaping", "dispatch"} => actor[a].run \in RunIds

WorkersTyped ==
    /\ wk \in [Workers -> WorkerState]
    /\ \A w \in Workers : wk[w].at # "idle" => wk[w].run \in RunIds

\* Types, and what the phases of a process imply about its fields.
TypeOK ==
    /\ TableTyped
    /\ lock \in [Jobs -> Actors \cup {NoOne}]
    /\ ActorsTyped
    /\ queue \subseteq [run : RunIds, attempt : Nat]
    /\ WorkersTyped
    /\ alerts \in Seq({"stalled", "recovered"})
    /\ faults \in Nat

\* RF-15: however callers, overlapping heartbeats, crashes, retries and late
\* reports interleave, the table never shows two open runs of one source. The
\* check and the insertion are two statements, and only the advisory lock keeps
\* a second session from stepping in between.
OneOpenRun == \A j \in Jobs : \A r, q \in Running(j) : r = q

\* A run is worked on by one attempt at a time: either one message waits for it
\* or one attempt is executing, across retries, redeliveries and limits. Two
\* attempts of a run would each report how it ended.
LiveWork(r) ==
    Cardinality({m \in queue : m.run = r})
        + Cardinality({w \in Workers : wk[w].at # "idle" /\ wk[w].run = r})
SingleAttempt == \A r \in RunIds : LiveWork(r) <= 1

\* Nobody is handed a run that is not in the table: the message leaves after the
\* commit, so a session that dies or is rolled back leaves no work behind whose
\* report would find no row to close.
NoOrphanWork ==
    /\ \A m \in queue : status[m.run] # "absent"
    /\ \A w \in Workers : wk[w].at # "idle" => status[wk[w].run] # "absent"

\* The table is filled in order, and every process is about a run of it.
InTable ==
    /\ \A r \in RunIds : r > last <=> status[r] = "absent"
    /\ \A a \in Actors : actor[a].run <= last
    /\ \A m \in queue : m.run <= last
    /\ \A w \in Workers : wk[w].run <= last

\* Why there is one open run: from the check to the commit of the insertion the
\* source's lock is held, and what the check saw still holds.
LockHeld ==
    \A a \in Actors : actor[a].at \in {"check", "insert"} => lock[actor[a].job] = a
CheckStillHolds ==
    \A a \in Actors : actor[a].at = "insert" => Running(actor[a].job) = {}
Serialized == LockHeld /\ CheckStillHolds /\ OneOpenRun

\* The inductive invariant.
IInv == TypeOK /\ InTable /\ Serialized

\* What the margin of ABANDONED_AFTER buys: a task that began within the margin
\* after its run was opened is never still holding its slot when the run is swept.
MarginHolds ==
    \A w \in SlotsTaken :
        wk[w].run \in reaped => wk[w].from >= Abandoned - HardLimit

\* Why an attempt is alone: a run is in the hands of one session about to send
\* its message, or of one message, or of one worker.
Sends(a, r) == actor[a].at = "dispatch" /\ actor[a].run = r
Works(w, r) == wk[w].at # "idle" /\ wk[w].run = r
HandedOnce ==
    /\ \A m, n \in queue : m.run = n.run => m = n
    /\ \A r \in RunIds :
        /\ \A w, v \in Workers : Works(w, r) /\ Works(v, r) => w = v
        /\ \A a, b \in Actors : Sends(a, r) /\ Sends(b, r) => a = b
        /\ \A w \in Workers, m \in queue : Works(w, r) => m.run # r
        /\ \A a \in Actors, m \in queue : Sends(a, r) => m.run # r
        /\ \A a \in Actors, w \in Workers : Sends(a, r) => ~ Works(w, r)

\* Why the margin holds: a run has not aged more than its attempt has lasted
\* since it found it, and one that was swept is as old as the sweep asks.
ClocksAgree ==
    /\ \A w \in SlotsTaken : /\ wk[w].elapsed <= HardLimit
                              /\ age[wk[w].run] <= wk[w].from + wk[w].elapsed
    /\ \A t \in Tickers : actor[t].at \in {"reap", "reaping"} /\ actor[t].run # 0
                             => age[actor[t].run] >= Abandoned
    /\ \A r \in reaped : r <= last /\ age[r] >= Abandoned

\* RF-12 and RF-44, while every run closes itself: what was last announced to
\* the owner is what the table of runs says, so an interruption is never left
\* unannounced and a recovery never announced without one.
Interrupted == ConsecutiveFailures(status, PriceList) >= StallThreshold
LastWord == IF alerts = <<>> THEN "recovered" ELSE alerts[Len(alerts)]
AnnouncedIffInterrupted ==
    reaped = {} => (LastWord = "stalled" <=> Interrupted)

\* RF-13, while every run closes itself: two warnings are never sent without a
\* recovery in between.
Alternates == \A i \in 1 .. Len(alerts) - 1 : alerts[i] # alerts[i + 1]
WarnedOnceWhenSelfClosed == reaped = {} => Alternates

\* Both: the owner hears of each interruption, and once.
EachInterruptionIsToldOnce == AnnouncedIffInterrupted /\ WarnedOnceWhenSelfClosed

\* RF-13 as the specification states it, with no proviso.
WarnsOncePerInterruption == Alternates

\* request_sync: two sessions of the same portal account never read one source.
OneReader ==
    \A w, v \in Workers :
        wk[w].at = "portal" /\ wk[v].at = "portal"
            /\ task[wk[w].run] = task[wk[v].run] => w = v

\* The runs implement the promise: a source is open while a run of it is.
OpenSources == {j \in Jobs : Running(j) # {}}
Promise == INSTANCE OneAtATime WITH Jobs <- Jobs, open <- OpenSources, opened <- last

\* RF-15 as a refinement, of which the safety part is proved: no step opens a
\* source that is open, reopens a run that was closed, or starts two at once.
KeepsThePromise == Promise!Spec

\* RF-14, with its fairness: nothing that was started stays open for ever.
OpenRunsAreClosed == Promise!FairSpec

\* No source is wedged: whatever crashes, gets lost or never comes back, the
\* heartbeat goes on opening runs, up to the bound of the model.
NeverWedged == <>(last = MaxRuns)
==============================================================================
