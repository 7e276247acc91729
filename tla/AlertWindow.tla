----------------------------- MODULE AlertWindow -----------------------------
(***************************************************************************)
(* When an immediate alert may leave: the two hours the owner sets         *)
(* (modules/operations), the copy notifications keeps of them, and the     *)
(* delay an alert is queued with (notifications/delivery.py).              *)
(*                                                                         *)
(* Moments are instants of one week: SlotsPerDay of them each day, and the *)
(* hours a parameter can say are the slots of a day.                       *)
(***************************************************************************)
EXTENDS Naturals

CONSTANTS
    SlotsPerDay,  \* instants told apart in a day
    NoHour,       \* a parameter nobody stored
    NotAnHour     \* a value that is no time of day

ASSUME SlotsAssumption ==
    SlotsPerDay \in Nat \ {0} /\ NoHour \notin Nat /\ NotAnHour \notin Nat

VARIABLES
    stored,   \* operations.parameter, by key
    setting,  \* notification_setting, by key
    alert     \* the last alert queued: [at, delay], or NoAlert

windowVars == <<stored, setting, alert>>

DaysInAWeek == 7
WorkingDays == 0..4
Keys == {"window_start", "window_end"}
Hours == 0..(SlotsPerDay - 1)
NoAlert == [queued |-> FALSE]

DayOf(moment) == (moment \div SlotsPerDay) % DaysInAWeek
TimeOf(moment) == moment % SlotsPerDay

\* A parameter nobody stored is worth its initial value, the same on both sides.
InitialValue(key) == IF key = "window_start" THEN 1 ELSE SlotsPerDay - 2
InEffect(values, key) == IF values[key] = NoHour THEN InitialValue(key) ELSE values[key]

IsOpen(values, moment) ==
    /\ DayOf(moment) \in WorkingDays
    /\ InEffect(values, "window_start") <= TimeOf(moment)
    /\ TimeOf(moment) <= InEffect(values, "window_end")

\* The first working day from `day` on, counted in days.
\* A mutant: from a Saturday the next day is taken.
DaysToTomorrow(day) == IF day % DaysInAWeek \in WorkingDays THEN 0 ELSE 1

DaysToWork(day) ==
    CHOOSE k \in 0..DaysInAWeek :
        /\ (day + k) % DaysInAWeek \in WorkingDays
        /\ \A j \in 0..DaysInAWeek : j < k => (day + j) % DaysInAWeek \notin WorkingDays

\* delay_until_window.
DelayUntilWindow(now) ==
    LET start == InEffect(setting, "window_start")
        later == IF TimeOf(now) > start \/ DayOf(now) \notin WorkingDays THEN 1 ELSE 0
        day == (now \div SlotsPerDay) + later
        opens == (day + DaysToWork(day)) * SlotsPerDay + start
    IN  IF IsOpen(setting, now) THEN 0 ELSE IF opens > now THEN opens - now ELSE 0

\* set_parameters: the whole batch is validated before any of it is written, and each
\* value reaches the copy of notifications in the same transaction.
SetParameters(batch) ==
    /\ \A key \in DOMAIN batch : batch[key] \in Hours
    /\ stored' = [key \in Keys |-> IF key \in DOMAIN batch THEN batch[key] ELSE stored[key]]
    /\ setting' = [key \in Keys |-> IF key \in DOMAIN batch THEN batch[key] ELSE setting[key]]
    /\ alert' = NoAlert

RefuseParameters(batch) ==
    /\ \E key \in DOMAIN batch : batch[key] \notin Hours
    /\ UNCHANGED windowVars

\* _deliver.
QueueAlert(now) ==
    /\ alert' = [queued |-> TRUE, at |-> now, delay |-> DelayUntilWindow(now)]
    /\ UNCHANGED <<stored, setting>>

WindowInit ==
    /\ stored = [key \in Keys |-> NoHour]
    /\ setting = [key \in Keys |-> NoHour]
    /\ alert = NoAlert

Batches == UNION {[keys -> Hours \cup {NotAnHour}] : keys \in (SUBSET Keys) \ {{}}}

WindowNext ==
    \/ \E batch \in Batches : SetParameters(batch) \/ RefuseParameters(batch)
    \/ \E now \in 0..(DaysInAWeek * SlotsPerDay - 1) : QueueAlert(now)

WindowSpec == WindowInit /\ [][WindowNext]_windowVars

\* An alert waits for the first instant at which the hours the owner set are open, on a
\* working day, and for no longer: over a night, over a weekend and at both edges of the
\* window (delivery.py:59-79).  Hours set the wrong way round are never open.
LeavesWhenTheWindowOpens ==
    alert.queued /\ InEffect(stored, "window_start") <= InEffect(stored, "window_end") =>
        /\ IsOpen(stored, alert.at + alert.delay)
        /\ \A sooner \in 0..alert.delay :
               sooner < alert.delay => ~IsOpen(stored, alert.at + sooner)
=============================================================================
