--------------------------- MODULE JobRunsProofs ---------------------------
(***************************************************************************)
(* Theorems about JobRuns, for every set of sources, callers, heartbeats   *)
(* and workers and every value of the bounds: the types hold, a source     *)
(* never has two open runs and a run never two attempts, the margin of the *)
(* sweep protects a task, and the runs implement OneAtATime.               *)
(***************************************************************************)
EXTENDS JobRuns, FiniteSetTheorems, TLAPS

-----------------------------------------------------------------------------
(* What the helpers return.                                                *)

LEMMA IdleTypes == IdleActor \in ActorState /\ IdleWorker \in WorkerState
  BY BoundsAssumption DEF IdleActor, IdleWorker, ActorState, WorkerState, Phases,
     Stages, Statuses

\* A heartbeat stands at a source of its beat, or is over.
LEMMA PositionType ==
  ASSUME NEW t \in Tickers, NEW phase \in {"reap", "due"}, NEW p \in Nat \ {0}
  PROVE  /\ Position(t, phase, p) \in ActorState
         /\ Position(t, phase, p).at # "idle" => Position(t, phase, p).job \in Jobs
         /\ Position(t, phase, p).at \in {"idle", phase}
         /\ Position(t, phase, p).run = 0
<1>1. BeatOf[t] \in Seq(Jobs)
  BY BeatAssumption
<1>2. p <= Len(BeatOf[t]) => BeatOf[t][p] \in Jobs
  BY <1>1
<1>3. MaxRuns \in Nat
  BY BoundsAssumption
<1>4. CASE p <= Len(BeatOf[t])
  <2>1. Position(t, phase, p) =
          [at |-> phase, pos |-> p, job |-> BeatOf[t][p], run |-> 0, warn |-> FALSE]
    BY <1>4 DEF Position, IdleActor
  <2> QED
    BY <2>1, <1>2, <1>3, <1>4 DEF ActorState, Phases
<1>5. CASE ~ (p <= Len(BeatOf[t]))
  BY <1>5, IdleTypes DEF Position, IdleActor
<1> QED
  BY <1>4, <1>5

LEMMA AfterReapType ==
  ASSUME TypeOK, NEW t \in Tickers
  PROVE  /\ AfterReap(t) \in ActorState
         /\ AfterReap(t).at # "idle" => AfterReap(t).job \in Jobs
         /\ AfterReap(t).at \in {"idle", "reap", "due"}
         /\ AfterReap(t).run = 0
<1>1. actor[t].pos + 1 \in Nat \ {0} /\ 1 \in Nat \ {0}
  BY DEF TypeOK, ActorsTyped, ActorState, Actors
<1> QED
  BY <1>1, PositionType DEF AfterReap

LEMMA ReleasedType ==
  ASSUME lock \in [Jobs -> Actors \cup {NoOne}], NEW a
  PROVE  Released(a) \in [Jobs -> Actors \cup {NoOne}]
  BY DEF Released

-----------------------------------------------------------------------------
(* Types.                                                                  *)

LEMMA TypeOKInit == Init => TypeOK
  BY IdleTypes, BoundsAssumption, ActorsAssumption
     DEF Init, TypeOK, TableTyped, ActorsTyped, WorkersTyped, Statuses, IdleActor, IdleWorker, RunIds

LEMMA ActorStep ==
  ASSUME ActorsTyped, NEW a \in Actors, NEW s \in ActorState,
         s.at # "idle" => s.job \in Jobs,
         s.at \in {"reaping", "dispatch"} => s.run \in RunIds,
         actor' = [actor EXCEPT ![a] = s]
  PROVE  ActorsTyped'
  BY DEF ActorsTyped

\* The three ways a process moves on: in its phase, with the run it opened, and
\* from the idle record to the request of a source.
LEMMA ActorMoves ==
  ASSUME ActorsTyped, NEW a \in Actors,
         NEW phase \in Phases \ {"reaping", "dispatch"}, actor[a].job \in Jobs,
         actor' = [actor EXCEPT ![a].at = phase]
  PROVE  ActorsTyped'
<1> DEFINE s == [actor[a] EXCEPT !.at = phase]
<1>1. actor[a] \in ActorState
  BY DEF ActorsTyped
<1>2. s \in ActorState /\ s.at = phase /\ s.job = actor[a].job
  BY <1>1 DEF ActorState
<1>3. actor' = [actor EXCEPT ![a] = s]
  OBVIOUS
<1> HIDE DEF s
<1> QED
  BY <1>2, <1>3, ActorStep

LEMMA ActorOpens ==
  ASSUME ActorsTyped, NEW a \in Actors, NEW phase \in Phases, NEW r \in RunIds, MaxRuns \in Nat,
         actor[a].job \in Jobs,
         actor' = [actor EXCEPT ![a].at = phase, ![a].run = r]
  PROVE  ActorsTyped'
<1> DEFINE s == [actor[a] EXCEPT !.at = phase, !.run = r]
<1>1. actor[a] \in ActorState /\ r \in 0 .. MaxRuns
  BY DEF ActorsTyped, RunIds
<1>2. s \in ActorState /\ s.at = phase /\ s.job = actor[a].job /\ s.run = r
  BY <1>1 DEF ActorState
<1>3. actor' = [actor EXCEPT ![a] = s]
  BY DEF ActorsTyped
<1> HIDE DEF s
<1> QED
  BY <1>2, <1>3, ActorStep

LEMMA ActorArrives ==
  ASSUME ActorsTyped, NEW a \in Actors, NEW s0 \in ActorState, NEW j \in Jobs,
         actor' = [actor EXCEPT ![a] = [s0 EXCEPT !.at = "lock", !.job = j]]
  PROVE  ActorsTyped'
<1> DEFINE s == [s0 EXCEPT !.at = "lock", !.job = j]
<1>2. s \in ActorState /\ s.at = "lock" /\ s.job = j
  BY DEF ActorState, Phases
<1>3. actor' = [actor EXCEPT ![a] = s]
  OBVIOUS
<1> HIDE DEF s
<1> QED
  BY <1>2, <1>3, ActorStep

LEMMA WorkerStep ==
  ASSUME WorkersTyped, NEW w \in Workers, NEW s \in WorkerState,
         s.at # "idle" => s.run \in RunIds,
         wk' = [wk EXCEPT ![w] = s]
  PROVE  WorkersTyped'
  BY DEF WorkersTyped

LEMMA HeartbeatTypes ==
  ASSUME TypeOK, NEW t \in Tickers, Heartbeat(t)
  PROVE  TypeOK'
<1>0. t \in Actors /\ MaxRuns \in Nat /\ 1 \in Nat \ {0} /\ actor[t].pos + 1 \in Nat \ {0}
  BY BoundsAssumption DEF Actors, TypeOK, ActorsTyped, ActorState
<1>1. CASE TickStart(t)
  <2>1. ActorsTyped'
    BY <1>0, <1>1, PositionType, ActorStep DEF TickStart, TypeOK
  <2> QED
    BY <1>1, <2>1 DEF TickStart, TypeOK, TableTyped, WorkersTyped, runVars
<1>2. CASE ReapNothing(t)
  <2>1. ActorsTyped'
    BY <1>0, <1>2, AfterReapType, ActorStep DEF ReapNothing, TypeOK
  <2> QED
    BY <1>2, <2>1 DEF ReapNothing, TypeOK, TableTyped, WorkersTyped, runVars
<1>3. CASE ReapRead(t)
  <2>1. PICK r \in Running(actor[t].job) : actor' = [actor EXCEPT ![t].run = r]
    BY <1>3 DEF ReapRead
  <2>2. r \in RunIds
    BY <2>1 DEF Running, RunsOf
  <2>3. [actor[t] EXCEPT !.run = r] \in ActorState
    BY <1>0, <2>2 DEF TypeOK, ActorsTyped, ActorState, RunIds
  <2>4. actor' = [actor EXCEPT ![t] = [actor[t] EXCEPT !.run = r]]
    BY <2>1
  <2>5. actor[t].at = "reap" /\ actor[t].job \in Jobs
    BY <1>0, <1>3 DEF ReapRead, TypeOK, ActorsTyped
  <2>6. ActorsTyped'
    BY <1>0, <2>3, <2>4, <2>5, ActorStep DEF TypeOK, ActorState
  <2> QED
    BY <1>3, <2>6 DEF ReapRead, TypeOK, TableTyped, WorkersTyped, runVars
<1>4. CASE ReapFlush(t)
  <2>1. WarnsOfStall(actor[t].run) \in BOOLEAN
    BY DEF WarnsOfStall
  <2>2. actor[t].run \in RunIds
    BY <1>0, <1>4 DEF ReapFlush, TypeOK, ActorsTyped, ActorState, RunIds
  <2>3. ActorsTyped'
    BY ZenonT(40), <1>0, <1>4, <2>1, <2>2 DEF ReapFlush, TypeOK, ActorsTyped, ActorState, Phases
  <2> QED
    BY <1>4, <2>3 DEF ReapFlush, TypeOK, TableTyped, WorkersTyped, runVars
<1>5. CASE ReapCommit(t)
  <2>1. ActorsTyped'
    BY <1>0, <1>5, AfterReapType, ActorStep DEF ReapCommit, TypeOK
  <2>2. actor[t].run \in RunIds
    BY <1>0, <1>5 DEF ReapCommit, TypeOK, ActorsTyped
  <2>3. TableTyped'
    BY <1>5, <2>2 DEF ReapCommit, TypeOK, TableTyped, Statuses
  <2>4. alerts' \in Seq({"stalled", "recovered"})
    BY <1>5 DEF ReapCommit, TypeOK
  <2> QED
    BY <1>5, <2>1, <2>3, <2>4, ReleasedType DEF ReapCommit, TypeOK, WorkersTyped
<1>6. CASE TickDue(t)
  <2>1. ActorsTyped' /\ lock' \in [Jobs -> Actors \cup {NoOne}]
    <3>1. CASE actor' = [actor EXCEPT ![t].at = "lock"] /\ lock' = lock
      BY <1>0, <1>6, <3>1 DEF TickDue, TypeOK, ActorsTyped, ActorState, Phases
    <3>2. CASE Skip(t)
      BY <1>0, <3>2, PositionType, ActorStep, ReleasedType DEF Skip, TypeOK
    <3> QED
      BY <1>6, <3>1, <3>2 DEF TickDue
  <2> QED
    BY <1>6, <2>1 DEF TickDue, TypeOK, TableTyped, WorkersTyped, runVars
<1> QED
  BY <1>1, <1>2, <1>3, <1>4, <1>5, <1>6 DEF Heartbeat

LEMMA RefuseTypes ==
  ASSUME TypeOK, NEW a \in Actors, Refuse(a)
  PROVE  ActorsTyped' /\ lock' \in [Jobs -> Actors \cup {NoOne}]
<1>1. CASE a \in Tickers
  <2>1. actor[a].pos + 1 \in Nat \ {0}
    BY DEF TypeOK, ActorsTyped, ActorState
  <2> QED
    BY <1>1, <2>1, PositionType, ActorStep, ReleasedType DEF Refuse, Skip, TypeOK
<1>2. CASE a \notin Tickers
  BY <1>2, IdleTypes, ActorStep, ReleasedType DEF Refuse, TypeOK, IdleActor
<1> QED
  BY <1>1, <1>2

LEMMA RequestTypes ==
  ASSUME TypeOK, NEW a \in Actors, Request(a)
  PROVE  TypeOK'
<1>0. MaxRuns \in Nat /\ actor[a].pos + 1 \in Nat \ {0}
  BY BoundsAssumption DEF TypeOK, ActorsTyped, ActorState
<1>1. CASE TryLock(a)
  <2>1. ActorsTyped' /\ lock' \in [Jobs -> Actors \cup {NoOne}]
    <3>1. CASE lock[actor[a].job] \in {NoOne, a}
      <4>1. actor[a].job \in Jobs /\ "check" \in Phases \ {"reaping", "dispatch"}
        BY <1>1 DEF TryLock, TypeOK, ActorsTyped, Phases
      <4>2. ActorsTyped'
        BY <1>1, <3>1, <4>1, ActorMoves DEF TryLock, TypeOK
      <4>3. lock' \in [Jobs -> Actors \cup {NoOne}]
        BY <1>1, <3>1 DEF TryLock, TypeOK
      <4> QED
        BY <4>2, <4>3
    <3>2. CASE ~ (lock[actor[a].job] \in {NoOne, a})
      BY <1>1, <3>2, RefuseTypes DEF TryLock
    <3> QED
      BY <3>1, <3>2
  <2> QED
    BY <1>1, <2>1 DEF TryLock, TypeOK, TableTyped, WorkersTyped, runVars
<1>2. CASE CheckRunning(a)
  <2>1. ActorsTyped' /\ lock' \in [Jobs -> Actors \cup {NoOne}]
    <3>1. CASE Running(actor[a].job) = {}
      <4>1. actor[a].job \in Jobs /\ "insert" \in Phases \ {"reaping", "dispatch"}
        BY <1>2 DEF CheckRunning, TypeOK, ActorsTyped, Phases
      <4>2. actor' = [actor EXCEPT ![a].at = "insert"] /\ lock' = lock
        BY <1>2, <3>1 DEF CheckRunning
      <4>3. ActorsTyped'
        BY <4>1, <4>2, ActorMoves DEF TypeOK
      <4> QED
        BY <4>2, <4>3 DEF TypeOK
    <3>2. CASE Running(actor[a].job) # {}
      BY <1>2, <3>2, RefuseTypes DEF CheckRunning
    <3> QED
      BY <3>1, <3>2
  <2> QED
    BY <1>2, <2>1 DEF CheckRunning, TypeOK, TableTyped, WorkersTyped, runVars
<1>3. CASE OpenRun(a)
  <2>1. last + 1 \in RunIds /\ last' \in 0 .. MaxRuns
    BY <1>0, <1>3 DEF OpenRun, TypeOK, TableTyped, RunIds
  <2>2. actor[a].job \in Jobs
    BY <1>3 DEF OpenRun, TypeOK, ActorsTyped
  <2>3. TableTyped'
    BY <1>0, <1>3, <2>1, <2>2 DEF OpenRun, TypeOK, TableTyped, Statuses
  <2>4. "dispatch" \in Phases
    BY DEF Phases
  <2>5. ActorsTyped'
    BY <1>0, <1>3, <2>1, <2>2, <2>4, ActorOpens DEF OpenRun, TypeOK
  <2> QED
    BY <1>3, <2>3, <2>5, ReleasedType DEF OpenRun, TypeOK, WorkersTyped
<1>4. CASE Dispatch(a)
  <2>1. actor[a].run \in RunIds
    BY <1>4 DEF Dispatch, TypeOK, ActorsTyped
  <2>2. queue' \subseteq [run : RunIds, attempt : Nat]
    BY <1>4, <2>1 DEF Dispatch, TypeOK, Message
  <2>3. ActorsTyped'
    <3>1. CASE a \in Tickers
      BY <1>0, <1>4, <3>1, PositionType, ActorStep DEF Dispatch, TypeOK
    <3>2. CASE a \notin Tickers
      BY <1>4, <3>2, IdleTypes, ActorStep DEF Dispatch, TypeOK, IdleActor
    <3> QED
      BY <3>1, <3>2
  <2> QED
    BY <1>4, <2>2, <2>3 DEF Dispatch, TypeOK, TableTyped, WorkersTyped, runVars
<1>5. CASE HistoryFull(a)
  <2>1. ActorsTyped'
    BY <1>5, IdleTypes, ActorStep DEF HistoryFull, TypeOK, IdleActor
  <2> QED
    BY <1>5, <2>1, ReleasedType DEF HistoryFull, TypeOK, TableTyped, WorkersTyped, runVars
<1> QED
  BY <1>1, <1>2, <1>3, <1>4, <1>5 DEF Request

LEMMA ArrivalTypes ==
  ASSUME TypeOK, NEW c \in Callers, NEW j \in Jobs, RequestManually(c, j)
  PROVE  TypeOK'
<1>1. c \in Actors
  BY DEF Actors
<1>2. ActorsTyped'
  BY <1>1, IdleTypes, ActorArrives DEF TypeOK, RequestManually
<1> QED
  BY <1>2 DEF RequestManually, TypeOK, TableTyped, WorkersTyped, runVars

LEMMA ActorCrashTypes ==
  ASSUME TypeOK, NEW a \in Actors, ActorCrash(a)
  PROVE  TypeOK'
<1>1. ActorsTyped'
  BY IdleTypes, ActorStep DEF ActorCrash, TypeOK, IdleActor
<1> QED
  BY <1>1, ReleasedType DEF ActorCrash, TypeOK, TableTyped, WorkersTyped, runVars

\* An attempt changes stage, and with it at most one Boolean and what it read.
LEMMA WorkerMoves ==
  ASSUME WorkersTyped, NEW w \in Workers, NEW s \in WorkerState, s.run = wk[w].run,
         wk[w].at # "idle", wk' = [wk EXCEPT ![w] = s]
  PROVE  WorkersTyped'
  BY DEF WorkersTyped

LEMMA WorkerEnds ==
  ASSUME WorkersTyped, NEW w \in Workers, wk' = [wk EXCEPT ![w] = IdleWorker]
  PROVE  WorkersTyped'
  BY IdleTypes, WorkerStep DEF IdleWorker

LEMMA AttemptTypes ==
  ASSUME TypeOK, NEW w \in Workers, Attempt(w)
  PROVE  TypeOK'
<1>0. wk[w] \in WorkerState /\ Stages = {"idle", "portal", "landed", "closing", "failing", "flushed"}
  BY DEF TypeOK, WorkersTyped, Stages
<1>1. CASE Extract(w)
  <2> DEFINE s == [wk[w] EXCEPT !.at = "landed"]
  <2>1. s \in WorkerState /\ s.run = wk[w].run
    BY <1>0 DEF WorkerState
  <2>2. wk' = [wk EXCEPT ![w] = s] /\ wk[w].at # "idle"
    BY <1>1 DEF Extract
  <2> HIDE DEF s
  <2>3. WorkersTyped'
    BY <2>1, <2>2, WorkerMoves DEF TypeOK
  <2> QED
    BY <1>1, <2>3 DEF Extract, TypeOK, TableTyped, ActorsTyped, runVars
<1>2. CASE ExtractionFails(w)
  <2>1. CASE wk[w].attempt < MaxRetries
    <3>1. WorkersTyped'
      BY <1>2, <2>1, WorkerEnds DEF ExtractionFails, TypeOK
    <3>2. wk[w].run \in RunIds /\ wk[w].attempt + 1 \in Nat
      BY <1>0, <1>2 DEF ExtractionFails, TypeOK, WorkersTyped, WorkerState
    <3>3. queue' \subseteq [run : RunIds, attempt : Nat]
      BY <1>2, <2>1, <3>2 DEF ExtractionFails, TypeOK, Message
    <3> QED
      BY <1>2, <3>1, <3>3 DEF ExtractionFails, TypeOK, TableTyped, ActorsTyped, runVars
  <2>2. CASE ~ (wk[w].attempt < MaxRetries)
    <3> DEFINE s == [wk[w] EXCEPT !.at = "failing"]
    <3>1. s \in WorkerState /\ s.run = wk[w].run
      BY <1>0 DEF WorkerState
    <3>2. wk' = [wk EXCEPT ![w] = s] /\ wk[w].at # "idle" /\ queue' = queue
      BY <1>2, <2>2 DEF ExtractionFails
    <3> HIDE DEF s
    <3>3. WorkersTyped'
      BY <3>1, <3>2, WorkerMoves DEF TypeOK
    <3> QED
      BY <1>2, <3>2, <3>3 DEF ExtractionFails, TypeOK, TableTyped, ActorsTyped, runVars
  <2> QED
    BY <2>1, <2>2
<1>3. CASE ExtractionBreaks(w)
  <2>1. CASE task[wk[w].run] = PriceList
    <3>1. WorkersTyped'
      BY <1>3, <2>1, WorkerEnds DEF ExtractionBreaks, TypeOK
    <3> QED
      BY <1>3, <3>1 DEF ExtractionBreaks, TypeOK, TableTyped, ActorsTyped, runVars
  <2>2. CASE task[wk[w].run] # PriceList
    <3> DEFINE s == [wk[w] EXCEPT !.at = "failing"]
    <3>1. s \in WorkerState /\ s.run = wk[w].run
      BY <1>0 DEF WorkerState
    <3>2. wk' = [wk EXCEPT ![w] = s] /\ wk[w].at # "idle"
      BY <1>3, <2>2 DEF ExtractionBreaks
    <3> HIDE DEF s
    <3>3. WorkersTyped'
      BY <3>1, <3>2, WorkerMoves DEF TypeOK
    <3> QED
      BY <1>3, <3>3 DEF ExtractionBreaks, TypeOK, TableTyped, ActorsTyped, runVars
  <2> QED
    BY <2>1, <2>2
<1>4. CASE ReportSuccessRead(w)
  <2>1. PICK alert \in BOOLEAN :
          wk' = [wk EXCEPT ![w].at = "closing", ![w].seen = status[wk[w].run],
                           ![w].alert = alert]
    BY <1>4 DEF ReportSuccessRead
  <2> DEFINE s == [wk[w] EXCEPT !.at = "closing", !.seen = status[wk[w].run], !.alert = alert]
  <2>2. status[wk[w].run] \in Statuses /\ wk[w].at # "idle"
    BY <1>4 DEF ReportSuccessRead, TypeOK, TableTyped, WorkersTyped
  <2>3. s \in WorkerState /\ s.run = wk[w].run
    BY <1>0, <2>2 DEF WorkerState
  <2>4. wk' = [wk EXCEPT ![w] = s]
    BY <2>1 DEF TypeOK, WorkersTyped
  <2> HIDE DEF s
  <2>5. WorkersTyped'
    BY <2>2, <2>3, <2>4, WorkerMoves DEF TypeOK
  <2> QED
    BY <1>4, <2>5 DEF ReportSuccessRead, TypeOK, TableTyped, ActorsTyped, runVars
<1>5. CASE ReportSuccessCommit(w)
  <2>1. WorkersTyped'
    BY <1>5, WorkerEnds DEF ReportSuccessCommit, TypeOK
  <2>2. TableTyped'
    BY <1>5 DEF ReportSuccessCommit, TypeOK, TableTyped, Statuses
  <2>3. alerts' \in Seq({"stalled", "recovered"})
    BY <1>5 DEF ReportSuccessCommit, TypeOK
  <2> QED
    BY <1>5, <2>1, <2>2, <2>3 DEF ReportSuccessCommit, TypeOK, ActorsTyped
<1>6. CASE ReportFailureFlush(w)
  <2>1. PICK alert \in BOOLEAN : wk' = [wk EXCEPT ![w].at = "flushed", ![w].alert = alert]
    BY <1>6 DEF ReportFailureFlush, WarnsOfStall
  <2> DEFINE s == [wk[w] EXCEPT !.at = "flushed", !.alert = alert]
  <2>2. s \in WorkerState /\ s.run = wk[w].run
    BY <1>0 DEF WorkerState
  <2>3. wk' = [wk EXCEPT ![w] = s] /\ wk[w].at # "idle"
    BY <1>6, <2>1 DEF ReportFailureFlush, TypeOK, WorkersTyped
  <2> HIDE DEF s
  <2>4. WorkersTyped'
    BY <2>2, <2>3, WorkerMoves DEF TypeOK
  <2> QED
    BY <1>6, <2>4 DEF ReportFailureFlush, TypeOK, TableTyped, ActorsTyped, runVars
<1>7. CASE ReportFailureCommit(w)
  <2>1. WorkersTyped'
    BY <1>7, WorkerEnds DEF ReportFailureCommit, TypeOK
  <2>2. TableTyped'
    BY <1>7 DEF ReportFailureCommit, TypeOK, TableTyped, Statuses
  <2>3. alerts' \in Seq({"stalled", "recovered"})
    BY <1>7 DEF ReportFailureCommit, TypeOK
  <2> QED
    BY <1>7, <2>1, <2>2, <2>3 DEF ReportFailureCommit, TypeOK, ActorsTyped
<1> QED
  BY <1>1, <1>2, <1>3, <1>4, <1>5, <1>6, <1>7 DEF Attempt

LEMMA EndTypes ==
  ASSUME TypeOK, NEW w \in Workers, Limit(w) \/ StrayDies(w) \/ WorkerCrash(w)
  PROVE  TypeOK'
<1>1. CASE SoftLimit(w)
  <2> DEFINE s == [wk[w] EXCEPT !.stray = TRUE]
  <2>1. s \in WorkerState /\ s.run = wk[w].run
    BY DEF TypeOK, WorkersTyped, WorkerState
  <2>2. wk' = [wk EXCEPT ![w] = s] /\ wk[w].at # "idle"
    BY <1>1 DEF SoftLimit, SlotsTaken
  <2> HIDE DEF s
  <2>3. WorkersTyped'
    BY <2>1, <2>2, WorkerMoves DEF TypeOK
  <2> QED
    BY <1>1, <2>3 DEF SoftLimit, TypeOK, TableTyped, ActorsTyped, runVars
<1>2. CASE Kill(w)
  <2>1. WorkersTyped'
    BY <1>2, WorkerEnds DEF Kill, TypeOK
  <2> QED
    BY <1>2, <2>1 DEF Kill, TypeOK, TableTyped, ActorsTyped, runVars
<1>3. CASE StrayDies(w)
  <2>1. WorkersTyped'
    BY <1>3, WorkerEnds DEF StrayDies, TypeOK
  <2> QED
    BY <1>3, <2>1 DEF StrayDies, TypeOK, TableTyped, ActorsTyped, runVars
<1>4. CASE WorkerCrash(w)
  <2>1. WorkersTyped'
    BY <1>4, WorkerEnds DEF WorkerCrash, TypeOK
  <2>2. wk[w].run \in RunIds /\ wk[w].attempt \in Nat
    BY <1>4 DEF WorkerCrash, SlotsTaken, TypeOK, WorkersTyped, WorkerState
  <2>3. queue' \subseteq [run : RunIds, attempt : Nat]
    BY <1>4, <2>2 DEF WorkerCrash, TypeOK, Message
  <2> QED
    BY <1>4, <2>1, <2>3 DEF WorkerCrash, TypeOK, TableTyped, ActorsTyped, runVars
<1> QED
  BY <1>1, <1>2, <1>3, <1>4 DEF Limit

LEMMA StartTypes ==
  ASSUME TypeOK, NEW m \in queue, NEW w \in Workers, Start(w, m)
  PROVE  TypeOK'
<1> DEFINE s == [IdleWorker EXCEPT !.at = "portal", !.run = m.run, !.attempt = m.attempt,
                                   !.from = age[m.run]]
<1>1. m.run \in RunIds /\ m.attempt \in Nat /\ age[m.run] \in Nat /\ MaxRuns \in Nat
  BY BoundsAssumption DEF TypeOK, TableTyped
<1>2. m.run \in 0 .. MaxRuns
  BY <1>1 DEF RunIds
<1>3. ASSUME NEW s0 \in WorkerState
      PROVE  LET u == [s0 EXCEPT !.at = "portal", !.run = m.run, !.attempt = m.attempt,
                                 !.from = age[m.run]]
             IN  u \in WorkerState /\ u.run = m.run
  BY <1>1, <1>2 DEF WorkerState, Stages
<1>4. s \in WorkerState /\ s.run = m.run
  BY <1>3, IdleTypes
<1>5. wk' = [wk EXCEPT ![w] = s]
  BY DEF Start
<1> HIDE DEF s
<1>6. WorkersTyped'
  BY <1>1, <1>4, <1>5, WorkerStep DEF TypeOK
<1> QED
  BY <1>6 DEF Start, TypeOK, TableTyped, ActorsTyped, runVars

LEMMA LossTypes ==
  ASSUME TypeOK, NEW m \in queue, LoseMessage(m)
  PROVE  TypeOK'
  BY DEF LoseMessage, TypeOK, TableTyped, ActorsTyped, WorkersTyped, runVars

LEMMA TimeTypes ==
  ASSUME TypeOK, TimePasses
  PROVE  TypeOK'
<1>1. age' \in [RunIds -> Nat]
  BY DEF TimePasses, TypeOK, TableTyped, Older
<1>2. \A w \in Workers : wk'[w] \in WorkerState /\ wk'[w].run = wk[w].run
                         /\ wk'[w].at = wk[w].at
  <2> TAKE w \in Workers
  <2>1. wk[w] \in WorkerState
    BY DEF TypeOK, WorkersTyped
  <2>2. wk'[w] = wk[w] \/ wk'[w] = [wk[w] EXCEPT !.elapsed = wk[w].elapsed + 1]
    BY DEF TimePasses
  <2> QED
    BY <2>1, <2>2 DEF WorkerState
<1>3. wk' \in [Workers -> WorkerState]
  BY <1>2 DEF TimePasses
<1>4. WorkersTyped'
  BY <1>2, <1>3 DEF TypeOK, WorkersTyped
<1> QED
  BY <1>1, <1>4 DEF TimePasses, TypeOK, TableTyped, ActorsTyped

LEMMA TypeOKStep == TypeOK /\ [Next]_vars => TypeOK'
<1> SUFFICES ASSUME TypeOK, [Next]_vars PROVE TypeOK'
  OBVIOUS
<1>1. ASSUME NEW t \in Tickers, Heartbeat(t) PROVE TypeOK'
  BY <1>1, HeartbeatTypes
<1>2. ASSUME NEW c \in Callers, NEW j \in Jobs, RequestManually(c, j) PROVE TypeOK'
  BY <1>2, ArrivalTypes
<1>3. ASSUME NEW a \in Actors, Request(a) \/ ActorCrash(a) PROVE TypeOK'
  BY <1>3, RequestTypes, ActorCrashTypes
<1>4. ASSUME NEW w \in Workers, Attempt(w) PROVE TypeOK'
  BY <1>4, AttemptTypes
<1>5. ASSUME NEW w \in Workers, Limit(w) \/ StrayDies(w) \/ WorkerCrash(w) PROVE TypeOK'
  BY <1>5, EndTypes
<1>6. ASSUME NEW m \in queue, NEW w \in Workers, Start(w, m) PROVE TypeOK'
  BY <1>6, StartTypes
<1>7. ASSUME NEW m \in queue, LoseMessage(m) PROVE TypeOK'
  BY <1>7, LossTypes
<1>8. CASE TimePasses
  BY <1>8, TimeTypes
<1>9. CASE UNCHANGED vars
  BY <1>9 DEF vars, runVars, TypeOK, TableTyped, ActorsTyped, WorkersTyped
<1> QED
  BY <1>1, <1>2, <1>3, <1>4, <1>5, <1>6, <1>7, <1>8, <1>9 DEF Next

\* Every variable keeps its type: in particular a transaction about to write a
\* run, and an attempt about to report one, always name a run of the table.
THEOREM TypesHold == Spec => []TypeOK
  BY TypeOKInit, TypeOKStep, PTL DEF Spec

-----------------------------------------------------------------------------
(* One open run of each source.                                            *)

LEMMA SerializedInit == Init => Serialized
  BY DEF Init, Serialized, LockHeld, CheckStillHolds, OneOpenRun, Running, RunsOf,
     IdleActor, Actors

\* Closing a run, by whatever path, opens none.
LEMMA NoneOpened ==
  ASSUME task' = task, \A r \in RunIds : status'[r] = "RUNNING" => status[r] = "RUNNING"
  PROVE  \A j : Running(j)' \subseteq Running(j)
  BY DEF Running, RunsOf

\* A step of one process that neither checks nor inserts disturbs nobody, as
\* long as it only lets go of its own locks.
LEMMA OthersKeepTheirs ==
  ASSUME TypeOK, Serialized, NEW a \in Actors, NEW s,
         actor' = [actor EXCEPT ![a] = s], s.at \notin {"check", "insert"},
         lock' \in {lock, Released(a)},
         \A j \in Jobs : Running(j)' \subseteq Running(j)
  PROVE  Serialized'
<1>1. \A b \in Actors \ {a} : actor'[b] = actor[b]
  BY DEF TypeOK, ActorsTyped
<1>2. actor'[a].at \notin {"check", "insert"}
  BY DEF TypeOK, ActorsTyped
<1>3. \A j \in Jobs, b \in Actors \ {a} : lock[j] = b => lock'[j] = b
  BY DEF TypeOK, Released
<1>4. \A b \in Actors : actor[b].at # "idle" => actor[b].job \in Jobs
  BY DEF TypeOK, ActorsTyped
<1>5. LockHeld'
  BY <1>1, <1>2, <1>3, <1>4 DEF Serialized, LockHeld
<1>6. CheckStillHolds'
  BY <1>1, <1>2, <1>4 DEF Serialized, CheckStillHolds
<1>7. OneOpenRun'
  BY DEF Serialized, OneOpenRun
<1> QED
  BY <1>5, <1>6, <1>7 DEF Serialized

LEMMA NobodyMoves ==
  ASSUME TypeOK, Serialized, UNCHANGED <<lock, actor>>,
         \A j \in Jobs : Running(j)' \subseteq Running(j)
  PROVE  Serialized'
<1>1. \A b \in Actors : actor[b].at # "idle" => actor[b].job \in Jobs
  BY DEF TypeOK, ActorsTyped
<1> QED
  BY <1>1 DEF Serialized, LockHeld, CheckStillHolds, OneOpenRun

LEMMA HeartbeatSerialized ==
  ASSUME TypeOK, Serialized, NEW t \in Tickers, Heartbeat(t)
  PROVE  Serialized'
<1>0. t \in Actors /\ 1 \in Nat \ {0} /\ actor[t].pos + 1 \in Nat \ {0}
  BY DEF Actors, TypeOK, ActorsTyped, ActorState
<1>1. \A j \in Jobs : Running(j)' \subseteq Running(j)
  <2>1. CASE ReapCommit(t)
    <3>1. \A r \in RunIds : status'[r] = "RUNNING" => status[r] = "RUNNING"
      BY <2>1 DEF ReapCommit, TypeOK, TableTyped
    <3> QED
      BY <2>1, <3>1, NoneOpened DEF ReapCommit
  <2>2. CASE ~ ReapCommit(t)
    <3>1. UNCHANGED <<status, task>>
      BY <2>2 DEF Heartbeat, TickStart, ReapNothing, ReapRead, ReapFlush, TickDue, runVars
    <3> QED
      BY <3>1, NoneOpened
  <2> QED
    BY <2>1, <2>2
<1>2. CASE TickStart(t)
  BY <1>0, <1>1, <1>2, PositionType, OthersKeepTheirs DEF TickStart
<1>3. CASE ReapNothing(t)
  BY <1>0, <1>1, <1>3, AfterReapType, OthersKeepTheirs DEF ReapNothing
<1>4. CASE ReapRead(t)
  <2>1. PICK r \in Running(actor[t].job) : actor' = [actor EXCEPT ![t].run = r]
    BY <1>4 DEF ReapRead
  <2> DEFINE s == [actor[t] EXCEPT !.run = r]
  <2>2. s.at = "reap"
    BY <1>0, <1>4 DEF ReapRead, TypeOK, ActorsTyped, ActorState
  <2>3. actor' = [actor EXCEPT ![t] = s] /\ lock' = lock
    BY <1>4, <2>1 DEF ReapRead
  <2> HIDE DEF s
  <2> QED
    BY <1>0, <1>1, <2>2, <2>3, OthersKeepTheirs
<1>5. CASE ReapFlush(t)
  <2> DEFINE s == [actor[t] EXCEPT !.at = "reaping", !.warn = WarnsOfStall(actor[t].run)]
  <2>1. s.at = "reaping"
    BY <1>0 DEF TypeOK, ActorsTyped, ActorState
  <2>2. actor' = [actor EXCEPT ![t] = s] /\ lock' = lock
    BY <1>0, <1>5 DEF ReapFlush, TypeOK, ActorsTyped
  <2> HIDE DEF s
  <2> QED
    BY <1>0, <1>1, <2>1, <2>2, OthersKeepTheirs
<1>6. CASE ReapCommit(t)
  BY <1>0, <1>1, <1>6, AfterReapType, OthersKeepTheirs DEF ReapCommit
<1>7. CASE TickDue(t)
  <2>1. CASE actor' = [actor EXCEPT ![t].at = "lock"] /\ lock' = lock
    <3> DEFINE s == [actor[t] EXCEPT !.at = "lock"]
    <3>1. s.at = "lock"
      BY <1>0 DEF TypeOK, ActorsTyped, ActorState
    <3>2. actor' = [actor EXCEPT ![t] = s] /\ lock' = lock
      BY <2>1
    <3> HIDE DEF s
    <3> QED
      BY <1>0, <1>1, <3>1, <3>2, OthersKeepTheirs
  <2>2. CASE Skip(t)
    BY <1>0, <1>1, <2>2, PositionType, OthersKeepTheirs DEF Skip
  <2> QED
    BY <1>7, <2>1, <2>2 DEF TickDue
<1> QED
  BY <1>2, <1>3, <1>4, <1>5, <1>6, <1>7 DEF Heartbeat

LEMMA RefuseSerialized ==
  ASSUME TypeOK, Serialized, NEW a \in Actors, Refuse(a), UNCHANGED <<status, task>>
  PROVE  Serialized'
<1>0. actor[a].pos + 1 \in Nat \ {0} /\ \A j \in Jobs : Running(j)' \subseteq Running(j)
  BY NoneOpened DEF TypeOK, ActorsTyped, ActorState
<1>1. CASE a \in Tickers
  BY <1>0, <1>1, PositionType, OthersKeepTheirs DEF Refuse, Skip
<1>2. CASE a \notin Tickers
  <2>1. IdleActor.at \notin {"check", "insert"}
    BY DEF IdleActor
  <2> QED
    BY <1>0, <1>2, <2>1, OthersKeepTheirs DEF Refuse
<1> QED
  BY <1>1, <1>2

LEMMA RequestSerialized ==
  ASSUME TypeOK, Serialized, NEW a \in Actors, Request(a)
  PROVE  Serialized'
<1>0. /\ actor \in [Actors -> ActorState] /\ lock \in [Jobs -> Actors \cup {NoOne}]
      /\ \A b \in Actors : actor[b].at # "idle" => actor[b].job \in Jobs
  BY DEF TypeOK, ActorsTyped
<1>1. CASE TryLock(a)
  <2>1. UNCHANGED <<status, task>>
    BY <1>1 DEF TryLock, runVars
  <2>2. CASE lock[actor[a].job] \in {NoOne, a}
    <3>1. /\ lock' = [lock EXCEPT ![actor[a].job] = a]
          /\ actor' = [actor EXCEPT ![a].at = "check"] /\ actor[a].at = "lock"
      BY <1>1, <2>2 DEF TryLock
    <3>2. /\ actor'[a].at = "check" /\ actor'[a].job = actor[a].job
          /\ \A b \in Actors \ {a} : actor'[b] = actor[b]
      BY <1>0, <3>1 DEF ActorState
    <3>3. \A b \in Actors \ {a} : actor[b].at \in {"check", "insert"} =>
             actor[b].job # actor[a].job
      BY <2>2, ActorsAssumption DEF Serialized, LockHeld
    <3>4. actor[a].job \in Jobs
      BY <1>0, <3>1
    <3>5. LockHeld'
      BY <1>0, <3>1, <3>2, <3>3, <3>4 DEF Serialized, LockHeld
    <3>6. \A j : Running(j)' = Running(j)
      BY <2>1 DEF Running, RunsOf
    <3>7. CheckStillHolds' /\ OneOpenRun'
      BY <3>2, <3>6 DEF Serialized, CheckStillHolds, OneOpenRun
    <3> QED
      BY <3>5, <3>7 DEF Serialized
  <2>3. CASE ~ (lock[actor[a].job] \in {NoOne, a})
    BY <1>1, <2>1, <2>3, RefuseSerialized DEF TryLock
  <2> QED
    BY <2>2, <2>3
<1>2. CASE CheckRunning(a)
  <2>1. UNCHANGED <<status, task>>
    BY <1>2 DEF CheckRunning, runVars
  <2>2. CASE Running(actor[a].job) = {}
    <3>1. lock' = lock /\ actor' = [actor EXCEPT ![a].at = "insert"] /\ actor[a].at = "check"
      BY <1>2, <2>2 DEF CheckRunning
    <3>2. /\ actor'[a].at = "insert" /\ actor'[a].job = actor[a].job
          /\ \A b \in Actors \ {a} : actor'[b] = actor[b]
      BY <1>0, <3>1 DEF ActorState
    <3>3. LockHeld'
      BY <3>1, <3>2 DEF Serialized, LockHeld
    <3>4. \A j : Running(j)' = Running(j)
      BY <2>1 DEF Running, RunsOf
    <3>5. CheckStillHolds' /\ OneOpenRun'
      BY <2>2, <3>2, <3>4 DEF Serialized, CheckStillHolds, OneOpenRun
    <3> QED
      BY <3>3, <3>5 DEF Serialized
  <2>3. CASE Running(actor[a].job) # {}
    BY <1>2, <2>1, <2>3, RefuseSerialized DEF CheckRunning
  <2> QED
    BY <2>2, <2>3
<1>3. CASE OpenRun(a)
  <2> DEFINE r == last + 1
  <2>1. /\ actor[a].at = "insert" /\ lock' = Released(a)
        /\ status' = [status EXCEPT ![r] = "RUNNING"]
        /\ task' = [task EXCEPT ![r] = actor[a].job]
        /\ actor' = [actor EXCEPT ![a].at = "dispatch", ![a].run = r]
    BY <1>3 DEF OpenRun
  <2>2. r \in RunIds /\ status \in [RunIds -> Statuses] /\ task \in [RunIds -> Jobs \cup {NoOne}]
    BY <1>3, BoundsAssumption DEF OpenRun, TypeOK, TableTyped, RunIds
  <2>3. actor[a].job \in Jobs /\ lock[actor[a].job] = a /\ Running(actor[a].job) = {}
    BY <1>0, <2>1 DEF Serialized, LockHeld, CheckStillHolds
  <2>4. actor'[a].at = "dispatch" /\ \A b \in Actors \ {a} : actor'[b] = actor[b]
    BY <1>0, <2>1 DEF ActorState
  <2>5. LockHeld'
    BY <1>0, <2>1, <2>4 DEF Serialized, LockHeld, Released
  <2> HIDE DEF r
  <2>0. PICK mine \in Jobs : mine = actor[a].job
    BY <2>3
  <2>6. Running(mine)' \subseteq {r}
    BY <2>0, <2>1, <2>2, <2>3 DEF Running, RunsOf
  <2>7. \A j \in Jobs : j # actor[a].job => Running(j)' \subseteq Running(j)
    BY <2>1, <2>2 DEF Running, RunsOf
  <2>8. \A b \in Actors \ {a} : actor[b].at = "insert" => actor[b].job # actor[a].job
    BY <2>3 DEF Serialized, LockHeld
  <2>9. CheckStillHolds'
    BY <1>0, <2>4, <2>7, <2>8 DEF Serialized, CheckStillHolds
  <2>10. ASSUME NEW j \in Jobs PROVE \A x, y \in Running(j)' : x = y
    <3>1. CASE j = mine
      BY <2>6, <3>1
    <3>2. CASE j # mine
      BY <2>0, <2>7, <3>2 DEF Serialized, OneOpenRun
    <3> QED
      BY <3>1, <3>2
  <2>11. OneOpenRun'
    BY <2>10 DEF OneOpenRun
  <2> QED
    BY <2>5, <2>9, <2>11 DEF Serialized
<1>4. CASE Dispatch(a)
  <2>1. actor[a].pos + 1 \in Nat \ {0} /\ \A j \in Jobs : Running(j)' \subseteq Running(j)
    BY <1>0, <1>4, NoneOpened DEF ActorState, Dispatch, runVars
  <2>2. CASE a \in Tickers
    BY <1>4, <2>1, <2>2, PositionType, OthersKeepTheirs DEF Dispatch
  <2>3. CASE a \notin Tickers
    <3>1. IdleActor.at \notin {"check", "insert"}
      BY DEF IdleActor
    <3> QED
      BY <1>4, <2>1, <2>3, <3>1, OthersKeepTheirs DEF Dispatch
  <2> QED
    BY <2>2, <2>3
<1>5. CASE HistoryFull(a)
  <2>1. IdleActor.at \notin {"check", "insert"} /\ \A j \in Jobs : Running(j)' \subseteq Running(j)
    BY <1>5, NoneOpened DEF IdleActor, HistoryFull, runVars
  <2> QED
    BY <1>5, <2>1, OthersKeepTheirs DEF HistoryFull
<1> QED
  BY <1>1, <1>2, <1>3, <1>4, <1>5 DEF Request

LEMMA SerializedStep == TypeOK /\ Serialized /\ [Next]_vars => Serialized'
<1> SUFFICES ASSUME TypeOK, Serialized, [Next]_vars PROVE Serialized'
  OBVIOUS
<1>1. ASSUME NEW t \in Tickers, Heartbeat(t) PROVE Serialized'
  BY <1>1, HeartbeatSerialized
<1>2. ASSUME NEW c \in Callers, NEW j \in Jobs, RequestManually(c, j) PROVE Serialized'
  <2> DEFINE s == [IdleActor EXCEPT !.at = "lock", !.job = j]
  <2>1. s.at = "lock"
    BY IdleTypes DEF ActorState
  <2>2. actor' = [actor EXCEPT ![c] = s] /\ lock' = lock /\ UNCHANGED <<status, task>>
    BY <1>2 DEF RequestManually, runVars
  <2> HIDE DEF s
  <2>3. c \in Actors /\ \A i \in Jobs : Running(i)' \subseteq Running(i)
    BY <2>2, NoneOpened DEF Actors
  <2> QED
    BY <2>1, <2>2, <2>3, OthersKeepTheirs
<1>3. ASSUME NEW a \in Actors, Request(a) PROVE Serialized'
  BY <1>3, RequestSerialized
<1>4. ASSUME NEW a \in Actors, ActorCrash(a) PROVE Serialized'
  <2>1. IdleActor.at \notin {"check", "insert"} /\ \A j \in Jobs : Running(j)' \subseteq Running(j)
    BY <1>4, NoneOpened DEF IdleActor, ActorCrash, runVars
  <2> QED
    BY <1>4, <2>1, OthersKeepTheirs DEF ActorCrash
<1>5. ASSUME NEW w \in Workers, Attempt(w) PROVE Serialized'
  <2>1. UNCHANGED <<task, lock, actor>>
    BY <1>5 DEF Attempt, Extract, ExtractionFails, ExtractionBreaks, ReportSuccessRead,
       ReportSuccessCommit, ReportFailureFlush, ReportFailureCommit, runVars
  <2>2. status' \in {status, [status EXCEPT ![wk[w].run] = "SUCCEEDED"],
                             [status EXCEPT ![wk[w].run] = "FAILED"]}
    BY <1>5 DEF Attempt, Extract, ExtractionFails, ExtractionBreaks, ReportSuccessRead,
       ReportSuccessCommit, ReportFailureFlush, ReportFailureCommit, runVars
  <2>3. \A r \in RunIds : status'[r] = "RUNNING" => status[r] = "RUNNING"
    BY <2>2 DEF TypeOK, TableTyped
  <2> QED
    BY <2>1, <2>3, NoneOpened, NobodyMoves
<1>6. CASE UNCHANGED <<status, task, lock, actor>>
  BY <1>6, NoneOpened, NobodyMoves
<1>7. ASSUME NEW w \in Workers, Limit(w) \/ StrayDies(w) \/ WorkerCrash(w) PROVE Serialized'
  BY <1>6, <1>7 DEF Limit, SoftLimit, Kill, StrayDies, WorkerCrash, runVars
<1>8. ASSUME NEW m \in queue, LoseMessage(m) \/ \E w \in Workers : Start(w, m)
      PROVE  Serialized'
  BY <1>6, <1>8 DEF LoseMessage, Start, runVars
<1>9. CASE TimePasses \/ UNCHANGED vars
  BY <1>6, <1>9 DEF TimePasses, vars, runVars
<1> QED
  BY <1>1, <1>2, <1>3, <1>4, <1>5, <1>7, <1>8, <1>9 DEF Next

\* RF-15 for any number of sources, callers, heartbeats and workers: a source
\* never has two open runs, whatever crashes, retries, is swept or reports late.
THEOREM OneRunOfEachSource == Spec => []OneOpenRun
<1>1. Init => TypeOK /\ Serialized
  BY TypeOKInit, SerializedInit
<1>2. TypeOK /\ Serialized /\ [Next]_vars => (TypeOK /\ Serialized)'
  BY TypeOKStep, SerializedStep
<1>3. TypeOK /\ Serialized => OneOpenRun
  BY DEF Serialized
<1> QED
  BY <1>1, <1>2, <1>3, PTL DEF Spec

-----------------------------------------------------------------------------
(* Nobody is about a run that is not in the table.                         *)

LEMMA InTableInit == Init => InTable
  BY BoundsAssumption DEF Init, InTable, IdleActor, IdleWorker, RunIds

\* An open run is in the table.
LEMMA RunningInTable ==
  ASSUME TypeOK, InTable, NEW j, NEW r \in Running(j)
  PROVE  r \in RunIds /\ r <= last
  BY DEF InTable, Running, RunsOf, TypeOK, TableTyped, RunIds

LEMMA ActorRunInTable ==
  ASSUME TypeOK, InTable, NEW a \in Actors, NEW s, s.run <= last,
         actor' = [actor EXCEPT ![a] = s], UNCHANGED last
  PROVE  \A b \in Actors : actor'[b].run <= last'
  BY DEF InTable, TypeOK, ActorsTyped

LEMMA ClosingKeepsTable ==
  ASSUME TypeOK, InTable, NEW r \in RunIds, r <= last, NEW s \in {"SUCCEEDED", "FAILED"},
         status' \in {status, [status EXCEPT ![r] = s]}, UNCHANGED last
  PROVE  \A q \in RunIds : q > last' <=> status'[q] = "absent"
<1>1. last \in 0 .. MaxRuns /\ status \in [RunIds -> Statuses] /\ MaxRuns \in Nat
  BY BoundsAssumption DEF TypeOK, TableTyped
<1>2. ~ (r > last)
  BY <1>1 DEF RunIds
<1> QED
  BY <1>1, <1>2 DEF InTable

LEMMA HeartbeatInTable ==
  ASSUME TypeOK, InTable, NEW t \in Tickers, Heartbeat(t)
  PROVE  InTable'
<1>0. /\ t \in Actors /\ 1 \in Nat \ {0} /\ actor[t].pos + 1 \in Nat \ {0}
      /\ last \in 0 .. MaxRuns /\ 0 <= last /\ actor \in [Actors -> ActorState]
      /\ actor[t] \in ActorState
  BY BoundsAssumption DEF Actors, TypeOK, TableTyped, ActorsTyped, ActorState
<1>1. UNCHANGED <<last, queue, wk>>
  BY DEF Heartbeat, TickStart, ReapNothing, ReapRead, ReapFlush, ReapCommit, TickDue, runVars
<1>2. \A b \in Actors : actor'[b].run <= last'
  <2>1. CASE TickStart(t)
    BY <1>0, <1>1, <2>1, PositionType, ActorRunInTable DEF TickStart
  <2>2. CASE ReapNothing(t) \/ ReapCommit(t)
    BY <1>0, <1>1, <2>2, AfterReapType, ActorRunInTable DEF ReapNothing, ReapCommit
  <2>3. CASE ReapRead(t)
    <3>1. PICK r \in Running(actor[t].job) : actor' = [actor EXCEPT ![t].run = r]
      BY <2>3 DEF ReapRead
    <3> DEFINE s == [actor[t] EXCEPT !.run = r]
    <3>2. s.run <= last
      BY <1>0, <3>1, RunningInTable DEF ActorState
    <3>3. actor' = [actor EXCEPT ![t] = s]
      BY <3>1
    <3> HIDE DEF s
    <3> QED
      BY <1>0, <1>1, <3>2, <3>3, ActorRunInTable
  <2>4. CASE ReapFlush(t)
    <3>1. \A b \in Actors : actor'[b].run = actor[b].run
      BY <1>0, <2>4 DEF ReapFlush, ActorState
    <3> QED
      BY <1>1, <3>1 DEF InTable
  <2>5. CASE TickDue(t)
    <3>1. CASE actor' = [actor EXCEPT ![t].at = "lock"]
      <4>1. \A b \in Actors : actor'[b].run = actor[b].run
        BY <1>0, <3>1 DEF ActorState
      <4> QED
        BY <1>1, <4>1 DEF InTable
    <3>2. CASE Skip(t)
      BY <1>0, <1>1, <3>2, PositionType, ActorRunInTable DEF Skip
    <3> QED
      BY <2>5, <3>1, <3>2 DEF TickDue
  <2> QED
    BY <2>1, <2>2, <2>3, <2>4, <2>5 DEF Heartbeat
<1>3. \A q \in RunIds : q > last' <=> status'[q] = "absent"
  <2>1. CASE ReapCommit(t)
    <3>1. actor[t].run \in RunIds /\ actor[t].run <= last
      BY <1>0, <2>1 DEF ReapCommit, TypeOK, ActorsTyped, InTable
    <3> QED
      BY <1>1, <2>1, <3>1, ClosingKeepsTable DEF ReapCommit
  <2>2. CASE ~ ReapCommit(t)
    <3>1. status' = status
      BY <2>2 DEF Heartbeat, TickStart, ReapNothing, ReapRead, ReapFlush, TickDue, runVars
    <3> QED
      BY <1>1, <3>1 DEF InTable
  <2> QED
    BY <2>1, <2>2
<1> QED
  BY <1>1, <1>2, <1>3 DEF InTable

LEMMA RequestInTable ==
  ASSUME TypeOK, InTable, NEW a \in Actors, Request(a) \/ ActorCrash(a)
  PROVE  InTable'
<1>0. /\ actor[a].pos + 1 \in Nat \ {0} /\ last \in 0 .. MaxRuns /\ MaxRuns \in Nat /\ 0 <= last
      /\ actor \in [Actors -> ActorState] /\ actor[a] \in ActorState /\ IdleActor.run = 0
      /\ status \in [RunIds -> Statuses] /\ wk' = wk
  BY SMTT(30), BoundsAssumption DEF TypeOK, TableTyped, ActorsTyped, ActorState, IdleActor, Request,
     ActorCrash, TryLock, CheckRunning, OpenRun, Dispatch, HistoryFull
<1>1. CASE OpenRun(a)
  <2>1. /\ last' = last + 1 /\ last < MaxRuns /\ queue' = queue
        /\ status' = [status EXCEPT ![last + 1] = "RUNNING"]
        /\ actor' = [actor EXCEPT ![a].at = "dispatch", ![a].run = last + 1]
    BY <1>1 DEF OpenRun
  <2>2. \A q \in RunIds : q > last' <=> status'[q] = "absent"
    BY <1>0, <2>1 DEF InTable, RunIds
  <2>3. ASSUME NEW b \in Actors PROVE actor'[b].run <= last'
    <3>1. actor[b].run \in 0 .. MaxRuns /\ actor[b].run <= last
      BY <1>0 DEF InTable, ActorState
    <3>2. actor'[b].run \in {actor[b].run, last + 1}
      BY <1>0, <2>1 DEF ActorState
    <3> QED
      BY <1>0, <2>1, <3>1, <3>2
  <2>4. \A m \in queue' : m.run <= last'
    BY <1>0, <2>1 DEF InTable, TypeOK, RunIds
  <2>5. \A w \in Workers : wk'[w].run <= last'
    BY <1>0, <2>1 DEF InTable, TypeOK, WorkersTyped, WorkerState
  <2> QED
    BY <2>2, <2>3, <2>4, <2>5 DEF InTable
<1>2. CASE ~ OpenRun(a)
  <2>1. UNCHANGED <<status, last>>
    BY <1>2 DEF Request, ActorCrash, TryLock, CheckRunning, Dispatch, HistoryFull, runVars
  <2>2. \A b \in Actors : actor'[b].run <= last'
    <3>1. CASE actor' = [actor EXCEPT ![a] = IdleActor]
      BY <1>0, <2>1, <3>1, ActorRunInTable
    <3>2. CASE a \in Tickers /\ actor' = [actor EXCEPT ![a] = Position(a, "due", actor[a].pos + 1)]
      BY <1>0, <2>1, <3>2, PositionType, ActorRunInTable
    <3>3. CASE \E phase \in {"check", "insert"} : actor' = [actor EXCEPT ![a].at = phase]
      <4>1. \A b \in Actors : actor'[b].run = actor[b].run
        BY <1>0, <3>3 DEF ActorState
      <4> QED
        BY <2>1, <4>1 DEF InTable
    <3> QED
      BY <1>2, <3>1, <3>2, <3>3 DEF Request, ActorCrash, TryLock, CheckRunning, Dispatch,
         HistoryFull, Refuse, Skip
  <2>3. \A m \in queue' : m.run <= last'
    BY <1>0, <1>2, <2>1 DEF InTable, Request, ActorCrash, TryLock, CheckRunning, Dispatch,
       HistoryFull, Message
  <2> QED
    BY <1>0, <2>1, <2>2, <2>3 DEF InTable
<1> QED
  BY <1>1, <1>2

\* What an attempt does to the table: nothing, or the end of its own run.
LEMMA AttemptCloses ==
  ASSUME NEW w \in Workers, Attempt(w)
  PROVE  /\ UNCHANGED <<task, last, lock, actor>>
         /\ wk[w].at # "idle"
         /\ \E s \in {"SUCCEEDED", "FAILED"} :
               status' \in {status, [status EXCEPT ![wk[w].run] = s]}
  BY DEF Attempt, Extract, ExtractionFails, ExtractionBreaks, ReportSuccessRead,
     ReportSuccessCommit, ReportFailureFlush, ReportFailureCommit, runVars

\* A worker goes on with its run, ends, or takes the run of a message; the
\* messages are about the same runs as before.
LEMMA WorkersInTable ==
  ASSUME TypeOK, InTable, UNCHANGED last,
         \A v \in Workers : \/ wk'[v].run \in {wk[v].run, 0}
                            \/ \E m \in queue : wk'[v].run = m.run,
         \A m \in queue' : m \in queue \/ \E v \in Workers : m.run = wk[v].run
  PROVE  /\ \A v \in Workers : wk'[v].run <= last'
         /\ \A m \in queue' : m.run <= last'
<1>1. 0 <= last
  BY BoundsAssumption DEF TypeOK, TableTyped
<1> QED
  BY <1>1 DEF InTable

LEMMA AttemptRuns ==
  ASSUME TypeOK, NEW w \in Workers, Attempt(w) \/ Limit(w) \/ StrayDies(w) \/ WorkerCrash(w)
  PROVE  /\ \A v \in Workers : wk'[v].run \in {wk[v].run, 0}
         /\ \A m \in queue' : m \in queue \/ \E v \in Workers : m.run = wk[v].run
<1>0. wk \in [Workers -> WorkerState] /\ wk[w] \in WorkerState /\ IdleWorker.run = 0
  BY DEF TypeOK, WorkersTyped, IdleWorker
<1>1. \/ queue' = queue
      \/ queue' = queue \cup {Message(wk[w].run, wk[w].attempt + 1)}
      \/ queue' = queue \cup {Message(wk[w].run, wk[w].attempt)}
  BY DEF Attempt, Extract, ExtractionFails, ExtractionBreaks, ReportSuccessRead,
     ReportSuccessCommit, ReportFailureFlush, ReportFailureCommit, Limit, SoftLimit, Kill,
     StrayDies, WorkerCrash
<1>2. \A m \in queue' : m \in queue \/ m.run = wk[w].run
  BY <1>1 DEF Message
<1>3. CASE wk' = [wk EXCEPT ![w] = IdleWorker]
  BY <1>0, <1>2, <1>3
<1>4. CASE Extract(w) \/ SoftLimit(w)
  <2>1. \A v \in Workers : wk'[v].run = wk[v].run
    BY <1>0, <1>4 DEF Extract, SoftLimit, WorkerState
  <2> QED
    BY <1>2, <2>1
<1>5. CASE ReportSuccessRead(w) \/ ReportFailureFlush(w)
  <2>1. \A v \in Workers : wk'[v].run = wk[v].run
    BY <1>0, <1>5 DEF ReportSuccessRead, ReportFailureFlush, WorkerState
  <2> QED
    BY <1>2, <2>1
<1>6. CASE wk' = [wk EXCEPT ![w].at = "failing"]
  <2>1. \A v \in Workers : wk'[v].run = wk[v].run
    BY <1>0, <1>6 DEF WorkerState
  <2> QED
    BY <1>2, <2>1
<1>7. ExtractionBreaks(w) => wk' \in {[wk EXCEPT ![w] = IdleWorker], [wk EXCEPT ![w].at = "failing"]}
  BY DEF ExtractionBreaks
<1>8. ExtractionFails(w) => wk' \in {[wk EXCEPT ![w] = IdleWorker], [wk EXCEPT ![w].at = "failing"]}
  BY DEF ExtractionFails
<1> QED
  BY <1>3, <1>4, <1>5, <1>6, <1>7, <1>8 DEF Attempt, ReportSuccessCommit, ReportFailureCommit,
     Limit, Kill, StrayDies, WorkerCrash

LEMMA WorkInTable ==
  ASSUME TypeOK, InTable, NEW w \in Workers,
         Attempt(w) \/ Limit(w) \/ StrayDies(w) \/ WorkerCrash(w)
  PROVE  InTable'
<1>1. UNCHANGED <<last, actor>>
  BY AttemptCloses DEF Limit, SoftLimit, Kill, StrayDies, WorkerCrash, runVars
<1>2. \A q \in RunIds : q > last' <=> status'[q] = "absent"
  <2>1. CASE Attempt(w)
    <3>1. wk[w].run \in RunIds /\ wk[w].run <= last
      BY <2>1, AttemptCloses DEF TypeOK, WorkersTyped, InTable
    <3> QED
      BY <1>1, <2>1, <3>1, AttemptCloses, ClosingKeepsTable
  <2>2. CASE ~ Attempt(w)
    BY <1>1, <2>2 DEF InTable, Limit, SoftLimit, Kill, StrayDies, WorkerCrash, runVars
  <2> QED
    BY <2>1, <2>2
<1>3. /\ \A v \in Workers : wk'[v].run <= last'
      /\ \A m \in queue' : m.run <= last'
  BY <1>1, AttemptRuns, WorkersInTable
<1> QED
  BY <1>1, <1>2, <1>3 DEF InTable

LEMMA InTableStep == TypeOK /\ InTable /\ [Next]_vars => InTable'
<1> SUFFICES ASSUME TypeOK, InTable, [Next]_vars PROVE InTable'
  OBVIOUS
<1>1. ASSUME NEW t \in Tickers, Heartbeat(t) PROVE InTable'
  BY <1>1, HeartbeatInTable
<1>2. ASSUME NEW c \in Callers, NEW j \in Jobs, RequestManually(c, j) PROVE InTable'
  <2> DEFINE s == [IdleActor EXCEPT !.at = "lock", !.job = j]
  <2>1. IdleActor.run = 0 /\ 0 <= last
    BY BoundsAssumption DEF IdleActor, TypeOK, TableTyped
  <2>2. s.run <= last
    BY <2>1, IdleTypes DEF ActorState
  <2>3. actor' = [actor EXCEPT ![c] = s] /\ UNCHANGED <<status, last, queue, wk>> /\ c \in Actors
    BY <1>2 DEF RequestManually, runVars, Actors
  <2> HIDE DEF s
  <2>4. \A b \in Actors : actor'[b].run <= last'
    BY <2>2, <2>3, ActorRunInTable
  <2> QED
    BY <2>3, <2>4 DEF InTable
<1>3. ASSUME NEW a \in Actors, Request(a) \/ ActorCrash(a) PROVE InTable'
  BY <1>3, RequestInTable
<1>4. ASSUME NEW w \in Workers, Attempt(w) \/ Limit(w) \/ StrayDies(w) \/ WorkerCrash(w)
      PROVE  InTable'
  BY <1>4, WorkInTable
<1>5. ASSUME NEW m \in queue, NEW w \in Workers, Start(w, m) PROVE InTable'
  <2>1. UNCHANGED <<status, last, actor>> /\ queue' = queue \ {m}
    BY <1>5 DEF Start, runVars
  <2>2. \A v \in Workers : v # w => wk'[v] = wk[v]
    BY <1>5 DEF Start, TypeOK, WorkersTyped
  <2>3. wk'[w].run = m.run
    <3>1. ASSUME NEW s0 \in WorkerState
          PROVE  [s0 EXCEPT !.at = "portal", !.run = m.run, !.attempt = m.attempt,
                            !.from = age[m.run]].run = m.run
      BY DEF WorkerState
    <3> QED
      BY <1>5, <3>1, IdleTypes DEF Start, TypeOK, WorkersTyped
  <2>4. /\ \A v \in Workers : wk'[v].run <= last'
        /\ \A n \in queue' : n.run <= last'
    BY <2>1, <2>2, <2>3, WorkersInTable
  <2> QED
    BY <2>1, <2>4 DEF InTable
<1>6. ASSUME NEW m \in queue, LoseMessage(m) PROVE InTable'
  BY <1>6 DEF LoseMessage, runVars, InTable
<1>7. CASE TimePasses
  <2>1. UNCHANGED <<status, last, actor, queue>>
    BY <1>7 DEF TimePasses
  <2>2. \A v \in Workers : wk'[v].run = wk[v].run
    <3> TAKE v \in Workers
    <3>1. wk[v] \in WorkerState
      BY DEF TypeOK, WorkersTyped
    <3>2. wk'[v] = wk[v] \/ wk'[v] = [wk[v] EXCEPT !.elapsed = wk[v].elapsed + 1]
      BY <1>7 DEF TimePasses
    <3> QED
      BY <3>1, <3>2 DEF WorkerState
  <2> QED
    BY <2>1, <2>2 DEF InTable
<1>8. CASE UNCHANGED vars
  BY <1>8 DEF vars, runVars, InTable
<1> QED
  BY <1>1, <1>2, <1>3, <1>4, <1>5, <1>6, <1>7, <1>8 DEF Next

LEMMA IInvHolds == Spec => []IInv
<1>1. Init => IInv
  BY TypeOKInit, InTableInit, SerializedInit DEF IInv
<1>2. IInv /\ [Next]_vars => IInv'
  BY TypeOKStep, InTableStep, SerializedStep DEF IInv
<1> QED
  BY <1>1, <1>2, PTL DEF Spec

\* Whatever session dies or is rolled back, no message and no attempt is about
\* a run that is not in the table.
THEOREM NoWorkWithoutItsRun == Spec => []NoOrphanWork
<1>1. IInv => NoOrphanWork
  <2> SUFFICES ASSUME IInv PROVE NoOrphanWork
    OBVIOUS
  <2>1. /\ \A m \in queue : m.run \in RunIds /\ m.run <= last
        /\ \A w \in Workers : wk[w].at # "idle" => wk[w].run \in RunIds /\ wk[w].run <= last
        /\ last \in 0 .. MaxRuns /\ MaxRuns \in Nat
    BY BoundsAssumption DEF IInv, InTable, TypeOK, TableTyped, WorkersTyped
  <2>2. \A r \in RunIds : r <= last => status[r] # "absent"
    BY <2>1 DEF IInv, InTable, RunIds
  <2> QED
    BY <2>1, <2>2 DEF NoOrphanWork
<1> QED
  BY <1>1, IInvHolds, PTL

-----------------------------------------------------------------------------
(* A run is in one pair of hands.                                          *)

\* Where the work of a run is may only be lost, while nothing new is handed over.
LEMMA HandsLetGo ==
  ASSUME HandedOnce, queue' \subseteq queue,
         \A w \in Workers, r \in RunIds : Works(w, r)' => Works(w, r),
         \A a \in Actors, r \in RunIds : Sends(a, r)' => Sends(a, r)
  PROVE  HandedOnce'
  BY DEF HandedOnce

LEMMA HeartbeatHands ==
  ASSUME TypeOK, NEW t \in Tickers, Heartbeat(t)
  PROVE  /\ UNCHANGED <<queue, wk>>
         /\ \A a \in Actors, r \in RunIds : Sends(a, r)' => Sends(a, r)
<1>0. /\ t \in Actors /\ actor \in [Actors -> ActorState] /\ actor[t].pos + 1 \in Nat \ {0}
      /\ 1 \in Nat \ {0} /\ actor[t] \in ActorState
  BY DEF TypeOK, ActorsTyped, ActorState, Actors
<1>1. UNCHANGED <<queue, wk>>
  BY DEF Heartbeat, TickStart, ReapNothing, ReapRead, ReapFlush, ReapCommit, TickDue
<1>2. \A b \in Actors : b # t => actor'[b] = actor[b]
  BY <1>0 DEF Heartbeat, TickStart, ReapNothing, ReapRead, ReapFlush, ReapCommit, TickDue, Skip
<1>3. actor'[t].at # "dispatch"
  <2>1. CASE TickStart(t)
    BY <1>0, <2>1, PositionType DEF TickStart
  <2>2. CASE ReapNothing(t) \/ ReapCommit(t)
    BY <1>0, <2>2, AfterReapType DEF ReapNothing, ReapCommit
  <2>3. CASE ReapRead(t)
    BY <1>0, <2>3 DEF ReapRead, ActorState
  <2>4. CASE ReapFlush(t)
    BY <1>0, <2>4 DEF ReapFlush, ActorState
  <2>5. CASE TickDue(t)
    BY <1>0, <2>5, PositionType DEF TickDue, Skip, ActorState
  <2> QED
    BY <2>1, <2>2, <2>3, <2>4, <2>5 DEF Heartbeat
<1>4. \A a \in Actors, r \in RunIds : Sends(a, r)' => Sends(a, r)
  BY <1>2, <1>3 DEF Sends
<1> QED
  BY <1>1, <1>4

LEMMA HeartbeatHandedOnce ==
  ASSUME TypeOK, HandedOnce, NEW t \in Tickers, Heartbeat(t)
  PROVE  HandedOnce'
<1>1. \A w \in Workers, r \in RunIds : Works(w, r)' => Works(w, r)
  BY HeartbeatHands DEF Works
<1> QED
  BY <1>1, HeartbeatHands, HandsLetGo

\* A session that goes on, or ends, no longer has a message to send.
LEMMA RequestHands ==
  ASSUME TypeOK, NEW a \in Actors, Request(a) \/ ActorCrash(a), ~ OpenRun(a)
  PROVE  \A b \in Actors, r \in RunIds : Sends(b, r)' => b # a /\ Sends(b, r)
<1>0. /\ actor \in [Actors -> ActorState] /\ actor[a].pos + 1 \in Nat \ {0} /\ actor[a] \in ActorState
      /\ IdleActor.at = "idle"
  BY DEF TypeOK, ActorsTyped, ActorState, IdleActor
<1>1. \A b \in Actors : b # a => actor'[b] = actor[b]
  BY <1>0 DEF Request, ActorCrash, TryLock, CheckRunning, Dispatch, HistoryFull, Refuse, Skip
<1>2. actor'[a].at # "dispatch"
  <2>1. CASE actor' = [actor EXCEPT ![a] = IdleActor]
    BY <1>0, <2>1
  <2>2. CASE a \in Tickers /\ actor' = [actor EXCEPT ![a] = Position(a, "due", actor[a].pos + 1)]
    BY <1>0, <2>2, PositionType
  <2>3. CASE \E phase \in {"check", "insert"} : actor' = [actor EXCEPT ![a].at = phase]
    BY <1>0, <2>3 DEF ActorState
  <2> QED
    BY <2>1, <2>2, <2>3 DEF Request, TryLock, CheckRunning, Dispatch, HistoryFull, ActorCrash,
       Refuse, Skip
<1> QED
  BY <1>1, <1>2 DEF Sends

LEMMA RequestHandedOnce ==
  ASSUME TypeOK, InTable, HandedOnce, NEW a \in Actors, Request(a) \/ ActorCrash(a)
  PROVE  HandedOnce'
<1>0. /\ actor \in [Actors -> ActorState] /\ actor[a].pos + 1 \in Nat \ {0} /\ actor[a] \in ActorState
      /\ IdleActor.at = "idle" /\ wk' = wk
  BY DEF TypeOK, ActorsTyped, ActorState, IdleActor, Request, ActorCrash, TryLock, CheckRunning,
     OpenRun, Dispatch, HistoryFull
<1>1. \A w \in Workers, r \in RunIds : Works(w, r)' <=> Works(w, r)
  BY <1>0 DEF Works
<1>2. \A b \in Actors : b # a => actor'[b] = actor[b]
  BY <1>0 DEF Request, ActorCrash, TryLock, CheckRunning, OpenRun, Dispatch, HistoryFull, Refuse, Skip
<1>3. \A b \in Actors, r \in RunIds : b # a => (Sends(b, r)' <=> Sends(b, r))
  BY <1>2 DEF Sends
<1>4. CASE OpenRun(a)
  \* Nothing is about the run that was not there.
  <2>1. PICK n \in RunIds : n = last + 1
    BY <1>4, BoundsAssumption DEF OpenRun, TypeOK, TableTyped, RunIds
  <2>2. queue' = queue /\ actor'[a].at = "dispatch" /\ actor'[a].run = n
    BY <1>0, <1>4, <2>1 DEF OpenRun, ActorState
  <2>3. \A r \in RunIds : Sends(a, r)' <=> r = n
    BY <2>2 DEF Sends
  <2>4. last \in Int /\ ~ (n <= last)
    BY <2>1, BoundsAssumption DEF TypeOK, TableTyped
  <2>5. /\ \A m \in queue : m.run # n
        /\ \A w \in Workers : ~ Works(w, n)
        /\ \A b \in Actors : ~ Sends(b, n)
    BY <2>4 DEF InTable, Works, Sends
  <2> QED
    BY <1>1, <1>3, <2>2, <2>3, <2>5 DEF HandedOnce
<1>5. CASE Dispatch(a)
  <2>1. PICK n \in RunIds : n = actor[a].run
    BY <1>5 DEF Dispatch, TypeOK, ActorsTyped
  <2>2. Sends(a, n) /\ queue' = queue \cup {Message(n, 0)} /\ Message(n, 0).run = n
    BY <1>5, <2>1 DEF Dispatch, Sends, Message
  <2>4. \A r \in RunIds : ~ Sends(a, r)'
    BY <1>5, RequestHands DEF Request, Dispatch, OpenRun
  <2>5. /\ \A m \in queue : m.run # n
        /\ \A w \in Workers : ~ Works(w, n)
        /\ \A b \in Actors : b # a => ~ Sends(b, n)
    BY <2>2 DEF HandedOnce
  <2> QED
    BY <1>1, <1>3, <2>2, <2>4, <2>5 DEF HandedOnce
<1>6. CASE TryLock(a) \/ CheckRunning(a) \/ HistoryFull(a) \/ ActorCrash(a)
  <2>1. ~ OpenRun(a)
    BY <1>6, BoundsAssumption DEF TryLock, CheckRunning, HistoryFull, ActorCrash, OpenRun, runVars, TypeOK, TableTyped
  <2>2. \A b \in Actors, r \in RunIds : Sends(b, r)' => Sends(b, r)
    BY <2>1, RequestHands
  <2>3. queue' = queue
    BY <1>6 DEF TryLock, CheckRunning, HistoryFull, ActorCrash
  <2> QED
    BY <1>1, <2>2, <2>3, HandsLetGo
<1> QED
  BY <1>4, <1>5, <1>6 DEF Request

LEMMA WorkHandedOnce ==
  ASSUME TypeOK, HandedOnce, NEW w \in Workers,
         Attempt(w) \/ Limit(w) \/ StrayDies(w) \/ WorkerCrash(w)
  PROVE  HandedOnce'
<1>0. wk \in [Workers -> WorkerState] /\ wk[w] \in WorkerState /\ IdleWorker.at = "idle"
  BY DEF TypeOK, WorkersTyped, IdleWorker
<1>1. actor' = actor
  BY AttemptCloses DEF Limit, SoftLimit, Kill, StrayDies, WorkerCrash
<1>2. \A v \in Workers : v # w => wk'[v] = wk[v]
  BY <1>0 DEF Attempt, Extract, ExtractionFails, ExtractionBreaks, ReportSuccessRead,
     ReportSuccessCommit, ReportFailureFlush, ReportFailureCommit, Limit, SoftLimit, Kill,
     StrayDies, WorkerCrash
<1>3. \A a \in Actors, r \in RunIds : Sends(a, r)' <=> Sends(a, r)
  BY <1>1 DEF Sends
<1>4. \A v \in Workers, r \in RunIds : v # w => (Works(v, r)' <=> Works(v, r))
  BY <1>2 DEF Works
\* The run comes back to the broker from whom it was with.
<1>5. CASE /\ wk[w].at # "idle" /\ wk' = [wk EXCEPT ![w] = IdleWorker]
           /\ \E n \in Nat : queue' = queue \cup {Message(wk[w].run, n)}
  <2>1. PICK r0 \in RunIds : r0 = wk[w].run
    BY <1>5 DEF TypeOK, WorkersTyped
  <2>2. PICK n \in Nat : queue' = queue \cup {Message(wk[w].run, n)}
    BY <1>5
  <2>20. Message(wk[w].run, n).run = r0
    BY <2>1 DEF Message
  <2>3. Works(w, r0) /\ \A r \in RunIds : ~ Works(w, r)'
    BY <1>0, <1>5, <2>1 DEF Works
  <2>4. /\ \A m \in queue : m.run # r0
        /\ \A v \in Workers : v # w => ~ Works(v, r0)
        /\ \A a \in Actors : ~ Sends(a, r0)
    BY <2>3 DEF HandedOnce
  <2> QED
    BY <1>3, <1>4, <2>2, <2>20, <2>3, <2>4 DEF HandedOnce
<1>6. CASE queue' = queue /\ (wk'[w].at # "idle" => wk[w].at # "idle" /\ wk'[w].run = wk[w].run)
  <2>1. \A r \in RunIds : Works(w, r)' => Works(w, r)
    BY <1>6 DEF Works
  <2> QED
    BY <1>3, <1>4, <1>6, <2>1, HandsLetGo
<1>7. CASE ExtractionFails(w)
  <2>1. wk[w].attempt + 1 \in Nat
    BY <1>0 DEF WorkerState
  <2>2. wk' = [wk EXCEPT ![w].at = "failing"] => wk'[w].run = wk[w].run
    BY <1>0 DEF WorkerState
  <2> QED
    BY <1>0, <1>5, <1>6, <1>7, <2>1, <2>2 DEF ExtractionFails
<1>8. CASE WorkerCrash(w)
  <2>1. wk[w].attempt \in Nat
    BY <1>0 DEF WorkerState
  <2> QED
    BY <1>5, <1>8, <2>1 DEF WorkerCrash, SlotsTaken
<1>9. CASE Limit(w) \/ StrayDies(w) \/ (Attempt(w) /\ ~ ExtractionFails(w))
  <2>1. queue' = queue
    BY <1>9 DEF Attempt, Extract, ExtractionBreaks, ReportSuccessRead,
       ReportSuccessCommit, ReportFailureFlush, ReportFailureCommit, Limit, SoftLimit, Kill,
       StrayDies
  <2>2. CASE wk' = [wk EXCEPT ![w] = IdleWorker]
    BY <1>0, <1>6, <2>1, <2>2
  <2>3. CASE Extract(w) \/ SoftLimit(w)
    <3>1. wk'[w].run = wk[w].run /\ wk[w].at # "idle"
      BY <1>0, <2>3 DEF Extract, SoftLimit, SlotsTaken, WorkerState
    <3> QED
      BY <1>6, <2>1, <3>1
  <2>4. CASE ReportSuccessRead(w) \/ ReportFailureFlush(w)
    <3>1. wk'[w].run = wk[w].run /\ wk[w].at # "idle"
      BY <1>0, <2>4 DEF ReportSuccessRead, ReportFailureFlush, WorkerState
    <3> QED
      BY <1>6, <2>1, <3>1
  <2>5. CASE ExtractionBreaks(w)
    <3>1. wk[w].at # "idle" /\ (wk' = [wk EXCEPT ![w] = IdleWorker] \/ wk' = [wk EXCEPT ![w].at = "failing"])
      BY <2>5 DEF ExtractionBreaks
    <3>2. wk' = [wk EXCEPT ![w].at = "failing"] => wk'[w].run = wk[w].run
      BY <1>0 DEF WorkerState
    <3> QED
      BY <1>6, <2>1, <2>2, <3>1, <3>2
  <2> QED
    BY <1>9, <2>2, <2>3, <2>4, <2>5 DEF Attempt, ReportSuccessCommit, ReportFailureCommit, Limit,
       Kill, StrayDies
<1> QED
  BY <1>7, <1>8, <1>9

LEMMA StartHandedOnce ==
  ASSUME TypeOK, HandedOnce, NEW w \in Workers, NEW m \in queue, Start(w, m)
  PROVE  HandedOnce'
<1>0. wk \in [Workers -> WorkerState]
  BY DEF TypeOK, WorkersTyped
<1>1. actor' = actor /\ queue' = queue \ {m} /\ wk[w].at = "idle" /\ \A v \in Workers : v # w => wk'[v] = wk[v]
  BY <1>0 DEF Start
<1>2. wk'[w].run = m.run /\ m.run \in RunIds
  BY <1>0, IdleTypes DEF Start, TypeOK, WorkerState
<1>3. PICK r0 \in RunIds : r0 = m.run
  BY <1>2
<1>4. /\ \A r \in RunIds : Works(w, r)' => r = r0
      /\ \A v \in Workers, r \in RunIds : v # w => (Works(v, r)' <=> Works(v, r))
      /\ \A a \in Actors, r \in RunIds : Sends(a, r)' <=> Sends(a, r)
  BY <1>1, <1>2, <1>3 DEF Works, Sends
<1>5. /\ \A n \in queue' : n.run # r0
      /\ \A v \in Workers : ~ Works(v, r0)
      /\ \A a \in Actors : ~ Sends(a, r0)
  BY <1>1, <1>3 DEF HandedOnce
<1> QED
  BY <1>1, <1>4, <1>5 DEF HandedOnce

LEMMA HandedOnceStep == TypeOK /\ InTable /\ HandedOnce /\ [Next]_vars => HandedOnce'
<1> SUFFICES ASSUME TypeOK, InTable, HandedOnce, [Next]_vars PROVE HandedOnce'
  OBVIOUS
<1>1. ASSUME NEW t \in Tickers, Heartbeat(t) PROVE HandedOnce'
  BY <1>1, HeartbeatHandedOnce
<1>2. ASSUME NEW c \in Callers, NEW j \in Jobs, RequestManually(c, j) PROVE HandedOnce'
  <2>1. c \in Actors /\ actor \in [Actors -> ActorState] /\ IdleActor \in ActorState
    BY IdleTypes DEF Actors, TypeOK, ActorsTyped
  <2>2. actor'[c].at = "lock" /\ \A b \in Actors : b # c => actor'[b] = actor[b]
    BY <1>2, <2>1 DEF RequestManually, ActorState
  <2>3. /\ \A a \in Actors, r \in RunIds : Sends(a, r)' => Sends(a, r)
        /\ \A w \in Workers, r \in RunIds : Works(w, r)' => Works(w, r)
    BY <1>2, <2>2 DEF RequestManually, Sends, Works
  <2> QED
    BY <1>2, <2>3, HandsLetGo DEF RequestManually
<1>3. ASSUME NEW a \in Actors, Request(a) \/ ActorCrash(a) PROVE HandedOnce'
  BY <1>3, RequestHandedOnce
<1>4. ASSUME NEW w \in Workers, Attempt(w) \/ Limit(w) \/ StrayDies(w) \/ WorkerCrash(w)
      PROVE  HandedOnce'
  BY <1>4, WorkHandedOnce
<1>5. ASSUME NEW m \in queue, NEW w \in Workers, Start(w, m) PROVE HandedOnce'
  BY <1>5, StartHandedOnce
<1>6. CASE TimePasses \/ (\E m \in queue : LoseMessage(m)) \/ UNCHANGED vars
  <2>1. queue' \subseteq queue /\ actor' = actor
    BY <1>6 DEF TimePasses, LoseMessage, vars
  <2>2. \A v \in Workers : wk'[v].run = wk[v].run /\ wk'[v].at = wk[v].at
    <3> TAKE v \in Workers
    <3>1. wk[v] \in WorkerState
      BY DEF TypeOK, WorkersTyped
    <3>2. wk'[v] = wk[v] \/ wk'[v] = [wk[v] EXCEPT !.elapsed = wk[v].elapsed + 1]
      BY <1>6 DEF TimePasses, LoseMessage, vars
    <3> QED
      BY <3>1, <3>2 DEF WorkerState
  <2>3. /\ \A a \in Actors, r \in RunIds : Sends(a, r)' => Sends(a, r)
        /\ \A w \in Workers, r \in RunIds : Works(w, r)' => Works(w, r)
    BY <2>1, <2>2 DEF Sends, Works
  <2> QED
    BY <2>1, <2>3, HandsLetGo
<1> QED
  BY <1>1, <1>2, <1>3, <1>4, <1>5, <1>6 DEF Next

LEMMA AtMostOne ==
  ASSUME NEW S, \A x, y \in S : x = y
  PROVE  Cardinality(S) \in {0, 1} /\ (S = {} => Cardinality(S) = 0)
<1>1. CASE S = {}
  BY <1>1, FS_EmptySet
<1>2. CASE S # {}
  <2>1. PICK x : x \in S
    BY <1>2
  <2>2. S = {x}
    BY <2>1
  <2> QED
    BY <1>2, <2>2, FS_Singleton
<1> QED
  BY <1>1, <1>2

\* No run is ever in two hands: a retry, a redelivery after a crash and the end
\* of an attempt never leave two attempts of one run.
THEOREM OneAttemptOfEachRun == Spec => []SingleAttempt
<1>1. Init => HandedOnce
  BY DEF Init, HandedOnce, Works, Sends, IdleActor, IdleWorker
<1>2. IInv /\ HandedOnce /\ [Next]_vars => HandedOnce'
  BY HandedOnceStep DEF IInv
<1>3. HandedOnce => SingleAttempt
  <2> SUFFICES ASSUME HandedOnce, NEW r \in RunIds PROVE LiveWork(r) <= 1
    BY DEF SingleAttempt
  <2> DEFINE waiting == {m \in queue : m.run = r}
             working == {w \in Workers : wk[w].at # "idle" /\ wk[w].run = r}
  <2>1. \A x, y \in waiting : x = y
    BY DEF HandedOnce
  <2>2. \A x, y \in working : x = y
    BY DEF HandedOnce, Works
  <2>3. waiting = {} \/ working = {}
    BY DEF HandedOnce, Works
  <2>4. LiveWork(r) = Cardinality(waiting) + Cardinality(working)
    BY DEF LiveWork
  <2> HIDE DEF waiting, working
  <2> QED
    BY <2>1, <2>2, <2>3, <2>4, AtMostOne
<1> QED
  BY <1>1, <1>2, <1>3, IInvHolds, PTL DEF Spec

-----------------------------------------------------------------------------
(* What the owner is told, while every run closes itself.                  *)

Failures == ConsecutiveFailures(status, PriceList)

\* An open run is the newest of its source.
OpenIsNewest == \A j \in Jobs : \A r \in Running(j), q \in RunsOf(j) : q <= r

\* Somebody has the run in hand: its session, its message or its worker.
Handed(r) ==
    \/ \E m \in queue : m.run = r
    \/ \E w \in Workers : Works(w, r)
    \/ \E a \in Actors : Sends(a, r)

\* What a worker that is about to commit has decided to announce.
Decided(w) ==
    /\ wk[w].at = "closing" =>
          /\ wk[w].seen = "RUNNING"
          /\ wk[w].alert <=> task[wk[w].run] = PriceList /\ Failures >= StallThreshold
    /\ wk[w].at = "flushed" =>
          (wk[w].alert <=> task[wk[w].run] = PriceList /\ Failures + 1 = StallThreshold)

ToldInv ==
    /\ OpenIsNewest
    /\ reaped = {} =>
          /\ \A r \in RunIds : Handed(r) => status[r] = "RUNNING"
          /\ \A w \in Workers : Decided(w)
          /\ LastWord = "stalled" <=> Failures >= StallThreshold
          /\ Alternates

\* Everything the proof of a step knows beforehand.
Before == IInv /\ HandedOnce /\ ToldInv

LEMMA CountIsNat ==
  ASSUME NEW S \in SUBSET RunIds
  PROVE  IsFiniteSet(S) /\ Cardinality(S) \in Nat
<1>1. IsFiniteSet(RunIds)
  BY BoundsAssumption, FS_Interval DEF RunIds
<1> QED
  BY <1>1, FS_Subset, FS_CardinalityType

LEMMA FailuresAreCounted ==
  ASSUME NEW st, NEW j
  PROVE  ConsecutiveFailures(st, j) \in Nat
<1>1. {r \in RunsOf(j) : st[r] = "FAILED" /\ \A q \in RunsOf(j) : q > r => st[q] # "SUCCEEDED"}
          \in SUBSET RunIds
  BY DEF RunsOf
<1> QED
  BY <1>1, CountIsNat DEF ConsecutiveFailures

\* The end of the newest run of a source, which was open: a success ends the count, a
\* failure is one more.
LEMMA TheNewestCloses ==
  ASSUME TypeOK, NEW j, NEW r \in Running(j), \A q \in RunsOf(j) : q <= r
  PROVE  /\ ConsecutiveFailures([status EXCEPT ![r] = "SUCCEEDED"], j) = 0
         /\ ConsecutiveFailures([status EXCEPT ![r] = "FAILED"], j)
              = ConsecutiveFailures(status, j) + 1
<1> DEFINE Counted(st) ==
             {s \in RunsOf(j) : st[s] = "FAILED" /\ \A q \in RunsOf(j) : q > s => st[q] # "SUCCEEDED"}
           good == [status EXCEPT ![r] = "SUCCEEDED"]
           bad == [status EXCEPT ![r] = "FAILED"]
<1>1. r \in RunIds /\ r \in RunsOf(j) /\ status[r] = "RUNNING" /\ RunsOf(j) \subseteq RunIds
  BY DEF Running, RunsOf
<1>2. RunIds \subseteq Int
  BY DEF RunIds
<1>3. \A s \in RunIds : /\ good[s] = IF s = r THEN "SUCCEEDED" ELSE status[s]
                        /\ bad[s] = IF s = r THEN "FAILED" ELSE status[s]
  BY DEF TypeOK, TableTyped
<1> HIDE DEF good, bad
<1>4. Counted(good) = {}
  <2> SUFFICES ASSUME NEW s \in RunsOf(j), good[s] = "FAILED",
                      \A q \in RunsOf(j) : q > s => good[q] # "SUCCEEDED"
               PROVE  FALSE
    OBVIOUS
  <2>1. s # r /\ s <= r
    BY <1>1, <1>3
  <2>2. r > s
    BY <1>1, <1>2, <2>1
  <2> QED
    BY <1>1, <1>3, <2>2
<1>5. Counted(bad) = Counted(status) \cup {r} /\ r \notin Counted(status)
  <2>1. \A q \in RunsOf(j) : ~(q > r)
    BY <1>1, <1>2
  <2>2. \A q \in RunsOf(j) : bad[q] # "SUCCEEDED" <=> status[q] # "SUCCEEDED"
    BY <1>1, <1>3
  <2>3. \A s \in RunsOf(j) : s # r => bad[s] = status[s]
    BY <1>1, <1>3
  <2>4. bad[r] = "FAILED"
    BY <1>1, <1>3
  <2> QED
    BY <1>1, <2>1, <2>2, <2>3, <2>4
<1>6. Counted(status) \in SUBSET RunIds
  BY <1>1
<1>7. ConsecutiveFailures(good, j) = Cardinality(Counted(good))
      /\ ConsecutiveFailures(bad, j) = Cardinality(Counted(bad))
      /\ ConsecutiveFailures(status, j) = Cardinality(Counted(status))
  BY DEF ConsecutiveFailures
<1> HIDE DEF Counted
<1>8. IsFiniteSet(Counted(status)) /\ Cardinality(Counted(status)) \in Nat
  BY <1>6, CountIsNat
<1>9. Cardinality(Counted(status) \cup {r}) = Cardinality(Counted(status)) + 1
  BY <1>5, <1>8, FS_AddElement
<1> QED
  BY <1>4, <1>5, <1>7, <1>9, FS_EmptySet DEF good, bad


\* What a step that leaves the table alone may do.
LEMMA TableStays ==
  ASSUME IInv, ToldInv, UNCHANGED <<status, task, reaped, alerts>>,
         \A r \in RunIds : Handed(r)' => Handed(r),
         reaped = {} => \A w \in Workers : Decided(w)'
  PROVE  ToldInv'
<1>1. Failures' = Failures
  BY DEF Failures, ConsecutiveFailures, RunsOf
<1>2. OpenIsNewest'
  BY DEF ToldInv, OpenIsNewest, Running, RunsOf
<1> QED
  BY <1>1, <1>2 DEF ToldInv, LastWord, Alternates

\* A worker that goes on as it was keeps what it decided.
LEMMA SameDecision ==
  ASSUME NEW w \in Workers, Decided(w), Failures' = Failures, task' = task,
         \/ wk'[w].at \notin {"closing", "flushed"}
         \/ /\ wk'[w].at = wk[w].at /\ wk'[w].run = wk[w].run /\ wk'[w].seen = wk[w].seen
            /\ wk'[w].alert = wk[w].alert
  PROVE  Decided(w)'
  BY DEF Decided

\* Nobody decides and nothing is handed over in a step of the others.
LEMMA WorkersStay ==
  ASSUME IInv, ToldInv, UNCHANGED <<status, task, reaped, alerts, wk>>,
         \A r \in RunIds : Handed(r)' => Handed(r)
  PROVE  ToldInv'
<1>1. Failures' = Failures
  BY DEF Failures, ConsecutiveFailures, RunsOf
<1>2. ASSUME reaped = {} PROVE \A w \in Workers : Decided(w)'
  BY <1>1, <1>2, SameDecision DEF ToldInv
<1> QED
  BY <1>2, TableStays

LEMMA HeartbeatTold ==
  ASSUME IInv, ToldInv, NEW t \in Tickers, Heartbeat(t)
  PROVE  ToldInv'
<1>1. CASE ReapCommit(t)
  \* From here on a run has been closed by the sweep.
  <2>1. t \in Actors /\ actor[t].run \in RunIds
    BY <1>1 DEF ReapCommit, IInv, TypeOK, ActorsTyped, Actors
  <2>2. reaped' # {} /\ task' = task /\ status' = [status EXCEPT ![actor[t].run] = "FAILED"]
    BY <1>1 DEF ReapCommit
  <2>3. \A r \in RunIds : /\ status'[r] # "absent" => status[r] # "absent"
                          /\ status'[r] = "RUNNING" => status[r] = "RUNNING"
    <3>1. actor[t].run <= last /\ last \in 0 .. MaxRuns /\ MaxRuns \in Nat
      BY <2>1, BoundsAssumption DEF IInv, InTable, TypeOK, TableTyped
    <3>2. status[actor[t].run] # "absent"
      BY <2>1, <3>1 DEF IInv, InTable, RunIds
    <3> QED
      BY <2>2, <3>2 DEF IInv, TypeOK, TableTyped
  <2>4. OpenIsNewest'
    BY <2>2, <2>3 DEF ToldInv, OpenIsNewest, Running, RunsOf
  <2> QED
    BY <2>2, <2>4 DEF ToldInv
<1>2. CASE ~ ReapCommit(t)
  <2>1. UNCHANGED <<status, task, reaped, alerts, wk>>
    BY <1>2 DEF Heartbeat, TickStart, ReapNothing, ReapRead, ReapFlush, TickDue, runVars
  <2>2. \A r \in RunIds : Handed(r)' => Handed(r)
    BY HeartbeatHands DEF IInv, Handed, Works
  <2> QED
    BY <2>1, <2>2, WorkersStay
<1> QED
  BY <1>1, <1>2

LEMMA RequestTold ==
  ASSUME IInv, ToldInv, NEW a \in Actors, Request(a) \/ ActorCrash(a), ~ OpenRun(a)
  PROVE  ToldInv'
<1>1. UNCHANGED <<status, task, reaped, alerts, wk>>
  BY DEF Request, ActorCrash, TryLock, CheckRunning, Dispatch, HistoryFull, runVars
<1>2. \A r \in RunIds : Handed(r)' => Handed(r)
  <2>1. \A b \in Actors, r \in RunIds : Sends(b, r)' => Sends(b, r)
    BY RequestHands DEF IInv
  <2>2. \A w \in Workers, r \in RunIds : Works(w, r)' => Works(w, r)
    BY <1>1 DEF Works
  <2>3. CASE Dispatch(a)
    <3>1. queue' = queue \cup {Message(actor[a].run, 0)} /\ actor[a].at = "dispatch"
      BY <2>3 DEF Dispatch
    <3>2. \A m \in queue' : m \in queue \/ Sends(a, m.run)
      BY <3>1 DEF Message, Sends
    <3> QED
      BY <2>1, <2>2, <3>2 DEF Handed
  <2>4. CASE ~ Dispatch(a)
    <3>1. queue' = queue
      BY <2>4 DEF Request, ActorCrash, TryLock, CheckRunning, HistoryFull
    <3> QED
      BY <2>1, <2>2, <3>1 DEF Handed
  <2> QED
    BY <2>3, <2>4
<1> QED
  BY <1>1, <1>2, WorkersStay

\* A run is opened when none of its source is open: it is the newest, and it neither
\* adds a failure nor ends the count.
LEMMA OpenRunTold ==
  ASSUME IInv, ToldInv, NEW a \in Actors, OpenRun(a)
  PROVE  ToldInv'
<1>0. /\ status \in [RunIds -> Statuses] /\ task \in [RunIds -> Jobs \cup {NoOne}]
      /\ last \in 0 .. MaxRuns /\ MaxRuns \in Nat /\ actor[a].job \in Jobs /\ RunIds \subseteq Int
      /\ actor \in [Actors -> ActorState] /\ actor[a] \in ActorState
  BY BoundsAssumption DEF IInv, TypeOK, TableTyped, ActorsTyped, OpenRun, RunIds
<1>1. PICK mine \in Jobs : mine = actor[a].job
  BY <1>0
<1>2. PICK n \in RunIds : n = last + 1
  BY <1>0 DEF OpenRun, RunIds
<1>3. /\ status' = [status EXCEPT ![n] = "RUNNING"]
      /\ task' = [task EXCEPT ![n] = mine]
      /\ UNCHANGED <<reaped, alerts, queue, wk>>
  BY <1>1, <1>2 DEF OpenRun
<1>4. Running(mine) = {} /\ status[n] = "absent"
  <2>1. Running(mine) = {}
    BY <1>1 DEF IInv, Serialized, CheckStillHolds, OpenRun
  <2>2. n > last
    BY <1>0, <1>2
  <2> QED
    BY <2>1, <2>2 DEF IInv, InTable
<1>5. \A r \in RunIds : status[r] # "absent" => r < n
  BY <1>0, <1>2 DEF IInv, InTable
<1>6. /\ status'[n] = "RUNNING" /\ task'[n] = mine
      /\ \A r \in RunIds : r # n => status'[r] = status[r] /\ task'[r] = task[r]
  BY <1>0, <1>3
<1>7. \A j : RunsOf(j)' = RunsOf(j) \cup (IF j = mine THEN {n} ELSE {})
  BY <1>4, <1>6 DEF RunsOf
<1>8. OpenIsNewest'
  <2>1. \A j \in Jobs : Running(j)' = Running(j) \cup (IF j = mine THEN {n} ELSE {})
    BY <1>4, <1>6, <1>7 DEF Running, RunsOf
  <2>2. ASSUME NEW j \in Jobs, NEW r \in Running(j)', NEW q \in RunsOf(j)' PROVE q <= r
    <3>1. CASE j = mine
      <4>1. r = n
        BY <1>4, <2>1, <2>2, <3>1
      <4>2. q \in RunIds /\ (q = n \/ status[q] # "absent")
        BY <1>7, <2>2, <3>1 DEF RunsOf
      <4> QED
        BY <1>0, <1>5, <4>1, <4>2
    <3>2. CASE j # mine
      BY <1>7, <2>1, <2>2, <3>2 DEF ToldInv, OpenIsNewest
    <3> QED
      BY <3>1, <3>2
  <2> QED
    BY <2>2 DEF OpenIsNewest
<1>9. Failures' = Failures
  <2> DEFINE Unbroken(S, st) ==
               {r \in S : st[r] = "FAILED" /\ \A q \in S : q > r => st[q] # "SUCCEEDED"}
  <2>1. Unbroken(RunsOf(PriceList)', status') = Unbroken(RunsOf(PriceList), status)
    <3>1. \A r \in RunsOf(PriceList) : r \in RunIds /\ r # n
      BY <1>4 DEF RunsOf
    <3> QED
      BY <1>6, <1>7, <3>1
  <2> QED
    BY <2>1 DEF Failures, ConsecutiveFailures
<1>10. ASSUME reaped = {}, NEW r \in RunIds, Handed(r)' PROVE status'[r] = "RUNNING"
  <2>1. \A b \in Actors : b # a => actor'[b] = actor[b]
    BY <1>0 DEF OpenRun
  <2>2. actor'[a].run = n
    BY <1>0, <1>2 DEF OpenRun, ActorState
  <2>3. r = n \/ Handed(r)
    BY <1>3, <1>10, <2>1, <2>2 DEF Handed, Works, Sends
  <2> QED
    BY <1>6, <1>10, <2>3 DEF ToldInv
<1>11. ASSUME reaped = {}, NEW w \in Workers PROVE Decided(w)'
  <2>1. CASE wk[w].at = "idle"
    BY <1>3, <2>1 DEF Decided
  <2>2. CASE wk[w].at # "idle"
    <3>1. wk[w].run \in RunIds /\ wk[w].run <= last
      BY <2>2 DEF IInv, TypeOK, WorkersTyped, InTable
    <3>2. wk[w].run # n
      BY <1>0, <1>2, <3>1
    <3>3. task'[wk[w].run] = task[wk[w].run]
      BY <1>6, <3>1, <3>2
    <3> QED
      BY <1>3, <1>9, <1>11, <3>3 DEF Decided, ToldInv
  <2> QED
    BY <2>1, <2>2
<1> QED
  BY <1>3, <1>8, <1>9, <1>10, <1>11 DEF ToldInv, LastWord, Alternates

\* An attempt that is over lets go of its run, and no other attempt is about it.
LEMMA AttemptLetsGo ==
  ASSUME IInv, HandedOnce, NEW w \in Workers, wk[w].at # "idle",
         wk' = [wk EXCEPT ![w] = IdleWorker], UNCHANGED <<queue, actor>>
  PROVE  /\ \A r \in RunIds : Handed(r)' => Handed(r) /\ r # wk[w].run
         /\ \A v \in Workers : v # w /\ wk[v].at # "idle" => wk[v].run # wk[w].run
<1>0. /\ wk \in [Workers -> WorkerState] /\ IdleWorker.at = "idle" /\ wk[w].run \in RunIds
  BY DEF IInv, TypeOK, WorkersTyped, IdleWorker
<1>1. PICK r0 \in RunIds : r0 = wk[w].run
  BY <1>0
<1>2. Works(w, r0)
  BY <1>1 DEF Works
<1>3. /\ \A m \in queue : m.run # r0
      /\ \A v \in Workers : v # w => ~ Works(v, r0)
      /\ \A b \in Actors : ~ Sends(b, r0)
  BY <1>2 DEF HandedOnce
<1>4. wk'[w].at = "idle" /\ \A v \in Workers : v # w => wk'[v] = wk[v]
  BY <1>0
<1>5. ASSUME NEW r \in RunIds, Handed(r)' PROVE Handed(r) /\ r # r0
  BY <1>3, <1>4, <1>5 DEF Handed, Works, Sends
<1> QED
  BY <1>1, <1>3, <1>5 DEF Works

\* A word that is not the last one may follow it.
LEMMA OneMoreWord ==
  ASSUME alerts \in Seq({"stalled", "recovered"}), NEW word \in {"stalled", "recovered"},
         alerts' = Append(alerts, word), LastWord # word, Alternates
  PROVE  LastWord' = word /\ Alternates'
<1>1. /\ Len(alerts) \in Nat /\ Len(alerts') = Len(alerts) + 1
      /\ alerts'[Len(alerts) + 1] = word
      /\ \A i \in 1 .. Len(alerts) : alerts'[i] = alerts[i]
      /\ alerts' # <<>> /\ (Len(alerts) > 0 => alerts # <<>>)
  OBVIOUS
<1>2. LastWord' = word
  BY <1>1 DEF LastWord
<1>3. ASSUME NEW i \in 1 .. Len(alerts') - 1 PROVE alerts'[i] # alerts'[i + 1]
  <2>1. CASE i = Len(alerts)
    BY <1>1, <1>3, <2>1 DEF LastWord
  <2>2. CASE i # Len(alerts)
    <3>1. i \in 1 .. Len(alerts) - 1 /\ i \in 1 .. Len(alerts) /\ i + 1 \in 1 .. Len(alerts)
      BY <1>1, <1>3, <2>2
    <3> QED
      BY <1>1, <3>1 DEF Alternates
  <2> QED
    BY <2>1, <2>2
<1> QED
  BY <1>2, <1>3 DEF Alternates

\* How the end of an attempt is announced.
LEMMA EndTold ==
  ASSUME IInv, HandedOnce, ToldInv, NEW w \in Workers, NEW s \in {"SUCCEEDED", "FAILED"},
         wk[w].at # "idle", UNCHANGED <<task, reaped, queue, actor>>,
         wk' = [wk EXCEPT ![w] = IdleWorker],
         status' \in {status, [status EXCEPT ![wk[w].run] = s]},
         reaped = {} => status' = [status EXCEPT ![wk[w].run] = s],
         alerts' = IF wk[w].alert
                   THEN Append(alerts, IF s = "FAILED" THEN "stalled" ELSE "recovered")
                   ELSE alerts,
         reaped = {} =>
             (wk[w].alert <=> /\ task[wk[w].run] = PriceList
                              /\ IF s = "FAILED" THEN Failures + 1 = StallThreshold
                                                 ELSE Failures >= StallThreshold)
  PROVE  ToldInv'
<1>00. Failures \in Nat
  BY FailuresAreCounted DEF Failures
<1>0. /\ wk \in [Workers -> WorkerState] /\ IdleWorker.at = "idle" /\ wk[w].run \in RunIds
      /\ wk[w].run <= last /\ status \in [RunIds -> Statuses] /\ RunIds \subseteq Int
      /\ last \in 0 .. MaxRuns /\ MaxRuns \in Nat
      /\ alerts \in Seq({"stalled", "recovered"}) /\ wk[w].alert \in BOOLEAN
      /\ Failures \in Nat
  <2>1. TypeOK /\ InTable
    BY DEF IInv
  <2>2. wk \in [Workers -> WorkerState] /\ IdleWorker.at = "idle"
    BY <2>1 DEF TypeOK, WorkersTyped, IdleWorker
  <2>3. wk[w].alert \in BOOLEAN
    BY <2>2 DEF WorkerState
  <2>4. wk[w].run \in RunIds /\ wk[w].run <= last
    BY <2>1 DEF TypeOK, WorkersTyped, InTable
  <2>5. /\ status \in [RunIds -> Statuses] /\ RunIds \subseteq Int
        /\ last \in 0 .. MaxRuns /\ MaxRuns \in Nat
        /\ alerts \in Seq({"stalled", "recovered"})
    BY <2>1, BoundsAssumption DEF TypeOK, TableTyped, RunIds
  <2> QED
    BY <1>00, <2>2, <2>3, <2>4, <2>5
<1>1. PICK r0 \in RunIds : r0 = wk[w].run
  BY <1>0
<1>2. status[r0] # "absent"
  BY <1>0, <1>1 DEF IInv, InTable, RunIds
<1>3. /\ \A r \in RunIds : Handed(r)' => Handed(r) /\ r # r0
      /\ \A v \in Workers : v # w /\ wk[v].at # "idle" => wk[v].run # r0
  BY <1>1, AttemptLetsGo
<1>4. /\ \A r \in RunIds : r # r0 => status'[r] = status[r]
      /\ status'[r0] # "absent" /\ (status'[r0] = "RUNNING" => status[r0] = "RUNNING")
  BY <1>0, <1>1, <1>2
<1>5. \A j : RunsOf(j)' = RunsOf(j)
  BY <1>2, <1>4 DEF RunsOf
<1>6. OpenIsNewest'
  BY <1>4, <1>5 DEF ToldInv, OpenIsNewest, Running, RunsOf
<1>7. SUFFICES ASSUME reaped = {}
               PROVE  /\ \A r \in RunIds : Handed(r)' => status'[r] = "RUNNING"
                      /\ \A v \in Workers : Decided(v)'
                      /\ (LastWord = "stalled" <=> Failures >= StallThreshold)'
                      /\ Alternates'
  BY <1>6 DEF ToldInv
<1>8. \A r \in RunIds : Handed(r)' => status'[r] = "RUNNING"
  BY <1>3, <1>4, <1>7 DEF ToldInv
<1>9. status[r0] = "RUNNING"
  <2>1. Handed(r0)
    BY <1>1 DEF Handed, Works
  <2> QED
    BY <1>7, <2>1 DEF ToldInv
<1>10. status' = [status EXCEPT ![r0] = s]
  BY <1>1, <1>7
<1>11. wk'[w].at = "idle" /\ \A v \in Workers : v # w => wk'[v] = wk[v]
  BY <1>0
<1>12. CASE task[r0] # PriceList
  <2>1. Failures' = Failures
    <3> DEFINE Unbroken(S, st) ==
                 {r \in S : st[r] = "FAILED" /\ \A q \in S : q > r => st[q] # "SUCCEEDED"}
               mine == RunsOf(PriceList)
    <3>1. \A r \in mine : status'[r] = status[r]
      BY <1>4, <1>12 DEF RunsOf
    <3>2. mine' = mine
      BY <1>5
    <3>3. Failures = Cardinality(Unbroken(mine, status)) /\ Failures' = Cardinality(Unbroken(mine', status'))
      BY DEF Failures, ConsecutiveFailures
    <3>4. Unbroken(mine, status') = Unbroken(mine, status)
      <4> HIDE DEF mine
      <4> QED
        BY <3>1
    <3> HIDE DEF mine, Unbroken
    <3> QED
      BY <3>2, <3>3, <3>4
  <2>2. alerts' = alerts
    BY <1>1, <1>7, <1>12
  <2>3. ASSUME NEW v \in Workers PROVE Decided(v)'
    BY <1>7, <1>11, <2>1, SameDecision DEF ToldInv
  <2> QED
    BY <1>7, <1>8, <2>1, <2>2, <2>3 DEF ToldInv, LastWord, Alternates
<1>13. CASE task[r0] = PriceList
  <2>1. r0 \in Running(PriceList) /\ PriceList \in Jobs
    BY <1>2, <1>9, <1>13, JobsAssumption DEF Running, RunsOf, IInv, TypeOK, TableTyped
  <2>2. \A q \in RunsOf(PriceList) : q <= r0
    BY <2>1 DEF ToldInv, OpenIsNewest
  <2>3. Failures' = IF s = "FAILED" THEN Failures + 1 ELSE 0
    <3>1. Failures' = ConsecutiveFailures([status EXCEPT ![r0] = s], PriceList)
      BY <1>5, <1>10 DEF Failures, ConsecutiveFailures
    <3>2. TypeOK
      BY DEF IInv
    <3>3. /\ ConsecutiveFailures([status EXCEPT ![r0] = "SUCCEEDED"], PriceList) = 0
          /\ ConsecutiveFailures([status EXCEPT ![r0] = "FAILED"], PriceList) = Failures + 1
      BY <2>1, <2>2, <3>2, TheNewestCloses DEF Failures
    <3> QED
      BY <3>1, <3>3
  <2>4. ASSUME NEW v \in Workers PROVE Decided(v)'
    \* Another attempt of the price list would be of another open run.
    <3>1. CASE v = w \/ wk[v].at = "idle"
      BY <1>11, <3>1 DEF Decided
    <3>2. CASE v # w /\ wk[v].at # "idle"
      <4>1. wk[v].run \in RunIds /\ wk[v].run # r0
        BY <1>3, <3>2 DEF IInv, TypeOK, WorkersTyped
      <4>2. PICK q \in RunIds : q = wk[v].run
        BY <4>1
      <4>3. Handed(q)
        BY <3>2, <4>2 DEF Handed, Works
      <4>4. status[q] = "RUNNING"
        BY <1>7, <4>3 DEF ToldInv
      <4>5. task[q] # PriceList
        <5>1. SUFFICES ASSUME task[q] = PriceList PROVE FALSE
          OBVIOUS
        <5>2. q \in Running(PriceList)
          BY <4>4, <5>1 DEF Running, RunsOf
        <5> QED
          BY <2>1, <4>1, <4>2, <5>2 DEF IInv, Serialized, OneOpenRun
      <4>6. wk'[v] = wk[v] /\ task'[wk[v].run] # PriceList
        BY <1>11, <3>2, <4>2, <4>5
      <4>7. Decided(v)
        BY <1>7 DEF ToldInv
      <4> QED
        BY <4>2, <4>5, <4>6, <4>7 DEF Decided
    <3> QED
      BY <3>1, <3>2
  <2>5. (LastWord = "stalled" <=> Failures >= StallThreshold) /\ Alternates
    BY <1>7 DEF ToldInv
  <2>6. wk[w].alert <=> IF s = "FAILED" THEN Failures + 1 = StallThreshold
                                        ELSE Failures >= StallThreshold
    BY <1>1, <1>7, <1>13
  <2>7. CASE ~ wk[w].alert
    <3>1. alerts' = alerts
      BY <2>7
    <3>2. Failures' >= StallThreshold <=> Failures >= StallThreshold
      BY <1>0, <2>3, <2>6, <2>7 DEF StallThreshold
    <3> QED
      BY <1>8, <2>4, <2>5, <3>1, <3>2 DEF LastWord, Alternates
  <2>8. CASE wk[w].alert
    <3>1. PICK word \in {"stalled", "recovered"} :
             word = IF s = "FAILED" THEN "stalled" ELSE "recovered"
      OBVIOUS
    <3>2. alerts' = Append(alerts, word) /\ LastWord # word
      BY <1>0, <2>5, <2>6, <2>8, <3>1 DEF StallThreshold
    <3>3. LastWord' = word /\ Alternates'
      BY <1>0, <2>5, <3>2, OneMoreWord
    <3>4. word = "stalled" <=> Failures' >= StallThreshold
      BY <1>0, <2>3, <2>6, <2>8, <3>1 DEF StallThreshold
    <3> QED
      BY <1>8, <2>4, <3>3, <3>4
  <2> QED
    BY <2>7, <2>8
<1> QED
  BY <1>12, <1>13

\* An attempt gives its run back to the broker, or keeps it, or lets go of it.
LEMMA WorkHands ==
  ASSUME TypeOK, NEW w \in Workers, Attempt(w) \/ Limit(w) \/ StrayDies(w) \/ WorkerCrash(w)
  PROVE  \A r \in RunIds : Handed(r)' => Handed(r)
<1>0. /\ wk \in [Workers -> WorkerState] /\ wk[w] \in WorkerState
      /\ IdleWorker.at = "idle"
  BY DEF TypeOK, WorkersTyped, IdleWorker
<1>1. actor' = actor
  BY AttemptCloses DEF Limit, SoftLimit, Kill, StrayDies, WorkerCrash
<1>2. \A v \in Workers : v # w => wk'[v] = wk[v]
  BY <1>0 DEF Attempt, Extract, ExtractionFails, ExtractionBreaks, ReportSuccessRead,
     ReportSuccessCommit, ReportFailureFlush, ReportFailureCommit, Limit, SoftLimit, Kill,
     StrayDies, WorkerCrash
<1>3. \A m \in queue' : m \in queue \/ Works(w, m.run)
  BY DEF Attempt, Extract, ExtractionFails, ExtractionBreaks, ReportSuccessRead, Works, Message,
     ReportSuccessCommit, ReportFailureFlush, ReportFailureCommit, Limit, SoftLimit, Kill,
     StrayDies, WorkerCrash, SlotsTaken
<1>4. wk'[w].at # "idle" => wk[w].at # "idle" /\ wk'[w].run = wk[w].run
  <2>1. CASE wk' = [wk EXCEPT ![w] = IdleWorker]
    BY <1>0, <2>1
  <2>2. CASE wk[w].at # "idle" /\ wk' = [wk EXCEPT ![w].at = "failing"]
    BY <1>0, <2>2 DEF WorkerState
  <2>3. CASE Extract(w)
    BY <1>0, <2>3 DEF Extract, WorkerState
  <2>4. CASE SoftLimit(w)
    BY <1>0, <2>4 DEF SoftLimit, SlotsTaken, WorkerState
  <2>5. CASE ReportSuccessRead(w)
    BY <1>0, <2>5 DEF ReportSuccessRead, WorkerState
  <2>6. CASE ReportFailureFlush(w)
    BY <1>0, <2>6 DEF ReportFailureFlush, WorkerState
  <2>7. ExtractionBreaks(w) \/ ExtractionFails(w)
            => /\ wk[w].at # "idle"
               /\ wk' \in {[wk EXCEPT ![w] = IdleWorker], [wk EXCEPT ![w].at = "failing"]}
    BY DEF ExtractionBreaks, ExtractionFails
  <2> QED
    BY <2>1, <2>2, <2>3, <2>4, <2>5, <2>6, <2>7 DEF Attempt, ReportSuccessCommit,
       ReportFailureCommit, Limit, Kill, StrayDies, WorkerCrash
<1>5. \A v \in Workers, r \in RunIds : Works(v, r)' => Works(v, r)
  BY <1>2, <1>4 DEF Works
<1>6. \A a \in Actors, r \in RunIds : Sends(a, r)' => Sends(a, r)
  BY <1>1 DEF Sends
<1> QED
  BY <1>3, <1>5, <1>6 DEF Handed

\* An attempt that does not report.
LEMMA AttemptTold ==
  ASSUME IInv, ToldInv, NEW w \in Workers,
         \/ Extract(w) \/ ExtractionFails(w) \/ ExtractionBreaks(w)
         \/ Limit(w) \/ StrayDies(w) \/ WorkerCrash(w)
  PROVE  ToldInv'
<1>0. wk \in [Workers -> WorkerState] /\ wk[w] \in WorkerState /\ IdleWorker.at = "idle"
  BY DEF IInv, TypeOK, WorkersTyped, IdleWorker
<1>1. UNCHANGED <<status, task, reaped, alerts>>
  BY DEF Extract, ExtractionFails, ExtractionBreaks, Limit, SoftLimit, Kill, StrayDies,
     WorkerCrash, runVars
<1>2. \A r \in RunIds : Handed(r)' => Handed(r)
  BY WorkHands DEF IInv, Attempt
<1>3. \A v \in Workers : v # w => wk'[v] = wk[v]
  BY <1>0 DEF Extract, ExtractionFails, ExtractionBreaks, Limit, SoftLimit, Kill,
     StrayDies, WorkerCrash
<1>4. \/ wk'[w].at \notin {"closing", "flushed"}
      \/ /\ wk'[w].at = wk[w].at /\ wk'[w].run = wk[w].run /\ wk'[w].seen = wk[w].seen
         /\ wk'[w].alert = wk[w].alert
  <2>1. CASE wk' = [wk EXCEPT ![w] = IdleWorker]
    BY <1>0, <2>1
  <2>2. CASE wk' = [wk EXCEPT ![w].at = "failing"] \/ wk' = [wk EXCEPT ![w].at = "landed"]
    BY <1>0, <2>2 DEF WorkerState
  <2>3. CASE SoftLimit(w)
    BY <1>0, <2>3 DEF SoftLimit, WorkerState
  <2> QED
    BY <2>1, <2>2, <2>3 DEF Extract, ExtractionFails, ExtractionBreaks, Limit, Kill, StrayDies,
       WorkerCrash
<1>5. Failures' = Failures
  BY <1>1 DEF Failures, ConsecutiveFailures, RunsOf
<1>6. ASSUME reaped = {}, NEW v \in Workers PROVE Decided(v)'
  BY <1>1, <1>3, <1>4, <1>5, <1>6, SameDecision DEF ToldInv
<1> QED
  BY <1>1, <1>2, <1>6, TableStays

\* The session that closes a run decides with what the table says of the others.
LEMMA ReadTold ==
  ASSUME IInv, ToldInv, NEW w \in Workers, ReportSuccessRead(w) \/ ReportFailureFlush(w)
  PROVE  ToldInv'
<1>0. /\ wk \in [Workers -> WorkerState] /\ wk[w] \in WorkerState /\ wk[w].run \in RunIds
      /\ wk[w].at # "idle"
  BY DEF IInv, TypeOK, WorkersTyped, ReportSuccessRead, ReportFailureFlush
<1>1. UNCHANGED <<status, task, reaped, alerts>>
  BY DEF ReportSuccessRead, ReportFailureFlush, runVars
<1>2. \A r \in RunIds : Handed(r)' => Handed(r)
  BY WorkHands DEF IInv, Attempt
<1>3. Failures' = Failures
  BY <1>1 DEF Failures, ConsecutiveFailures, RunsOf
<1>4. \A v \in Workers : v # w => wk'[v] = wk[v]
  BY <1>0 DEF ReportSuccessRead, ReportFailureFlush
<1>5. PICK r0 \in RunIds : r0 = wk[w].run
  BY <1>0
<1>6. wk'[w].run = r0
  BY <1>0, <1>5 DEF ReportSuccessRead, ReportFailureFlush, WorkerState
<1>7. ASSUME reaped = {} PROVE status[r0] = "RUNNING"
  <2>1. Handed(r0)
    BY <1>0, <1>5 DEF Handed, Works
  <2> QED
    BY <1>7, <2>1 DEF ToldInv
<1>8. ASSUME reaped = {} PROVE Decided(w)'
  <2>1. CASE ReportSuccessRead(w)
    <3>1. /\ wk'[w].at = "closing" /\ wk'[w].seen = status[r0]
          /\ wk'[w].alert = (/\ task[r0] = PriceList
                             /\ ConsecutiveFailures(status, task[r0]) >= StallThreshold)
      BY <1>0, <1>5, <2>1 DEF ReportSuccessRead, WorkerState
    <3> QED
      BY <1>1, <1>3, <1>6, <1>7, <1>8, <3>1 DEF Decided, Failures
  <2>2. CASE ReportFailureFlush(w)
    <3>1. wk'[w].at = "flushed" /\ wk'[w].alert = WarnsOfStall(r0)
      BY <1>0, <1>5, <2>2 DEF ReportFailureFlush, WorkerState
    <3>2. ASSUME task[r0] = PriceList
          PROVE  ConsecutiveFailures([status EXCEPT ![r0] = "FAILED"], PriceList) = Failures + 1
      <4>1. r0 \in Running(PriceList) /\ PriceList \in Jobs /\ TypeOK
        BY <1>7, <1>8, <3>2, JobsAssumption DEF Running, RunsOf, IInv, TypeOK, TableTyped
      <4>2. \A q \in RunsOf(PriceList) : q <= r0
        BY <4>1 DEF ToldInv, OpenIsNewest
      <4> QED
        BY <4>1, <4>2, TheNewestCloses DEF Failures
    <3> QED
      BY <1>1, <1>3, <1>6, <3>1, <3>2 DEF Decided, WarnsOfStall
  <2> QED
    BY <2>1, <2>2
<1>9. ASSUME reaped = {}, NEW v \in Workers PROVE Decided(v)'
  <2>1. CASE v # w
    BY <1>1, <1>3, <1>4, <1>9, <2>1, SameDecision DEF ToldInv
  <2> QED
    BY <1>8, <1>9, <2>1
<1> QED
  BY <1>1, <1>2, <1>9, TableStays

LEMMA CommitTold ==
  ASSUME IInv, HandedOnce, ToldInv, NEW w \in Workers,
         ReportSuccessCommit(w) \/ ReportFailureCommit(w)
  PROVE  ToldInv'
<1>1. CASE ReportSuccessCommit(w)
  <2>1. ASSUME reaped = {}
        PROVE  /\ wk[w].seen = "RUNNING"
               /\ wk[w].alert <=> task[wk[w].run] = PriceList /\ Failures >= StallThreshold
    BY <1>1, <2>1 DEF ToldInv, Decided, ReportSuccessCommit
  <2>2. /\ wk[w].at # "idle" /\ UNCHANGED <<task, reaped, queue, actor>>
        /\ wk' = [wk EXCEPT ![w] = IdleWorker]
        /\ status' \in {status, [status EXCEPT ![wk[w].run] = "SUCCEEDED"]}
        /\ alerts' = IF wk[w].alert THEN Append(alerts, "recovered") ELSE alerts
    BY <1>1 DEF ReportSuccessCommit
  <2>3. reaped = {} => status' = [status EXCEPT ![wk[w].run] = "SUCCEEDED"]
    BY <1>1, <2>1 DEF ReportSuccessCommit
  <2> QED
    BY <2>1, <2>2, <2>3, EndTold
<1>2. CASE ReportFailureCommit(w)
  <2>1. reaped = {} =>
            (wk[w].alert <=> task[wk[w].run] = PriceList /\ Failures + 1 = StallThreshold)
    BY <1>2 DEF ToldInv, Decided, ReportFailureCommit
  <2>2. /\ wk[w].at # "idle" /\ UNCHANGED <<task, reaped, queue, actor>>
        /\ wk' = [wk EXCEPT ![w] = IdleWorker]
        /\ status' = [status EXCEPT ![wk[w].run] = "FAILED"]
        /\ alerts' = IF wk[w].alert THEN Append(alerts, "stalled") ELSE alerts
    BY <1>2 DEF ReportFailureCommit
  <2> QED
    BY <2>1, <2>2, EndTold
<1> QED
  BY <1>1, <1>2

LEMMA ToldStep == IInv /\ HandedOnce /\ ToldInv /\ [Next]_vars => ToldInv'
<1> SUFFICES ASSUME IInv, HandedOnce, ToldInv, [Next]_vars PROVE ToldInv'
  OBVIOUS
<1>1. ASSUME NEW t \in Tickers, Heartbeat(t) PROVE ToldInv'
  BY <1>1, HeartbeatTold
<1>2. ASSUME NEW c \in Callers, NEW j \in Jobs, RequestManually(c, j) PROVE ToldInv'
  <2>1. c \in Actors /\ actor \in [Actors -> ActorState] /\ IdleActor \in ActorState
    BY IdleTypes DEF Actors, IInv, TypeOK, ActorsTyped
  <2>2. actor'[c].at = "lock" /\ \A b \in Actors : b # c => actor'[b] = actor[b]
    BY <1>2, <2>1 DEF RequestManually, ActorState
  <2>3. \A r \in RunIds : Handed(r)' => Handed(r)
    BY <1>2, <2>2 DEF RequestManually, Handed, Sends, Works
  <2> QED
    BY <1>2, <2>3, WorkersStay DEF RequestManually, runVars
<1>3. ASSUME NEW a \in Actors, Request(a) \/ ActorCrash(a) PROVE ToldInv'
  BY <1>3, RequestTold, OpenRunTold
<1>4. ASSUME NEW w \in Workers, Attempt(w) \/ Limit(w) \/ StrayDies(w) \/ WorkerCrash(w)
      PROVE  ToldInv'
  BY <1>4, AttemptTold, ReadTold, CommitTold DEF Attempt
<1>5. ASSUME NEW m \in queue, NEW w \in Workers, Start(w, m) PROVE ToldInv'
  <2>0. wk \in [Workers -> WorkerState]
    BY DEF IInv, TypeOK, WorkersTyped
  <2>1. /\ wk'[w].run = m.run /\ m.run \in RunIds /\ wk'[w].at = "portal"
        /\ \A v \in Workers : v # w => wk'[v] = wk[v]
    BY <1>5, <2>0, IdleTypes DEF Start, IInv, TypeOK, WorkerState
  <2>2. UNCHANGED <<status, task, reaped, alerts, actor>> /\ queue' \subseteq queue
    BY <1>5 DEF Start, runVars
  <2>3. \A r \in RunIds : Handed(r)' => Handed(r)
    BY <1>5, <2>1, <2>2 DEF Handed, Works, Sends
  <2>4. Failures' = Failures
    BY <2>2 DEF Failures, ConsecutiveFailures, RunsOf
  <2>5. ASSUME reaped = {}, NEW v \in Workers PROVE Decided(v)'
    BY <2>1, <2>2, <2>4, <2>5, SameDecision DEF ToldInv
  <2> QED
    BY <2>2, <2>3, <2>5, TableStays
<1>6. CASE TimePasses \/ (\E m \in queue : LoseMessage(m)) \/ UNCHANGED vars
  <2>1. queue' \subseteq queue /\ UNCHANGED <<status, task, reaped, alerts, actor>>
    BY <1>6 DEF TimePasses, LoseMessage, vars, runVars
  <2>2. \A v \in Workers : /\ wk'[v].at = wk[v].at /\ wk'[v].run = wk[v].run
                           /\ wk'[v].seen = wk[v].seen /\ wk'[v].alert = wk[v].alert
    <3> TAKE v \in Workers
    <3>1. wk[v] \in WorkerState
      BY DEF IInv, TypeOK, WorkersTyped
    <3>2. wk'[v] = wk[v] \/ wk'[v] = [wk[v] EXCEPT !.elapsed = wk[v].elapsed + 1]
      BY <1>6 DEF TimePasses, LoseMessage, vars
    <3> QED
      BY <3>1, <3>2 DEF WorkerState
  <2>3. \A r \in RunIds : Handed(r)' => Handed(r)
    BY <2>1, <2>2 DEF Handed, Works, Sends
  <2>4. Failures' = Failures
    BY <2>1 DEF Failures, ConsecutiveFailures, RunsOf
  <2>5. ASSUME reaped = {}, NEW v \in Workers PROVE Decided(v)'
    BY <2>1, <2>2, <2>4, <2>5, SameDecision DEF ToldInv
  <2> QED
    BY <2>1, <2>3, <2>5, TableStays
<1> QED
  BY <1>1, <1>2, <1>3, <1>4, <1>5, <1>6 DEF Next

\* Until a run is closed by the sweep, what was last announced to the owner is what the
\* table of runs says, and no warning follows a warning without a recovery in between.
THEOREM InterruptionsAreTold == Spec => []EachInterruptionIsToldOnce
<1>1. Init => HandedOnce /\ ToldInv
  <2> SUFFICES ASSUME Init PROVE HandedOnce /\ ToldInv
    OBVIOUS
  <2>1. HandedOnce
    BY DEF Init, HandedOnce, Works, Sends, IdleActor, IdleWorker
  <2>2. Failures = 0
    <3>1. RunsOf(PriceList) = {}
      BY DEF Init, RunsOf
    <3> QED
      BY <3>1, FS_EmptySet DEF Failures, ConsecutiveFailures
  <2>3. OpenIsNewest
    BY DEF Init, OpenIsNewest, Running, RunsOf
  <2>4. \A r \in RunIds : ~ Handed(r)
    BY DEF Init, Handed, Works, Sends, IdleActor, IdleWorker
  <2>5. \A w \in Workers : Decided(w)
    BY DEF Init, Decided, IdleWorker
  <2>6. alerts = <<>> /\ LastWord = "recovered" /\ Alternates
    BY DEF Init, LastWord, Alternates
  <2> QED
    BY <2>1, <2>2, <2>3, <2>4, <2>5, <2>6 DEF ToldInv, StallThreshold
<1>2. IInv /\ HandedOnce /\ [Next]_vars => HandedOnce'
  BY HandedOnceStep DEF IInv
<1>3. ToldInv => EachInterruptionIsToldOnce
  BY DEF ToldInv, EachInterruptionIsToldOnce, AnnouncedIffInterrupted, WarnedOnceWhenSelfClosed,
     Interrupted, Failures
<1> QED
  BY <1>1, <1>2, <1>3, ToldStep, IInvHolds, PTL DEF Spec

-----------------------------------------------------------------------------
(* Ages and clocks.                                                        *)

\* Nothing about the sweep moves: no age, no run that was swept.
LEMMA ActorClocks ==
  ASSUME TypeOK, ClocksAgree, NEW a \in Actors, UNCHANGED <<age, last, wk>>, reaped' = reaped,
         \A b \in Actors : b # a => actor'[b] = actor[b],
         a \in Tickers /\ actor'[a].at \in {"reap", "reaping"} /\ actor'[a].run # 0
            => age[actor'[a].run] >= Abandoned
  PROVE  ClocksAgree'
<1>1. \A t \in Tickers : t \in Actors
  BY DEF Actors
<1> QED
  BY <1>1 DEF ClocksAgree, SlotsTaken

LEMMA HeartbeatClocks ==
  ASSUME TypeOK, InTable, ClocksAgree, NEW t \in Tickers, Heartbeat(t)
  PROVE  ClocksAgree'
<1>0. /\ t \in Actors /\ actor \in [Actors -> ActorState] /\ actor[t].pos + 1 \in Nat \ {0}
      /\ 1 \in Nat \ {0} /\ actor[t] \in ActorState
  BY DEF TypeOK, ActorsTyped, ActorState, Actors
<1>1. UNCHANGED <<age, last, wk>>
  BY DEF Heartbeat, TickStart, ReapNothing, ReapRead, ReapFlush, ReapCommit, TickDue, runVars
<1>2. \A b \in Actors : b # t => actor'[b] = actor[b]
  BY <1>0 DEF Heartbeat, TickStart, ReapNothing, ReapRead, ReapFlush, ReapCommit, TickDue, Skip
<1>3. CASE ReapCommit(t)
  <2>1. /\ actor[t].run \in RunIds /\ actor[t].run <= last /\ age[actor[t].run] >= Abandoned
        /\ actor[t].run # 0
    BY <1>0, <1>3 DEF ReapCommit, TypeOK, ActorsTyped, InTable, ClocksAgree, RunIds
  <2>2. actor'[t].run = 0
    BY <1>0, <1>3, AfterReapType DEF ReapCommit
  <2>3. reaped' = reaped \cup {actor[t].run}
    BY <1>3 DEF ReapCommit
  <2>4. \A u \in Tickers : actor'[u].at \in {"reap", "reaping"} /\ actor'[u].run # 0
                           => age[actor'[u].run] >= Abandoned
    BY <1>2, <2>2 DEF ClocksAgree, Actors
  <2> QED
    BY <1>1, <2>1, <2>3, <2>4 DEF ClocksAgree, SlotsTaken
<1>4. CASE TickStart(t) \/ ReapNothing(t) \/ TickDue(t)
  <2>1. reaped' = reaped
    BY <1>4 DEF TickStart, ReapNothing, TickDue, runVars
  <2>2. actor'[t].run = 0 \/ actor'[t].at \notin {"reap", "reaping"}
    <3>1. CASE TickStart(t)
      BY <1>0, <3>1, PositionType DEF TickStart
    <3>2. CASE ReapNothing(t)
      BY <1>0, <3>2, AfterReapType DEF ReapNothing
    <3>3. CASE TickDue(t)
      BY <1>0, <3>3, PositionType DEF TickDue, Skip, ActorState
    <3> QED
      BY <1>4, <3>1, <3>2, <3>3
  <2> QED
    BY <1>0, <1>1, <1>2, <2>1, <2>2, ActorClocks
<1>5. CASE ReapRead(t)
  <2>1. PICK r \in Running(actor[t].job) :
          age[r] >= Abandoned /\ actor' = [actor EXCEPT ![t].run = r]
    BY <1>5 DEF ReapRead
  <2>2. actor'[t].run = r
    BY <1>0, <2>1 DEF ActorState
  <2> QED
    BY <1>0, <1>1, <1>2, <1>5, <2>1, <2>2, ActorClocks DEF ReapRead, runVars
<1>6. CASE ReapFlush(t)
  <2>1. actor'[t].run = actor[t].run
    BY <1>0, <1>6 DEF ReapFlush, ActorState
  <2>2. age[actor[t].run] >= Abandoned
    BY <1>6 DEF ReapFlush, ClocksAgree
  <2> QED
    BY <1>0, <1>1, <1>2, <1>6, <2>1, <2>2, ActorClocks DEF ReapFlush, runVars
<1> QED
  BY <1>3, <1>4, <1>5, <1>6 DEF Heartbeat

LEMMA RequestClocks ==
  ASSUME TypeOK, InTable, ClocksAgree, NEW a \in Actors, Request(a) \/ ActorCrash(a)
  PROVE  ClocksAgree'
<1>0. /\ actor \in [Actors -> ActorState] /\ actor[a].pos + 1 \in Nat \ {0} /\ actor[a] \in ActorState
      /\ IdleActor.at = "idle" /\ wk' = wk /\ reaped' = reaped
  BY DEF TypeOK, ActorsTyped, ActorState, IdleActor, Request, ActorCrash, TryLock, CheckRunning,
     OpenRun, Dispatch, HistoryFull, runVars
<1>1. \A b \in Actors : b # a => actor'[b] = actor[b]
  BY <1>0 DEF Request, ActorCrash, TryLock, CheckRunning, OpenRun, Dispatch, HistoryFull, Refuse, Skip
<1>2. actor'[a].at \notin {"reap", "reaping"}
  <2>1. CASE actor' = [actor EXCEPT ![a] = IdleActor]
    BY <1>0, <2>1
  <2>2. CASE a \in Tickers /\ actor' = [actor EXCEPT ![a] = Position(a, "due", actor[a].pos + 1)]
    BY <1>0, <2>2, PositionType
  <2>3. CASE \E phase \in {"check", "insert"} : actor' = [actor EXCEPT ![a].at = phase]
    BY <1>0, <2>3 DEF ActorState
  <2>4. CASE OpenRun(a)
    BY <1>0, <2>4 DEF OpenRun, ActorState
  <2> QED
    BY <2>1, <2>2, <2>3, <2>4 DEF Request, ActorCrash, TryLock, CheckRunning, Dispatch,
       HistoryFull, Refuse, Skip
<1>3. CASE OpenRun(a)
  \* The age that starts is of a run nothing was about.
  <2>1. last \in Nat /\ age \in [RunIds -> Nat] /\ last' = last + 1 /\ last + 1 \in RunIds
    BY <1>3, BoundsAssumption DEF OpenRun, TypeOK, TableTyped, RunIds
  <2>2. \A r \in RunIds : r <= last => age'[r] = age[r]
    BY <1>3, <2>1 DEF OpenRun, RunIds
  <2>3. \A w \in SlotsTaken : wk[w].run \in RunIds /\ wk[w].run <= last
    BY DEF SlotsTaken, TypeOK, WorkersTyped, InTable
  <2>4. \A t \in Tickers : actor'[t].at \in {"reap", "reaping"} /\ actor'[t].run # 0
           => age'[actor'[t].run] >= Abandoned
    <3> SUFFICES ASSUME NEW t \in Tickers, actor'[t].at \in {"reap", "reaping"}, actor'[t].run # 0
                 PROVE  age'[actor'[t].run] >= Abandoned
      OBVIOUS
    <3>1. t \in Actors /\ t # a /\ actor'[t] = actor[t]
      BY <1>1, <1>2 DEF Actors
    <3>2. actor[t].run \in 0 .. MaxRuns /\ actor[t].run <= last
      BY <1>0, <3>1 DEF ActorState, InTable
    <3>3. actor[t].run \in RunIds /\ age[actor[t].run] >= Abandoned
      BY <3>1, <3>2, BoundsAssumption DEF RunIds, ClocksAgree
    <3> QED
      BY <2>2, <3>1, <3>2, <3>3
  <2>5. \A r \in reaped : r <= last /\ age[r] >= Abandoned /\ r \in RunIds
    BY DEF ClocksAgree, TypeOK, TableTyped
  <2>6. \A r \in reaped' : r <= last' /\ age'[r] >= Abandoned
    BY <1>0, <2>1, <2>2, <2>5 DEF RunIds
  <2>7. SlotsTaken' = SlotsTaken
    BY <1>0 DEF SlotsTaken
  <2>8. \A w \in SlotsTaken' : /\ wk'[w].elapsed <= HardLimit
                               /\ age'[wk'[w].run] <= wk'[w].from + wk'[w].elapsed
    BY <1>0, <2>2, <2>3, <2>7 DEF ClocksAgree
  <2> QED
    BY <2>4, <2>6, <2>8 DEF ClocksAgree
<1>4. CASE ~ OpenRun(a)
  <2>1. UNCHANGED <<age, last>>
    BY <1>4 DEF Request, ActorCrash, TryLock, CheckRunning, Dispatch, HistoryFull, runVars
  <2> QED
    BY <1>0, <1>1, <1>2, <2>1, ActorClocks
<1> QED
  BY <1>3, <1>4

\* A worker whose clock is right gets no other.
LEMMA WorkerClocks ==
  ASSUME ClocksAgree, UNCHANGED <<age, last, actor>>, reaped' = reaped, NEW w \in Workers,
         \A v \in Workers : v # w => wk'[v] = wk[v],
         w \in SlotsTaken' => /\ wk'[w].elapsed <= HardLimit
                              /\ age[wk'[w].run] <= wk'[w].from + wk'[w].elapsed
  PROVE  ClocksAgree'
  BY DEF ClocksAgree, SlotsTaken

LEMMA WorkClocks ==
  ASSUME TypeOK, ClocksAgree, NEW w \in Workers,
         Attempt(w) \/ Limit(w) \/ StrayDies(w) \/ WorkerCrash(w)
  PROVE  ClocksAgree'
<1>0. wk \in [Workers -> WorkerState] /\ wk[w] \in WorkerState /\ IdleWorker.at = "idle"
  BY DEF TypeOK, WorkersTyped, IdleWorker
<1>1. UNCHANGED <<age, last, actor>> /\ reaped' = reaped
  BY DEF Attempt, Extract, ExtractionFails, ExtractionBreaks, ReportSuccessRead,
     ReportSuccessCommit, ReportFailureFlush, ReportFailureCommit, Limit, SoftLimit, Kill,
     StrayDies, WorkerCrash, runVars
<1>2. \A v \in Workers : v # w => wk'[v] = wk[v]
  BY <1>0 DEF Attempt, Extract, ExtractionFails, ExtractionBreaks, ReportSuccessRead,
     ReportSuccessCommit, ReportFailureFlush, ReportFailureCommit, Limit, SoftLimit, Kill,
     StrayDies, WorkerCrash
<1>3. \/ wk'[w].at = "idle" \/ wk'[w].stray
      \/ /\ wk[w].at # "idle" /\ wk'[w].stray = wk[w].stray /\ wk'[w].run = wk[w].run
         /\ wk'[w].from = wk[w].from /\ wk'[w].elapsed = wk[w].elapsed
  <2>1. CASE wk' = [wk EXCEPT ![w] = IdleWorker]
    BY <1>0, <2>1
  <2>2. CASE SoftLimit(w)
    BY <1>0, <2>2 DEF SoftLimit, WorkerState
  <2>3. CASE Extract(w)
    BY <1>0, <2>3 DEF Extract, WorkerState
  <2>4. CASE ReportSuccessRead(w)
    BY <1>0, <2>4 DEF ReportSuccessRead, WorkerState
  <2>5. CASE ReportFailureFlush(w)
    BY <1>0, <2>5 DEF ReportFailureFlush, WorkerState
  <2>6. CASE wk[w].at # "idle" /\ wk' = [wk EXCEPT ![w].at = "failing"]
    BY <1>0, <2>6 DEF WorkerState
  <2>7. ExtractionBreaks(w) \/ ExtractionFails(w)
          => /\ wk[w].at # "idle"
             /\ wk' \in {[wk EXCEPT ![w] = IdleWorker], [wk EXCEPT ![w].at = "failing"]}
    BY DEF ExtractionBreaks, ExtractionFails
  <2> QED
    BY <2>1, <2>2, <2>3, <2>4, <2>5, <2>6, <2>7 DEF Attempt, ReportSuccessCommit,
       ReportFailureCommit, Limit, Kill, StrayDies, WorkerCrash
<1>4. w \in SlotsTaken' => /\ wk'[w].elapsed <= HardLimit
                           /\ age[wk'[w].run] <= wk'[w].from + wk'[w].elapsed
  BY <1>3 DEF SlotsTaken, ClocksAgree
<1> QED
  BY <1>1, <1>2, <1>4, WorkerClocks

LEMMA StartClocks ==
  ASSUME TypeOK, ClocksAgree, NEW w \in Workers, NEW m \in queue, Start(w, m)
  PROVE  ClocksAgree'
<1>0. /\ wk \in [Workers -> WorkerState] /\ m.run \in RunIds /\ age[m.run] \in Nat
      /\ HardLimit \in Nat
  BY BoundsAssumption DEF TypeOK, WorkersTyped, TableTyped
<1>1. /\ UNCHANGED <<age, last, actor>> /\ reaped' = reaped
      /\ \A v \in Workers : v # w => wk'[v] = wk[v]
  BY <1>0 DEF Start, runVars
<1>2. wk'[w].elapsed = 0 /\ wk'[w].run = m.run /\ wk'[w].from = age[m.run]
  BY <1>0 DEF Start, IdleWorker
<1> QED
  BY <1>0, <1>1, <1>2, WorkerClocks

LEMMA TimeClocks ==
  ASSUME TypeOK, InTable, ClocksAgree, TimePasses
  PROVE  ClocksAgree'
<1>0. /\ wk \in [Workers -> WorkerState] /\ age \in [RunIds -> Nat] /\ MaxAge \in Nat
      /\ HardLimit \in Nat /\ Abandoned \in Nat /\ last' = last /\ reaped' = reaped /\ actor' = actor
  BY BoundsAssumption DEF TypeOK, WorkersTyped, TableTyped, TimePasses
<1>1. \A r \in RunIds : age'[r] \in Nat /\ age[r] <= age'[r] /\ age'[r] <= age[r] + 1
  BY <1>0 DEF TimePasses, Older
<1>2. ASSUME NEW w \in SlotsTaken'
      PROVE  wk'[w].elapsed <= HardLimit /\ age'[wk'[w].run] <= wk'[w].from + wk'[w].elapsed
  <2>1. w \in Workers /\ wk[w] \in WorkerState
    BY <1>0, <1>2 DEF SlotsTaken
  <2>2. w \in SlotsTaken
    <3>1. CASE w \notin SlotsTaken
      <4>1. wk'[w] = wk[w]
        BY <2>1, <3>1 DEF TimePasses
      <4> QED
        BY <1>2, <2>1, <3>1, <4>1 DEF SlotsTaken
    <3> QED
      BY <3>1
  <2>3. wk'[w] = [wk[w] EXCEPT !.elapsed = wk[w].elapsed + 1] /\ wk[w].elapsed < HardLimit
    BY <2>1, <2>2 DEF TimePasses
  <2>4. /\ wk'[w].elapsed = wk[w].elapsed + 1 /\ wk'[w].run = wk[w].run
        /\ wk'[w].from = wk[w].from /\ wk[w].elapsed \in Nat /\ wk[w].from \in Nat
    BY <2>1, <2>3 DEF WorkerState
  <2>5. wk[w].run \in RunIds /\ age[wk[w].run] <= wk[w].from + wk[w].elapsed
    BY <2>1, <2>2 DEF SlotsTaken, TypeOK, WorkersTyped, ClocksAgree
  <2> QED
    BY <1>0, <1>1, <2>3, <2>4, <2>5
<1>3. \A t \in Tickers : actor[t].at \in {"reap", "reaping"} /\ actor[t].run # 0
        => age'[actor[t].run] >= Abandoned
  <2> SUFFICES ASSUME NEW t \in Tickers, actor[t].at \in {"reap", "reaping"}, actor[t].run # 0
               PROVE  age'[actor[t].run] >= Abandoned
    OBVIOUS
  <2>1. actor[t].run \in RunIds
    BY BoundsAssumption DEF TypeOK, ActorsTyped, ActorState, Actors, RunIds
  <2>2. age[actor[t].run] >= Abandoned
    BY DEF ClocksAgree
  <2> QED
    BY <1>0, <1>1, <2>1, <2>2
<1>4. \A r \in reaped : r <= last /\ age'[r] >= Abandoned
  <2>1. \A r \in reaped : r \in RunIds /\ r <= last /\ age[r] >= Abandoned
    BY DEF ClocksAgree, TypeOK, TableTyped
  <2> QED
    BY <1>0, <1>1, <2>1
<1> QED
  BY <1>0, <1>2, <1>3, <1>4 DEF ClocksAgree

LEMMA ClocksStep == TypeOK /\ InTable /\ ClocksAgree /\ [Next]_vars => ClocksAgree'
<1> SUFFICES ASSUME TypeOK, InTable, ClocksAgree, [Next]_vars PROVE ClocksAgree'
  OBVIOUS
<1>1. ASSUME NEW t \in Tickers, Heartbeat(t) PROVE ClocksAgree'
  BY <1>1, HeartbeatClocks
<1>2. ASSUME NEW c \in Callers, NEW j \in Jobs, RequestManually(c, j) PROVE ClocksAgree'
  <2>1. c \in Actors /\ actor \in [Actors -> ActorState] /\ IdleActor \in ActorState
    BY IdleTypes DEF Actors, TypeOK, ActorsTyped
  <2>2. actor'[c].at = "lock" /\ \A b \in Actors : b # c => actor'[b] = actor[b]
    BY <1>2, <2>1 DEF RequestManually, ActorState
  <2> QED
    BY <1>2, <2>1, <2>2, ActorClocks DEF RequestManually, runVars
<1>3. ASSUME NEW a \in Actors, Request(a) \/ ActorCrash(a) PROVE ClocksAgree'
  BY <1>3, RequestClocks
<1>4. ASSUME NEW w \in Workers, Attempt(w) \/ Limit(w) \/ StrayDies(w) \/ WorkerCrash(w)
      PROVE  ClocksAgree'
  BY <1>4, WorkClocks
<1>5. ASSUME NEW m \in queue, NEW w \in Workers, Start(w, m) PROVE ClocksAgree'
  BY <1>5, StartClocks
<1>6. CASE TimePasses
  BY <1>6, TimeClocks
<1>7. CASE (\E m \in queue : LoseMessage(m)) \/ UNCHANGED vars
  BY <1>7 DEF LoseMessage, vars, runVars, ClocksAgree, SlotsTaken
<1> QED
  BY <1>1, <1>2, <1>3, <1>4, <1>5, <1>6, <1>7 DEF Next

\* A task that began within the margin of ABANDONED_AFTER is over when its run
\* is swept, whatever its interval, its retries and the sweep's delays.
THEOREM TheMarginProtects == Spec => []MarginHolds
<1>1. Init => ClocksAgree
  BY DEF Init, ClocksAgree, SlotsTaken, IdleActor, IdleWorker, Actors
<1>2. IInv /\ ClocksAgree /\ [Next]_vars => ClocksAgree'
  BY ClocksStep DEF IInv
<1>3. IInv /\ ClocksAgree => MarginHolds
  <2> SUFFICES ASSUME IInv, ClocksAgree, NEW w \in SlotsTaken, wk[w].run \in reaped
               PROVE  wk[w].from >= Abandoned - HardLimit
    BY DEF MarginHolds
  <2>1. /\ wk[w].elapsed \in Nat /\ wk[w].from \in Nat /\ wk[w].run \in RunIds
        /\ age[wk[w].run] \in Nat /\ HardLimit \in Nat /\ Abandoned \in Nat
    BY BoundsAssumption DEF IInv, TypeOK, WorkersTyped, WorkerState, TableTyped, SlotsTaken
  <2>2. /\ wk[w].elapsed <= HardLimit /\ age[wk[w].run] <= wk[w].from + wk[w].elapsed
        /\ age[wk[w].run] >= Abandoned
    BY DEF ClocksAgree
  <2> QED
    BY <2>1, <2>2
<1> QED
  BY <1>1, <1>2, <1>3, IInvHolds, PTL DEF Spec

-----------------------------------------------------------------------------
(* The runs implement the promise.                                         *)

\* Ending a run closes its source, if the run was open, and no other.
LEMMA ClosingImplements ==
  ASSUME IInv, NEW r \in RunIds, NEW s \in {"SUCCEEDED", "FAILED"}, r <= last,
         status' \in {status, [status EXCEPT ![r] = s]}, UNCHANGED <<task, last>>
  PROVE  [Promise!Next]_<<OpenSources, last>>
<1>0. /\ status \in [RunIds -> Statuses] /\ task \in [RunIds -> Jobs \cup {NoOne}]
      /\ last \in 0 .. MaxRuns /\ MaxRuns \in Nat
  BY BoundsAssumption DEF IInv, TypeOK, TableTyped
<1>1. status[r] # "absent"
  BY <1>0 DEF IInv, InTable, RunIds
<1>2. CASE status' = status
  BY <1>2 DEF OpenSources, Running, RunsOf
<1>3. CASE status' = [status EXCEPT ![r] = s]
  <2>1. \A j \in Jobs : j # task[r] => Running(j)' = Running(j)
    BY <1>0, <1>1, <1>3 DEF Running, RunsOf
  <2>2. CASE status[r] = "RUNNING" /\ task[r] \in Jobs
    <3>1. PICK mine \in Jobs : mine = task[r]
      BY <2>2
    <3>2. r \in Running(mine)
      BY <1>1, <2>2, <3>1 DEF Running, RunsOf
    <3>3. Running(mine)' \subseteq Running(mine) \ {r}
      BY <1>0, <1>3, <3>1 DEF Running, RunsOf
    <3>4. Running(mine)' = {}
      BY <3>2, <3>3 DEF IInv, Serialized, OneOpenRun
    <3>5. mine \in OpenSources /\ OpenSources' = OpenSources \ {mine}
      BY <2>1, <3>1, <3>2, <3>4 DEF OpenSources
    <3> QED
      BY <3>5 DEF Promise!Next, Promise!Close
  <2>3. CASE ~ (status[r] = "RUNNING" /\ task[r] \in Jobs)
    <3>1. \A j \in Jobs : Running(j)' = Running(j)
      BY <1>0, <1>1, <1>3, <2>3 DEF Running, RunsOf
    <3> QED
      BY <3>1 DEF OpenSources
  <2> QED
    BY <2>2, <2>3
<1> QED
  BY <1>2, <1>3

LEMMA OpeningImplements ==
  ASSUME IInv, NEW a \in Actors, OpenRun(a)
  PROVE  Promise!Next
<1>0. /\ status \in [RunIds -> Statuses] /\ task \in [RunIds -> Jobs \cup {NoOne}]
      /\ last \in 0 .. MaxRuns /\ MaxRuns \in Nat /\ actor[a].job \in Jobs
  BY BoundsAssumption DEF IInv, TypeOK, TableTyped, ActorsTyped, OpenRun
<1>1. PICK mine \in Jobs : mine = actor[a].job
  BY <1>0
<1>2. PICK r \in RunIds : r = last + 1
  BY <1>0 DEF OpenRun, RunIds
<1>3. /\ last' = r /\ status' = [status EXCEPT ![r] = "RUNNING"]
      /\ task' = [task EXCEPT ![r] = mine]
  BY <1>1, <1>2 DEF OpenRun
<1>4. Running(mine) = {} /\ status[r] = "absent"
  BY <1>0, <1>1, <1>2 DEF IInv, InTable, Serialized, CheckStillHolds, OpenRun
<1>5. r \in Running(mine)'
  BY <1>0, <1>3 DEF Running, RunsOf
<1>6. \A j \in Jobs : j # mine => Running(j)' = Running(j)
  BY <1>0, <1>3, <1>4 DEF Running, RunsOf
<1>7. mine \notin OpenSources /\ OpenSources' = OpenSources \cup {mine}
  BY <1>4, <1>5, <1>6 DEF OpenSources
<1> QED
  BY <1>2, <1>3, <1>7 DEF Promise!Next, Promise!Open

LEMMA StepImplements == IInv /\ [Next]_vars => [Promise!Next]_<<OpenSources, last>>
<1> SUFFICES ASSUME IInv, [Next]_vars PROVE [Promise!Next]_<<OpenSources, last>>
  OBVIOUS
<1>1. CASE \E t \in Tickers : ReapCommit(t)
  <2>1. PICK t \in Tickers : ReapCommit(t)
    BY <1>1
  <2>2. t \in Actors /\ actor[t].run \in RunIds /\ actor[t].run <= last
    BY <2>1 DEF Actors, ReapCommit, IInv, TypeOK, ActorsTyped, InTable
  <2> QED
    BY <2>1, <2>2, ClosingImplements DEF ReapCommit
<1>2. CASE \E w \in Workers : Attempt(w)
  <2>1. PICK w \in Workers : Attempt(w)
    BY <1>2
  <2>2. wk[w].run \in RunIds /\ wk[w].run <= last
    BY <2>1, AttemptCloses DEF IInv, TypeOK, WorkersTyped, InTable
  <2> QED
    BY <2>1, <2>2, AttemptCloses, ClosingImplements
<1>3. CASE \E a \in Actors : OpenRun(a)
  BY <1>3, OpeningImplements
<1>4. CASE UNCHANGED <<status, task, last>>
  BY <1>4 DEF OpenSources, Running, RunsOf
<1>5. \/ \E t \in Tickers : ReapCommit(t)
      \/ \E w \in Workers : Attempt(w)
      \/ \E a \in Actors : OpenRun(a)
      \/ UNCHANGED <<status, task, last>>
  BY DEF Next, vars, runVars, Heartbeat, Request, Limit, TickStart, ReapNothing, ReapRead,
     ReapFlush, TickDue, RequestManually, ActorCrash, TryLock, CheckRunning, Dispatch,
     HistoryFull, SoftLimit, Kill, StrayDies, WorkerCrash, Start, LoseMessage, TimePasses
<1> QED
  BY <1>1, <1>2, <1>3, <1>4, <1>5

\* The runs implement OneAtATime: a source is never started while it is being
\* brought, and no step both closes one and starts another.
THEOREM RunsKeepThePromise == Spec => KeepsThePromise
<1>1. Init => Promise!Init
  BY DEF Init, Promise!Init, OpenSources, Running, RunsOf
<1> QED
  BY <1>1, StepImplements, IInvHolds, PTL DEF Spec, KeepsThePromise, Promise!Spec
==============================================================================
