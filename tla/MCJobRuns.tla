----------------------------- MODULE MCJobRuns -----------------------------
(* Instances of JobRuns for TLC.                                           *)
EXTENDS JobRuns, TLC

CONSTANTS price, s1, s2, tp, te, c1, c2, w1, w2

\* tick_price_update walks over one source, tick_extractions over the others.
PriceBeat == tp :> <<price>>
SyncBeat == te :> <<s1, s2>>
OneBeat == te :> <<s1>>

\* Two executions of tick_extractions at once, or one after the other's crash.
OverlappingBeats == te :> <<s1>> @@ tp :> <<s1>>

\* The coroutines are interchangeable, and so are the callers.
Interchangeable == Permutations(Workers) \cup Permutations(Callers)
==============================================================================
