------------------------------- MODULE Prices -------------------------------
(***************************************************************************)
(* The price of one product (modules/catalog): the list the portal         *)
(* publishes, the corrections people make over it, the prices people load, *)
(* and the curve the system draws from what it saw change.                 *)
(*                                                                         *)
(* A list reads the corrections in force when its transaction starts and   *)
(* applies its rows against those, so a list is two steps: StartList, which*)
(* takes the snapshot, and ApplyList, which writes and commits.  The moment*)
(* its points carry is that of the start.  Everything a person does is one *)
(* short request, and one action here.                                     *)
(*                                                                         *)
(* Amounts are small integers.  The description and the currency of a      *)
(* product are left out: their corrections follow the same check, and no   *)
(* list ever writes a description.                                         *)
(***************************************************************************)
EXTENDS Integers

CONSTANTS
    Amounts,      \* the prices the portal and the people write
    Threshold,    \* highlight_threshold: percentage
    NoAmount,     \* absence of an amount (a null column, a row not listed)
    MaxLists,     \* bound: price lists started
    MaxHand       \* bound: requests of people

ASSUME AmountsAssumption == Amounts \subseteq Nat /\ NoAmount \notin Nat
ASSUME ThresholdAssumption == Threshold \in Nat

VARIABLES
    price,      \* the ProductPrice row, or NoPrice
    curve,      \* the PricePoint rows: [at, amount]
    corr,       \* the last Correction of the price, or NoCorrection
    list,       \* the price list in progress, or NoList
    lists,      \* price lists started so far
    hand,       \* requests of people so far
    overtaken,  \* a list was applied against corrections already out of date
    unrecorded, \* a loaded price was corrected since the last point
    outrun,     \* the last point was drawn under one that was loaded meanwhile
    lastRead    \* what the portal last informed since the correction was written

pricesVars == <<price, curve, corr, list, lists, hand, overtaken, unrecorded, outrun,
                lastRead>>

NoPrice == [amount |-> NoAmount]
NoCorrection == [id |-> 0]
NoList == [open |-> FALSE]

\* The moment a list or a request begins: one more than everything begun before it.
Now == lists + hand + 1

(***************************************************************************)
(* Corrections.                                                            *)
(***************************************************************************)
InForce(c) == c # NoCorrection /\ c.status # "REVERTED"

\* _check_conflict: what a correction says after the portal informs `incoming`.
\* A mutant: the conflict keeps the first value that contradicted the correction.
CheckedTheFirstTime(c, incoming) ==
    IF incoming = c.portal \/ c.status = "CONFLICTED" THEN c
    ELSE [c EXCEPT !.status = "CONFLICTED", !.conflict = incoming]

Checked(c, incoming) ==
    IF incoming = c.portal \/ (c.status = "CONFLICTED" /\ c.conflict = incoming)
    THEN c
    ELSE [c EXCEPT !.status = "CONFLICTED", !.conflict = incoming]

(***************************************************************************)
(* _register_price, for a product with no correction in force.             *)
(***************************************************************************)
Variation(current, before) == (current - before) * 100

\* A change above the threshold is highlighted; from zero there is no percentage.
Highlights(current, before) ==
    before # 0 /\ Variation(current, before) > Threshold * before

Repriced(amount, source) ==
    IF price = NoPrice
    THEN [amount |-> amount, previous |-> NoAmount, highlighted |-> FALSE,
          stale |-> FALSE, source |-> source]
    ELSE [amount |-> amount, previous |-> price.amount,
          highlighted |-> amount # price.amount /\ Highlights(amount, price.amount),
          stale |-> FALSE, source |-> source]

\* The curve gets a point when the price is new or changed, never for the same price.
RecordPoint(amount, moment, behind) ==
    IF amount = price.amount
    THEN UNCHANGED <<curve, unrecorded, outrun>>
    ELSE /\ curve' = curve \cup {[at |-> moment, amount |-> amount]}
         /\ unrecorded' = FALSE
         /\ outrun' = behind

Register(amount, source, moment, behind) ==
    /\ price' = Repriced(amount, source)
    /\ RecordPoint(amount, moment, behind)

\* With a correction standing the value stays; the row only stops being stale.
SeenAgain ==
    /\ price' = IF price = NoPrice THEN price
                ELSE [price EXCEPT !.stale = FALSE, !.highlighted = FALSE]
    /\ UNCHANGED <<curve, unrecorded, outrun>>

(***************************************************************************)
(* apply_price_batch.                                                      *)
(***************************************************************************)
\* The moment is taken, and the corrections in force are read.  Behind says whether a
\* price was loaded since.
StartList(amount) ==
    /\ ~list.open
    /\ lists < MaxLists
    /\ list' = [open |-> TRUE, amount |-> amount, standing |-> corr, at |-> Now,
                behind |-> FALSE]
    /\ lists' = lists + 1
    /\ UNCHANGED <<price, curve, corr, hand, overtaken, unrecorded, outrun, lastRead>>

\* The row of the product, against the corrections read at the start.
\* A mutant: the price of the list is written over a correction too.
ApplyRowOverCorrections(amount, standing) ==
    Register(amount, "PORTAL", list.at, list.behind) /\ UNCHANGED corr

ApplyRow(amount, standing) ==
    IF InForce(standing)
    THEN LET checked == Checked(standing, amount)
         IN  /\ SeenAgain
             /\ corr' = IF checked = standing THEN corr
                        ELSE [corr EXCEPT !.status = checked.status,
                                          !.conflict = checked.conflict]
    ELSE Register(amount, "PORTAL", list.at, list.behind) /\ UNCHANGED corr

\* _flag_missing: a product the list does not bring shows as stale.
FlagMissing ==
    /\ price' = IF price = NoPrice THEN price
                ELSE [price EXCEPT !.stale = TRUE, !.highlighted = FALSE]
    /\ UNCHANGED <<curve, unrecorded, outrun, corr>>

\* Reviving a reverted correction while a newer one is in force breaks the unique
\* index, and the whole list is rolled back.
BreaksIndex ==
    /\ list.amount # NoAmount
    /\ InForce(list.standing)
    /\ list.standing.id # corr.id
    /\ Checked(list.standing, list.amount) # list.standing

ApplyList ==
    /\ list.open
    /\ ~BreaksIndex
    /\ IF list.amount = NoAmount THEN FlagMissing ELSE ApplyRow(list.amount, list.standing)
    /\ list' = NoList
    /\ overtaken' = (overtaken \/ (list.amount # NoAmount /\ list.standing # corr))
    /\ lastRead' = IF list.amount # NoAmount THEN list.amount ELSE lastRead
    /\ UNCHANGED <<lists, hand>>

RefuseList ==
    /\ list.open
    /\ BreaksIndex
    /\ list' = NoList
    /\ UNCHANGED <<price, curve, corr, lists, hand, overtaken, unrecorded, outrun, lastRead>>

(***************************************************************************)
(* What people do.                                                         *)
(***************************************************************************)
\* _store_correction: over a correction in force the portal's value stays the first
\* one; a price nobody but the system knows is changed without a correction.
\* A mutant: over a correction in force a new one takes the price shown for the portal's.
StoredAnew(amount) ==
    IF price.source = "PORTAL"
    THEN [id |-> Now, status |-> "ACTIVE", portal |-> price.amount,
          corrected |-> amount, conflict |-> NoAmount]
    ELSE corr

Stored(amount) ==
    IF InForce(corr)
    THEN [corr EXCEPT !.corrected = amount, !.status = "ACTIVE", !.conflict = NoAmount]
    ELSE IF price.source = "PORTAL"
    THEN [id |-> Now, status |-> "ACTIVE", portal |-> price.amount,
          corrected |-> amount, conflict |-> NoAmount]
    ELSE corr

ApplyCorrection(amount) ==
    /\ hand < MaxHand
    /\ price # NoPrice
    /\ price' = [price EXCEPT !.amount = amount]
    /\ corr' = Stored(amount)
    /\ unrecorded' = (unrecorded \/ ~InForce(corr'))
    /\ lastRead' = NoAmount
    /\ hand' = hand + 1
    /\ UNCHANGED <<curve, list, lists, overtaken, outrun>>

RevertCorrection ==
    /\ hand < MaxHand
    /\ InForce(corr)
    /\ price # NoPrice
    /\ price' = [price EXCEPT !.amount = corr.portal]
    /\ corr' = [corr EXCEPT !.status = "REVERTED"]
    /\ lastRead' = NoAmount
    /\ hand' = hand + 1
    /\ UNCHANGED <<curve, list, lists, overtaken, unrecorded, outrun>>

\* set_price_by_code: the price a person loads for a quarantined row.  A correction
\* that says another price refuses it, and the case stays open.
SetPrice(amount) ==
    /\ hand < MaxHand
    /\ InForce(corr) => corr.corrected = amount
    /\ IF InForce(corr) THEN SeenAgain ELSE Register(amount, "SYSTEM", Now, FALSE)
    /\ list' = IF list.open THEN [list EXCEPT !.behind = TRUE] ELSE list
    /\ hand' = hand + 1
    /\ UNCHANGED <<corr, lists, overtaken, lastRead>>

\* import_published_history: what the portal published before the product was known
\* goes under the curve; a moment that already has a point keeps it.
ImportPublishedHistory(amount) ==
    /\ \A point \in curve : point.at # 0
    /\ curve' = curve \cup {[at |-> 0, amount |-> amount]}
    /\ UNCHANGED <<price, corr, list, lists, hand, overtaken, unrecorded, outrun, lastRead>>

(***************************************************************************)
(* The specification.                                                      *)
(***************************************************************************)
PricesInit ==
    /\ price = NoPrice /\ curve = {} /\ corr = NoCorrection /\ list = NoList
    /\ lists = 0 /\ hand = 0
    /\ overtaken = FALSE /\ unrecorded = FALSE /\ outrun = FALSE /\ lastRead = NoAmount

PricesNext ==
    \/ \E amount \in Amounts \cup {NoAmount} : StartList(amount)
    \/ ApplyList
    \/ RefuseList
    \/ \E amount \in Amounts :
          \/ ApplyCorrection(amount)
          \/ SetPrice(amount)
          \/ ImportPublishedHistory(amount)
    \/ RevertCorrection

PricesSpec == PricesInit /\ [][PricesNext]_pricesVars

(***************************************************************************)
(* Properties.                                                             *)
(***************************************************************************)
\* While a correction is in force the price shown is the corrected one, whatever
\* lists arrive and whatever prices are loaded (service.py:1894-1969); and a list that
\* informs something else than what the portal said when the value was corrected leaves
\* the correction in conflict, with the value it informed (service.py:1387-1442).  This
\* is so as long as no list was applied against corrections out of date by then.
CorrectedPriceStands ==
    InForce(corr) /\ ~overtaken =>
        /\ price.amount = corr.corrected
        /\ lastRead \notin {NoAmount, corr.portal}
               => corr.status = "CONFLICTED" /\ corr.conflict = lastRead

\* Where the curve ends is the price shown: every change of price left its point
\* (service.py:1986, 2022), and undoing a correction returns to the last one.  There are
\* two exceptions: a price that was loaded by hand and then corrected, which leaves
\* neither a point nor a correction (service.py:1337-1340); and a list that changes the
\* price after somebody loaded one meanwhile: the price shown is that of the list, and
\* its point, which carries the moment the list began (service.py:243), goes under theirs.
CurveEndsAt(amount) ==
    \E last \in curve : /\ last.amount = amount
                        /\ \A point \in curve : point.at <= last.at
CurveEndsAtThePrice ==
    price # NoPrice /\ ~InForce(corr) /\ ~overtaken /\ ~unrecorded /\ ~outrun
        => CurveEndsAt(price.amount)

(***************************************************************************)
(* The inductive invariant.                                                *)
(***************************************************************************)
Sources == {"PORTAL", "SYSTEM"}
PriceRows == [amount : Amounts, previous : Amounts \cup {NoAmount}, highlighted : BOOLEAN,
              stale : BOOLEAN, source : Sources]
Corrections == [id : Nat \ {0}, status : {"ACTIVE", "CONFLICTED", "REVERTED"}, portal : Amounts,
                corrected : Amounts, conflict : Amounts \cup {NoAmount}]
PricesTypeOK ==
    /\ price \in PriceRows \cup {NoPrice}
    /\ curve \subseteq [at : Nat, amount : Amounts]
    /\ corr \in Corrections \cup {NoCorrection}
    /\ list \in [open : {TRUE}, amount : Amounts \cup {NoAmount},
                 standing : Corrections \cup {NoCorrection}, at : Nat \ {0},
                 behind : BOOLEAN] \cup {NoList}
    /\ lists \in Nat /\ hand \in Nat
    /\ overtaken \in BOOLEAN /\ unrecorded \in BOOLEAN /\ outrun \in BOOLEAN
    /\ lastRead \in Amounts \cup {NoAmount}

\* The moments of the points were taken, and so was that of the list in progress, which
\* is over them unless a price was loaded since it began.
PointsArePast == \A point \in curve : point.at <= lists + hand
ListIsLater ==
    list.open => /\ list.at <= lists + hand
                 /\ ~list.behind => \A point \in curve : point.at < list.at

\* What a correction would return to is where the curve stopped when it was written.
PortalEndsTheCurve ==
    InForce(corr) /\ ~overtaken /\ ~unrecorded /\ ~outrun => CurveEndsAt(corr.portal)

PricesInv == /\ PricesTypeOK /\ PointsArePast /\ ListIsLater /\ CorrectedPriceStands
             /\ CurveEndsAtThePrice /\ PortalEndsTheCurve
=============================================================================
