-------------------------------- MODULE Rubros --------------------------------
(* The list of rubros and what each of them bought and sold (modules/catalog: *)
(* create_category, rename_category, delete_category, list_categories,        *)
(* record_order_spend, record_sale_revenue).                                  *)
(*                                                                            *)
(* The amounts are copies of those of purchases and sales, which the catalog  *)
(* may not read: one row for each row of staging that an event carries.  The  *)
(* rubro of a row is not stored: it is the one its product has when somebody  *)
(* looks.                                                                     *)
(*                                                                            *)
(* Every operation is one transaction and one step; how answers, lists and    *)
(* requests interleave over one written form is in Equivalences, and here     *)
(* there is one form, answered at most once until it is revoked.              *)
EXTENDS Naturals, Sequences, SequencesExt, FiniteSets

CONSTANTS
    RubroNames,   \* the names of rubros, in lower case
    Codes,        \* the codes of products
    Bought,       \* the lines of purchase orders
    Worth,        \* the amounts of the lines and of the sales
    Sold,         \* the sales that are read
    NoCode,       \* a line or a sale without a code of product
    NoWorth,      \* a line without an amount
    MaxRubros,    \* bound: rubros created
    MaxScreens    \* bound: screens of orders read

ASSUME WorthAssumption == Worth \subseteq Nat /\ NoWorth \notin Nat
ASSUME CodeAssumption == NoCode \notin Codes
ASSUME RubrosAssumption == IsFiniteSet(Bought) /\ IsFiniteSet(Sold)

VARIABLES
    rubros,       \* core.category, by id: its name, or Deleted
    catalog,      \* core.product, by code
    equivalence,  \* core.category_alias of the form: its rubro, or 0
    printed,      \* the screen of orders of the portal
    screens,      \* the screens of orders already read
    typed,        \* rows of orders in staging
    spend,        \* core.order_spend, by the id of the row of staging
    revenue       \* core.sale_revenue, by the sale

amountVars == <<printed, screens, typed, spend, revenue>>
rubroVars == <<rubros, catalog, equivalence, amountVars>>

Deleted == "DELETED"
ASSUME DeletedAssumption == Deleted \notin RubroNames
NoProduct == [known |-> FALSE]
NotPrinted == [printed |-> FALSE]

Listed == {r \in DOMAIN rubros : rubros[r] # Deleted}
KnownProducts == {c \in Codes : catalog[c] # NoProduct}
ActiveIn(r) == {c \in KnownProducts : catalog[c].active /\ catalog[c].rubro = r}

-------------------------------------------------------------------------------
(* What the screen of rubros shows. *)

(* A row whose product nobody knows, or has no rubro, is of none.             *)
RubroOf(row) == IF row.code \in KnownProducts THEN catalog[row.code].rubro ELSE 0
AmountsOf(table) == [id \in DOMAIN table |-> table[id].amount]
CutOf(table, r) ==
    SumFunctionOnSet(AmountsOf(table), {id \in DOMAIN table : RubroOf(table[id]) = r})
AddedUp(table) == SumFunction(AmountsOf(table))
Shown(table) == SumFunction([r \in Listed \cup {0} |-> CutOf(table, r)])

-------------------------------------------------------------------------------
(* The list of rubros. *)

CategoryNamed(name) == {r \in Listed : rubros[r] = name}

CreateCategory(name) ==
    /\ Len(rubros) < MaxRubros
    /\ CategoryNamed(name) = {}
    /\ rubros' = Append(rubros, name)
    /\ UNCHANGED <<catalog, equivalence, amountVars>>

RenameCategory(r, name) ==
    /\ r \in Listed /\ CategoryNamed(name) \subseteq {r}
    /\ rubros' = [rubros EXCEPT ![r] = name]
    /\ UNCHANGED <<catalog, equivalence, amountVars>>

(* A mutant of PointingAt: what the service itself looks at.                  *)
PointingAtWhenActive(r) == ActiveIn(r)

(* What a foreign key ties to a rubro, discontinued products included.        *)
PointingAt(r) == {c \in KnownProducts : catalog[c].rubro = r}

(* The service refuses while active products or a form point at it, and the   *)
(* database while anything does.                                              *)
DeleteCategory(r) ==
    /\ r \in Listed
    /\ ActiveIn(r) = {} /\ equivalence # r
    /\ PointingAt(r) = {}
    /\ rubros' = [rubros EXCEPT ![r] = Deleted]
    /\ UNCHANGED <<catalog, equivalence, amountVars>>

-------------------------------------------------------------------------------
(* The products and their rubros. *)

(* form: its category came written; byHand, byForm: who classified it.        *)
ProductWith(form, fromRule) ==
    [active |-> TRUE, rubro |-> 0, form |-> form, byHand |-> FALSE, byForm |-> FALSE,
     fromRule |-> fromRule]

Classified(product, form) ==
    IF ~form \/ product.byHand \/ equivalence = 0 THEN [product EXCEPT !.form = form]
    ELSE [product EXCEPT !.form = form, !.rubro = equivalence, !.byForm = TRUE]

(* The row of one product in a price list; only the first list brings in what *)
(* nobody knew.                                                               *)
ListBrings(code, form) ==
    /\ code \in KnownProducts \/ KnownProducts = {}
    /\ LET product == IF code \in KnownProducts THEN catalog[code]
                      ELSE ProductWith(form, FALSE)
       IN  catalog' = [catalog EXCEPT ![code] = Classified(product, form)]
    /\ UNCHANGED <<rubros, equivalence, amountVars>>

(* A person's answer about an unknown product, remembered as a rule or not.   *)
IncorporateProduct(code, remembered) ==
    /\ code \notin KnownProducts
    /\ catalog' = [catalog EXCEPT ![code] = ProductWith(FALSE, remembered)]
    /\ UNCHANGED <<rubros, equivalence, amountVars>>

(* The rule is revoked: what it brought in goes, with its prices.             *)
UndoRule(code) ==
    /\ code \in KnownProducts /\ catalog[code].fromRule
    /\ catalog[code].active
    /\ catalog' = [catalog EXCEPT ![code] = NoProduct]
    /\ UNCHANGED <<rubros, equivalence, amountVars>>

Discontinue(code) ==
    /\ code \in KnownProducts
    /\ catalog' = [catalog EXCEPT ![code].active = FALSE]
    /\ UNCHANGED <<rubros, equivalence, amountVars>>
KeepActive(code) ==
    /\ code \in KnownProducts
    /\ catalog' = [catalog EXCEPT ![code].active = TRUE]
    /\ UNCHANGED <<rubros, equivalence, amountVars>>

SetProductCategory(code, r) ==
    /\ code \in KnownProducts /\ r \in Listed
    /\ catalog' = [catalog EXCEPT ![code] =
          [@ EXCEPT !.rubro = r, !.byHand = TRUE, !.byForm = FALSE]]
    /\ UNCHANGED <<rubros, equivalence, amountVars>>

LearnCategoryAlias(r) ==
    /\ equivalence = 0 /\ r \in Listed
    /\ equivalence' = r
    /\ catalog' = [c \in Codes |->
          IF c \in ActiveIn(0) /\ catalog[c].form
          THEN [catalog[c] EXCEPT !.rubro = r, !.byForm = TRUE] ELSE catalog[c]]
    /\ UNCHANGED <<rubros, amountVars>>

ClassifiedByForm == {c \in KnownProducts : catalog[c].byForm}

RepointCategoryAlias(r) ==
    /\ equivalence # 0 /\ r \in Listed
    /\ equivalence' = r
    /\ catalog' = [c \in Codes |->
          IF c \in ClassifiedByForm THEN [catalog[c] EXCEPT !.rubro = r] ELSE catalog[c]]
    /\ UNCHANGED <<rubros, amountVars>>

ForgetCategoryAlias ==
    /\ equivalence # 0
    /\ equivalence' = 0
    /\ catalog' = [c \in Codes |->
          IF c \in ClassifiedByForm
          THEN [catalog[c] EXCEPT !.rubro = 0, !.byForm = FALSE] ELSE catalog[c]]
    /\ UNCHANGED <<rubros, amountVars>>

-------------------------------------------------------------------------------
(* The copies of what was bought and sold. *)

(* The portal prints a line of an order, or the order it is of moves on.      *)
PortalPrints(line, code, amount) ==
    /\ printed[line] = NotPrinted
    /\ printed' = [printed EXCEPT ![line] = [code |-> code, amount |-> amount, moved |-> FALSE]]
    /\ UNCHANGED <<rubros, catalog, equivalence, screens, typed, spend, revenue>>
MoveOn(line) ==
    /\ printed[line] # NotPrinted
    /\ printed' = [printed EXCEPT ![line].moved = TRUE]
    /\ UNCHANGED <<rubros, catalog, equivalence, screens, typed, spend, revenue>>

(* INSERT ... ON CONFLICT: a row that is there already takes the new values.  *)
Upserted(table, lines) ==
    [id \in DOMAIN table \cup DOMAIN lines |-> IF id \in DOMAIN lines THEN lines[id] ELSE table[id]]

(* A screen that was not read yet is typed whole, and each of its lines is a  *)
(* new row of staging; the lines without an amount are left out.              *)
ReadOrderScreen ==
    LET rows == SetToSeq({line \in Bought : printed[line] # NotPrinted})
        Amounted(n) == printed[rows[n]].amount # NoWorth
        lines == [id \in {typed + n : n \in {m \in DOMAIN rows : Amounted(m)}} |->
                     [code |-> printed[rows[id - typed]].code,
                      amount |-> printed[rows[id - typed]].amount]]
    IN  /\ rows # <<>>
        /\ printed \notin screens /\ Cardinality(screens) < MaxScreens
        /\ screens' = screens \cup {printed}
        /\ typed' = typed + Len(rows)
        /\ spend' = Upserted(spend, lines)
        /\ UNCHANGED <<rubros, catalog, equivalence, printed, revenue>>

(* SalesCounted: sales that stop counting, and sales that count from now on   *)
(* or whose amount was corrected.                                             *)
RecordSaleRevenue(dropped, counted) ==
    /\ revenue' = Upserted([sale \in DOMAIN revenue \ dropped |-> revenue[sale]], counted)
    /\ UNCHANGED <<rubros, catalog, equivalence, printed, screens, typed, spend>>

-------------------------------------------------------------------------------
RubrosInit ==
    /\ rubros = <<>> /\ equivalence = 0
    /\ catalog = [c \in Codes |-> NoProduct]
    /\ printed = [line \in Bought |-> NotPrinted]
    /\ screens = {} /\ typed = 0 /\ spend = <<>> /\ revenue = <<>>

PeopleSort ==
    \/ \E name \in RubroNames : CreateCategory(name)
    \/ \E r \in DOMAIN rubros :
          \/ \E name \in RubroNames : RenameCategory(r, name)
          \/ DeleteCategory(r)
          \/ LearnCategoryAlias(r)
          \/ RepointCategoryAlias(r)
          \/ \E code \in Codes : SetProductCategory(code, r)
    \/ ForgetCategoryAlias
    \/ \E code \in Codes :
          \/ \E flag \in BOOLEAN : ListBrings(code, flag) \/ IncorporateProduct(code, flag)
          \/ UndoRule(code)
          \/ Discontinue(code)
          \/ KeepActive(code)

AmountsArrive ==
    \/ \E line \in Bought :
          \/ MoveOn(line)
          \/ \E code \in Codes \cup {NoCode}, amount \in Worth \cup {NoWorth} :
                PortalPrints(line, code, amount)
    \/ ReadOrderScreen
    \/ \E dropped \in SUBSET Sold, sold \in SUBSET Sold :
          \E counted \in [sold -> [code : Codes \cup {NoCode}, amount : Worth]] :
             RecordSaleRevenue(dropped, counted)

RubrosNext == PeopleSort \/ AmountsArrive

RubrosSpec == RubrosInit /\ [][RubrosNext]_rubroVars

-------------------------------------------------------------------------------
(* Properties. *)

(* The rubros on the screen and what has none add up to all that was bought,  *)
(* to all that was sold and to all the active products: no row is lost when   *)
(* its product is unknown, discontinued or taken back by a revoked rule, and  *)
(* none keeps pointing at a rubro that was deleted (service.py:766-814,       *)
(* 860-888, repository.py:406-506).                                           *)
CutsAddUp ==
    /\ Shown(spend) = AddedUp(spend)
    /\ Shown(revenue) = AddedUp(revenue)
    /\ UNION {ActiveIn(r) : r \in Listed \cup {0}} = {c \in KnownProducts : catalog[c].active}

(* What was bought is what the orders that were read are worth, each of them  *)
(* once, however often its screen is read: "reading the same order twice has  *)
(* to leave the same total" (repository.py:383).                              *)
LinesRead == {line \in Bought : \E screen \in screens : screen[line] # NotPrinted}
AmountedLines == {line \in LinesRead : printed[line].amount # NoWorth}
SpendIsReadOnce ==
    AddedUp(spend) = SumFunction([line \in AmountedLines |-> printed[line].amount])
===============================================================================
