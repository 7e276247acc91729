---------------------------- MODULE Equivalences ----------------------------
(***************************************************************************)
(* What a written form of a category means: learned equivalences.          *)
(*                                                                         *)
(* A price list brings products with their category as the supplier wrote  *)
(* it.  `catalog` looks the form up in its projection of the equivalences  *)
(* (core.category_alias); a form without one opens a case in the queue of  *)
(* `triage`.  The rubro a person answers becomes a rule, the rule becomes  *)
(* an alias, and the alias classifies.  A rule can be pointed at another   *)
(* rubro or revoked, and a product can be classified by hand.              *)
(*                                                                         *)
(* Each request and each list is a transaction in READ COMMITTED.  It is   *)
(* two steps: what the code reads first, and then everything else up to    *)
(* the commit.  A list carries from one to the other the products and the  *)
(* aliases it read, a person's request only the case or the rule it found  *)
(* acceptable.  An UPDATE writes the attributes that differ from what the  *)
(* transaction read, in the row as it is when it commits.                  *)
(***************************************************************************)
EXTENDS Naturals, FiniteSets

CONSTANTS
    Forms,      \* written forms, as they arrive (stripped)
    Keys,       \* what collapse_written_form makes of them
    KeyOf,      \* collapse_written_form
    Seeded,     \* the forms the migration seeds, rule by rule
    Products,   \* the active products of the catalog
    Rubros,     \* the rubros of the business
    People,     \* requests of people that can be under way at once
    MaxCases,   \* bound: cases of one form
    MaxRules,   \* bound: rules in the history
    MaxLists,   \* bound: price lists
    None,       \* SQL's NULL: no category in the row, no rubro
    NotListed   \* the list does not bring this product

NoRule == 0
RuleIds == 1 .. MaxRules
Cases == Forms \X (1 .. MaxCases)

ASSUME KeysAssumption == KeyOf \in [Forms -> Keys]
ASSUME MarksAssumption ==
    /\ {None, NotListed} \cap (Forms \cup Rubros) = {}
    /\ None # NotListed
ASSUME BoundsAssumption == {MaxCases, MaxRules, MaxLists} \subseteq Nat

\* The migration skips a form whose key it has already seeded.
ASSUME SeedsAssumption ==
    /\ Seeded \in [DOMAIN Seeded -> Forms] /\ DOMAIN Seeded \subseteq RuleIds
    /\ \A n, q \in DOMAIN Seeded : KeyOf[Seeded[n]] = KeyOf[Seeded[q]] => n = q

SeededKeys == {KeyOf[Seeded[n]] : n \in DOMAIN Seeded}

VARIABLES
    cases,    \* operations.exception_case of kind unknown_category
    rules,    \* operations.resolution_rule of that kind
    alias,    \* core.category_alias, by text_normalized
    product,  \* core.product: its category as it came, its rubro, and why
    doing,    \* where the request of each person is
    list,     \* the price list being applied, with what it read
    lists,    \* price lists so far
    decided   \* history: the rubro each product was last given by hand

db == <<cases, rules, alias, product>>
vars == <<cases, rules, alias, product, doing, list, lists, decided>>

-----------------------------------------------------------------------------
NoAlias == [rubro |-> None, rule |-> NoRule, text |-> None]
Aliases == [rubro : Rubros, rule : RuleIds \cup {NoRule}, text : Forms]
Product == [raw : Forms \cup {None}, rubro : Rubros \cup {None},
            byUser : BOOLEAN, rule : RuleIds \cup {NoRule}]

Idle == [op |-> "idle"]
NoList == [rows |-> [p \in Products |-> NotListed],
           seen |-> [p \in Products |-> None],
           known |-> [k \in Keys |-> NoAlias]]

PendingAt(cs, f) == \E n \in 1 .. MaxCases : cs[<<f, n>>].status = "PENDING"

\* The row an INSERT of a case of this form takes.
IsNext(cs, c) ==
    /\ cs[c].status = "absent"
    /\ c[2] = CHOOSE n \in 1 .. MaxCases : cs[<<c[1], n>>].status = "absent"

\* TriageRepository.open_case: the form already pending counts one more time.
Opened(cs, forms) ==
    [c \in Cases |->
        IF c[1] \in forms /\ IsNext(cs, c) /\ ~PendingAt(cs, c[1])
        THEN [status |-> "PENDING", rule |-> NoRule] ELSE cs[c]]

\* Bound: there is a row left for each case to open.
Room(cs, forms) == \A f \in forms :
    PendingAt(cs, f) \/ \E n \in 1 .. MaxCases : cs[<<f, n>>].status = "absent"

\* _seed: a rule of nobody and its alias, for each form of the signed table.
SeedOf(k, meant) ==
    LET n == CHOOSE q \in DOMAIN Seeded : KeyOf[Seeded[q]] = k IN
    [rubro |-> meant[n], rule |-> n, text |-> Seeded[n]]

Init ==
    /\ cases = [c \in Cases |-> [status |-> "absent", rule |-> NoRule]]
    /\ \E meant \in [DOMAIN Seeded -> Rubros] :
          /\ rules = [r \in RuleIds |->
                 IF r \in DOMAIN Seeded THEN [state |-> "in_force", rubro |-> meant[r]]
                 ELSE [state |-> "absent", rubro |-> None]]
          /\ alias = [k \in Keys |->
                 IF k \in SeededKeys THEN SeedOf(k, meant) ELSE NoAlias]
    /\ product = [p \in Products |->
           [raw |-> None, rubro |-> None, byUser |-> FALSE, rule |-> NoRule]]
    /\ doing = [u \in People |-> Idle]
    /\ list = NoList
    /\ lists = 0
    /\ decided = [p \in Products |-> None]

-----------------------------------------------------------------------------
(* A price list (CatalogService.apply_price_batch, what is about rubros).  *)

Applying == \E p \in Products : list.rows[p] # NotListed

ListRead(rows) ==
    /\ ~Applying /\ lists < MaxLists
    /\ \E p \in Products : rows[p] # NotListed
    /\ list' = [rows |-> rows, seen |-> product, known |-> alias]
    /\ lists' = lists + 1
    /\ UNCHANGED <<db, doing, decided>>

Meaning(p) == list.known[KeyOf[list.rows[p]]]

\* The rows _classify goes on with: a form, and nobody's decision by hand.
Matched(p) == list.rows[p] \in Forms /\ ~list.seen[p].byUser

\* An attribute is written when it is not what the transaction read.
Written(now, read, new) == IF new = read THEN now ELSE new

Classify(p) ==
    IF list.rows[p] = NotListed THEN product[p]
    ELSE IF Matched(p) /\ Meaning(p) # NoAlias
    THEN [product[p] EXCEPT
            !.raw = list.rows[p],
            !.rubro = Written(@, list.seen[p].rubro, Meaning(p).rubro),
            !.rule = Written(@, list.seen[p].rule, Meaning(p).rule)]
    ELSE [product[p] EXCEPT !.raw = list.rows[p]]

Unresolved == {list.rows[p] : p \in {q \in Products : Matched(q) /\ Meaning(q) = NoAlias}}

ListCommit ==
    /\ Applying
    /\ Room(cases, Unresolved)
    /\ product' = [p \in Products |-> Classify(p)]
    /\ cases' = Opened(cases, Unresolved)
    /\ list' = NoList
    /\ UNCHANGED <<rules, alias, doing, lists, decided>>

ListRollback ==
    /\ Applying
    /\ list' = NoList
    /\ UNCHANGED <<db, doing, lists, decided>>

-----------------------------------------------------------------------------
(* A person answers a case (TriageService.resolve).                        *)

TakeCase(u, c) ==
    /\ doing[u] = Idle
    /\ cases[c].status = "PENDING"
    /\ doing' = [doing EXCEPT ![u] = [op |-> "resolve", case |-> c]]
    /\ UNCHANGED <<db, list, lists, decided>>

IsNextRule(r) ==
    /\ rules[r].state = "absent"
    /\ \A q \in RuleIds : q < r => rules[q].state # "absent"

\* CatalogService.learn_category_alias, on the products nobody classified.
Learned(k, rubro, r) ==
    [p \in Products |->
        IF product[p].rubro = None /\ product[p].raw \in Forms /\ KeyOf[product[p].raw] = k
        THEN [product[p] EXCEPT !.rubro = rubro, !.rule = r] ELSE product[p]]

\* Slip: a rubro that is not there only warns, and the case is closed all the same.
AnswerWithoutRubro(u, rubro, r) ==
    /\ cases' = [cases EXCEPT ![doing[u].case] = [status |-> "RESOLVED", rule |-> r]]
    /\ doing' = [doing EXCEPT ![u] = Idle]
    /\ UNCHANGED <<alias, product, list, lists, decided>>

\* The case, the alias and the products; r is NoRule when it is not to be kept.
Answer(u, rubro, r) ==
    LET c == doing[u].case  k == KeyOf[c[1]] IN
    /\ cases' = [cases EXCEPT ![c] = [status |-> "RESOLVED", rule |-> r]]
    /\ alias' = [alias EXCEPT ![k] = [rubro |-> rubro, rule |-> r, text |-> c[1]]]
    /\ product' = Learned(k, rubro, r)
    /\ doing' = [doing EXCEPT ![u] = Idle]
    /\ UNCHANGED <<list, lists, decided>>

Resolve(u, rubro) ==
    /\ doing[u].op = "resolve"
    /\ \E r \in RuleIds :
          /\ IsNextRule(r)
          /\ rules' = [rules EXCEPT ![r] = [state |-> "in_force", rubro |-> rubro]]
          /\ Answer(u, rubro, r)

ResolveOnce(u, rubro) ==
    /\ doing[u].op = "resolve"
    /\ Answer(u, rubro, NoRule)
    /\ UNCHANGED rules

-----------------------------------------------------------------------------
(* A person revokes a rule or points it at another rubro.                  *)

TakeRule(u, r, op) ==
    /\ doing[u] = Idle
    /\ rules[r].state = "in_force"
    /\ doing' = [doing EXCEPT ![u] = [op |-> op, rule |-> r, was |-> rules[r].rubro]]
    /\ UNCHANGED <<db, list, lists, decided>>

\* Slip: a revocation leaves the cases the rule had closed as they are.
ReopensNothing(r) == cases

\* TriageRepository.reopen_by_rule
Reopened(r) ==
    [c \in Cases |->
        IF cases[c] = [status |-> "RESOLVED", rule |-> r]
        THEN [status |-> "PENDING", rule |-> NoRule] ELSE cases[c]]

\* uq_exception_pending_fingerprint
OnePendingEach(cs) ==
    \A c, d \in Cases : c[1] = d[1] /\ cs[c].status = "PENDING" /\ cs[d].status = "PENDING" => c = d

\* Slip: the products the person classified, in the place of those of the rule.
ClassifiedByPeople(r) == {p \in Products : product[p].rule = r /\ product[p].byUser}

ClassifiedBy(r) == {p \in Products : product[p].rule = r}

\* Slip: the handler returns when no product has to go back.
ProjectionsInUse(r) ==
    {k \in Keys : alias[k] # NoAlias /\ alias[k].rule = r /\ ClassifiedBy(r) # {}}

\* CatalogRepository.alias_by_rule
Projections(r) == {k \in Keys : alias[k] # NoAlias /\ alias[k].rule = r}

Revoke(u) ==
    LET r == doing[u].rule
        projected == Projections(r)
        back == IF ClassifiedBy(r) # {} THEN {alias[k].text : k \in projected} ELSE {} IN
    /\ doing[u].op = "revoke"
    /\ OnePendingEach(Reopened(r))
    /\ Room(Reopened(r), back)
    /\ rules' = [rules EXCEPT ![r].state = "revoked"]
    /\ cases' = Opened(Reopened(r), back)
    /\ alias' = [k \in Keys |-> IF k \in projected THEN NoAlias ELSE alias[k]]
    /\ product' = [p \in Products |->
           IF projected # {} /\ product[p].rule = r
           THEN [product[p] EXCEPT !.rubro = None, !.rule = NoRule] ELSE product[p]]
    /\ doing' = [doing EXCEPT ![u] = Idle]
    /\ UNCHANGED <<list, lists, decided>>

Redecide(u, rubro) ==
    LET r == doing[u].rule IN
    /\ doing[u].op = "redecide"
    /\ rules' = [rules EXCEPT ![r].rubro = Written(@, doing[u].was, rubro)]
    /\ alias' = [k \in Keys |->
           IF k \in Projections(r) THEN [alias[k] EXCEPT !.rubro = rubro] ELSE alias[k]]
    /\ product' = [p \in Products |->
           IF Projections(r) # {} /\ product[p].rule = r
           THEN [product[p] EXCEPT !.rubro = rubro] ELSE product[p]]
    /\ doing' = [doing EXCEPT ![u] = Idle]
    /\ UNCHANGED <<cases, list, lists, decided>>

\* An error on the way, the unique index among them: nothing of it remains.
Rollback(u) ==
    /\ doing[u] # Idle
    /\ doing' = [doing EXCEPT ![u] = Idle]
    /\ UNCHANGED <<db, list, lists, decided>>

\* CatalogService.set_product_category
ClassifyByHand(p, rubro) ==
    /\ product' = [product EXCEPT ![p] =
           [@ EXCEPT !.rubro = rubro, !.byUser = TRUE, !.rule = NoRule]]
    /\ decided' = [decided EXCEPT ![p] = rubro]
    /\ UNCHANGED <<cases, rules, alias, doing, list, lists>>

-----------------------------------------------------------------------------
List == ListCommit \/ ListRollback
        \/ \E rows \in [Products -> Forms \cup {None, NotListed}] : ListRead(rows)
Request(u) ==
    \/ \E c \in Cases : TakeCase(u, c)
    \/ \E r \in RuleIds, op \in {"revoke", "redecide"} : TakeRule(u, r, op)
    \/ \E rubro \in Rubros : Resolve(u, rubro) \/ ResolveOnce(u, rubro) \/ Redecide(u, rubro)
    \/ Revoke(u)
    \/ Rollback(u)
Next ==
    \/ List
    \/ \E u \in People : Request(u)
    \/ \E p \in Products, rubro \in Rubros : ClassifyByHand(p, rubro)

Spec == Init /\ [][Next]_vars

-----------------------------------------------------------------------------
(* Properties.                                                             *)

CaseTyped == cases \in [Cases -> [status : {"absent", "PENDING", "RESOLVED"},
                                  rule : RuleIds \cup {NoRule}]]
RulesTyped == rules \in [RuleIds -> [state : {"absent", "in_force", "revoked"},
                                     rubro : Rubros \cup {None}]]
RequestsTyped == doing \in [People ->
    {Idle} \cup [op : {"resolve"}, case : Cases]
           \cup [op : {"revoke", "redecide"}, rule : RuleIds, was : Rubros \cup {None}]]
ListTyped ==
    /\ list.rows \in [Products -> Forms \cup {None, NotListed}]
    /\ list.known \in [Keys -> Aliases \cup {NoAlias}]
    /\ Applying => list.seen \in [Products -> Product]

\* The type of every variable.
TypeOK ==
    /\ CaseTyped /\ RulesTyped /\ RequestsTyped /\ ListTyped
    /\ alias \in [Keys -> Aliases \cup {NoAlias}]
    /\ product \in [Products -> Product]
    /\ lists \in 0 .. MaxLists
    /\ decided \in [Products -> Rubros \cup {None}]

InForce(r) == rules[r].state = "in_force"

Waiting(k) == \E c \in Cases : cases[c].status = "PENDING" /\ KeyOf[c[1]] = k

\* Somebody is being asked about the form, or somebody answered.
Answered(k) == Waiting(k) \/ alias[k] # NoAlias

\* RF-21 and RF-31 of 008 (Artículo II): the form of a product nobody classified
\* by hand is either in front of a person or known, whatever lists, answers,
\* corrections and revocations overlap.  It is never just missing.
NothingLost ==
    \A p \in Products :
        product[p].raw \in Forms /\ ~product[p].byUser /\ KeyOf[product[p].raw] \notin SeededKeys =>
            Answered(KeyOf[product[p].raw])

\* RF-31 of 008, of the forms the system came with, whose equivalences no case closed:
\* whatever lists and answers overlap, nobody takes such an equivalence over, so its
\* revocation finds it and sends back what it was resolving, with somebody asked
\* (catalog service.py:1055-1088).
RevokedSeedsGoBack ==
    [][\A n \in DOMAIN Seeded : InForce(n) /\ ~InForce(n)' =>
           \A p \in Products : product[p].rule = n =>
               /\ product'[p].rubro = None /\ product'[p].rule = NoRule
               /\ Waiting(KeyOf[Seeded[n]])']_vars

\* RF-37 of 001: no case stays closed by a decision that was revoked.
CaseFollowsRule ==
    \A c \in Cases : cases[c].rule # NoRule =>
        cases[c].status = "RESOLVED" /\ InForce(cases[c].rule)

\* RF-30 of 008: no list is classified with an equivalence whose rule was revoked,
\* beyond the one that had already read it.
AliasFollowsRule == \A k \in Keys : alias[k].rule # NoRule => InForce(alias[k].rule)

\* An alias of a rule has the case that rule closed, the one its revocation reopens.
AliasHasItsCase ==
    \A k \in Keys \ SeededKeys : alias[k].rule # NoRule =>
        \E c \in Cases : KeyOf[c[1]] = k /\ cases[c].status = "RESOLVED"
                                         /\ cases[c].rule = alias[k].rule

\* What the list read as known is still known or asked about when it commits.
ListIsAnswered == \A k \in Keys \ SeededKeys : list.known[k] # NoAlias => Answered(k)

\* A decision by hand the list saw is still there.
HandsStay == Applying => \A p \in Products : list.seen[p].byUser => product[p].byUser

\* Why: while its rule is in force a seeded form is known by it alone, no case of it was
\* ever opened, and the list being applied knows it.
SeedKnown(n) ==
    LET k == KeyOf[Seeded[n]] IN
    /\ rules[n].state # "absent"
    /\ InForce(n) =>
          /\ alias[k].rule = n
          /\ \A c \in Cases : KeyOf[c[1]] = k => cases[c].status = "absent"
          /\ Applying => list.known[k] # NoAlias
SeedsAreKnown ==
    /\ \A n \in DOMAIN Seeded : SeedKnown(n)
    /\ \A k \in Keys : alias[k] # NoAlias => KeyOf[alias[k].text] = k
    /\ \A u \in People : doing[u].op = "resolve" => cases[doing[u].case].status # "absent"

\* The inductive invariant.
IInv == /\ TypeOK /\ CaseFollowsRule /\ AliasFollowsRule /\ AliasHasItsCase
        /\ ListIsAnswered /\ HandsStay /\ NothingLost

\* RF-31 of 008: what a rule classified goes back to the queue when it is revoked,
\* so no product keeps the rubro of a rule without effect.
ProductFollowsRule == \A p \in Products : product[p].rule # NoRule => InForce(product[p].rule)

\* «What somebody decided by hand is never overwritten by an equivalence».
HandDecisionStands ==
    \A p \in Products : decided[p] # None => product[p].rubro = decided[p]
==============================================================================
