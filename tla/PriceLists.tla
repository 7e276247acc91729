----------------------------- MODULE PriceLists -----------------------------
(***************************************************************************)
(* How a price list gets from the portal to the catalog: portal keeps the  *)
(* document and reports it, ingestion reads its rows and applies the rules *)
(* people left, catalog takes the rows it can and triage asks about the    *)
(* rest.                                                                   *)
(*                                                                         *)
(* An extraction is two transactions.  The first keeps the document; the   *)
(* second publishes it, and the bus runs every listener inside it, so the  *)
(* staging rows, the prices, the cases and the mark that the document was  *)
(* read are committed together.  A worker can die, or a second extraction  *)
(* start, between the two.                                                 *)
(*                                                                         *)
(* A list is what it says of each code: a price, something unreadable, or  *)
(* nothing.  Prices themselves are in module Prices.                       *)
(***************************************************************************)
EXTENDS Naturals, FiniteSets

CONSTANTS
    Codes,        \* product codes
    Lists,        \* contents the portal can publish: [Codes -> RowReadings]
    Extractions,  \* extractions that may be running
    NoContent,       \* no content
    MaxAnswers  \* bound: decisions and revocations

RowReadings == {"READABLE", "UNREADABLE", "ABSENT"}
ASSUME ListsAssumption == Lists \subseteq [Codes -> RowReadings] /\ NoContent \notin Lists

VARIABLES
    document,     \* raw.portal_document, by content: NONE, STORED, NORMALIZED
    extraction,   \* the content each extraction has stored and not yet published
    applied,      \* how many times each content was published and committed
    overlapped,   \* two extractions held the same content at once
    products,     \* products catalog knows: [code, the rule that registered it, id]
    discontinued, \* those somebody discontinued
    rules,        \* the rules in force: ingestion's projection of triage's
    cases,        \* triage: pending cases [kind, code], and the id of a missing product
    closedBy,     \* triage: cases closed under a rule in force
    answered,     \* cases somebody decided since the last list
    lastList,     \* the content applied last
    decided       \* decisions so far, which number the rules

listVars == <<document, extraction, applied, overlapped, products, discontinued,
              rules, cases, closedBy, answered, lastList, decided>>

(***************************************************************************)
(* What is known when a list is read.                                      *)
(***************************************************************************)
Known == {p.code : p \in products}
Active == Known \ discontinued
Case(kind, code) == [kind |-> kind, code |-> code]
\* A missing product is asked about as that product, and not as whoever has its code.
Missing(p) == [kind |-> "MISSING_PRODUCT", code |-> p.code, id |-> p.id]

\* _rules_by_code: the newest rule of a kind about a code.
RulesFor(kind, code) == {r \in rules : r.kind = kind /\ r.code = code}
RuleFor(kind, code) == CHOOSE r \in RulesFor(kind, code) :
                           \A other \in RulesFor(kind, code) : other.id <= r.id

LeftOut(code) ==
    /\ RulesFor("UNKNOWN_PRODUCT", code) # {}
    /\ RuleFor("UNKNOWN_PRODUCT", code).action = "ignore"

\* _apply_unreadable_rule gives the row the price a person gave it.
Priced(content, code) ==
    \/ content[code] = "READABLE"
    \/ content[code] = "UNREADABLE" /\ RulesFor("UNREADABLE_ROW", code) # {}

Present(content) == {code \in Codes : content[code] # "ABSENT"}

\* normalize_price_list: the rows handed to catalog and the ones asked about.
Normalized(content) ==
    {code \in Present(content) : ~LeftOut(code) /\ Priced(content, code)}
\* A mutant: only the rows of products that exist are asked about.
QuarantinedOfKnown(content) ==
    {code \in Present(content) \cap Known : ~LeftOut(code) /\ ~Priced(content, code)}

Quarantined(content) ==
    {code \in Present(content) : ~LeftOut(code) /\ ~Priced(content, code)}

(***************************************************************************)
(* An extraction.                                                          *)
(***************************************************************************)
Untouched == UNCHANGED <<products, discontinued, rules, cases, closedBy, answered,
                         lastList, decided>>

\* Download, hash, and keep the document; a content already read is left at that.
\* A mutant: a content already read is kept and published again.
StoreAgain(e, content) ==
    /\ extraction[e] = NoContent
    /\ document' = [document EXCEPT ![content] = "STORED"]
    /\ overlapped' = (overlapped \/ \E other \in Extractions : extraction[other] = content)
    /\ extraction' = [extraction EXCEPT ![e] = content]
    /\ UNCHANGED applied
    /\ Untouched

Store(e, content) ==
    /\ extraction[e] = NoContent
    /\ document[content] # "NORMALIZED"
    /\ document' = [document EXCEPT ![content] = "STORED"]
    /\ overlapped' = (overlapped \/ \E other \in Extractions : extraction[other] = content)
    /\ extraction' = [extraction EXCEPT ![e] = content]
    /\ UNCHANGED applied
    /\ Untouched

\* apply_price_batch over the products: the first list of all seeds the catalog, and
\* later ones ask about the products they bring for the first time.
Publish(e) ==
    LET content == extraction[e]
        unknown == Normalized(content) \ Known
        seeding == products = {}
        added == IF seeding THEN {[code |-> c, rule |-> 0, id |-> 0] : c \in unknown} ELSE {}
        missing == {p \in products : p.code \in Active \ Present(content)}
    IN  /\ content # NoContent
        /\ products' = products \cup added
        /\ cases' = cases
               \cup {Case("UNREADABLE_ROW", c) : c \in Quarantined(content)}
               \cup {Case("UNKNOWN_PRODUCT", c) : c \in IF seeding THEN {} ELSE unknown}
               \cup {Missing(p) : p \in missing}
        /\ document' = [document EXCEPT ![content] = "NORMALIZED"]
        /\ applied' = [applied EXCEPT ![content] = @ + 1]
        /\ lastList' = content
        /\ answered' = {}
        /\ extraction' = [extraction EXCEPT ![e] = NoContent]
        /\ UNCHANGED <<overlapped, discontinued, rules, closedBy, decided>>

\* The worker dies, or the transaction fails: what it had not committed is undone.
Crash(e) ==
    /\ extraction[e] # NoContent
    /\ extraction' = [extraction EXCEPT ![e] = NoContent]
    /\ UNCHANGED <<document, applied, overlapped>>
    /\ Untouched

(***************************************************************************)
(* Decisions over the cases.                                               *)
(***************************************************************************)
\* resolve: the case closes, the decision may become a rule, and the listeners of
\* catalog and ingestion act on it in the same transaction.
Resolve(case, action, remember) ==
    LET id == decided + 1
        rule == [id |-> id, kind |-> case.kind, code |-> case.code, action |-> action]
    IN  /\ decided < MaxAnswers
        /\ case \in cases
        /\ decided' = id
        /\ cases' = cases \ {case}
        /\ answered' = answered \cup {case}
        /\ rules' = IF remember THEN rules \cup {rule} ELSE rules
        /\ closedBy' = IF remember THEN closedBy \cup {[case |-> case, rule |-> id]}
                       ELSE closedBy
        /\ UNCHANGED <<document, extraction, applied, overlapped, lastList>>

\* incorporate_product, which a product already there makes a no-op.
Incorporate(case, remember) ==
    /\ case.kind = "UNKNOWN_PRODUCT"
    /\ Resolve(case, "incorporate", remember)
    /\ products' = IF case.code \in Known THEN products
                   ELSE products \cup {[code |-> case.code, id |-> decided + 1,
                                        rule |-> IF remember THEN decided + 1 ELSE 0]}
    /\ UNCHANGED discontinued

Ignore(case, remember) ==
    /\ case.kind = "UNKNOWN_PRODUCT"
    /\ Resolve(case, "ignore", remember)
    /\ UNCHANGED <<products, discontinued>>

\* set_price_by_code refuses a product that does not exist, and the case stays.
GivePrice(case, remember) ==
    /\ case.kind = "UNREADABLE_ROW"
    /\ case.code \in Known
    /\ Resolve(case, "price", remember)
    /\ UNCHANGED <<products, discontinued>>

\* discontinue and keep_active, which refuse a product that is no longer there.
DecideMissing(case, stays, remember) ==
    /\ case.kind = "MISSING_PRODUCT"
    /\ \E p \in products : Missing(p) = case
    /\ Resolve(case, IF stays THEN "keep" ELSE "discontinue", remember)
    /\ discontinued' = IF stays THEN discontinued \ {case.code}
                       ELSE discontinued \cup {case.code}
    /\ UNCHANGED products

\* revoke_rule: its cases are pending again, unless one of them already is, which
\* refuses it; the products it registered go, those that are active.
RevokeRule(rule) ==
    LET reopened == {c.case : c \in {d \in closedBy : d.rule = rule.id}}
    IN  /\ decided < MaxAnswers
        /\ reopened \cap cases = {}
        /\ decided' = decided + 1
        /\ rules' = rules \ {rule}
        /\ cases' = cases \cup reopened
        /\ closedBy' = {c \in closedBy : c.rule # rule.id}
        /\ products' = {p \in products : p.rule # rule.id \/ p.code \in discontinued}
        /\ answered' = answered \ reopened
        /\ UNCHANGED <<document, extraction, applied, overlapped, discontinued, lastList>>

(***************************************************************************)
(* The specification.                                                      *)
(***************************************************************************)
ListsInit ==
    /\ document = [content \in Lists |-> "NONE"]
    /\ extraction = [e \in Extractions |-> NoContent]
    /\ applied = [content \in Lists |-> 0]
    /\ overlapped = FALSE
    /\ products = {} /\ discontinued = {} /\ rules = {}
    /\ cases = {} /\ closedBy = {} /\ answered = {}
    /\ lastList = NoContent /\ decided = 0

ListsNext ==
    \/ \E e \in Extractions :
          \/ \E content \in Lists : Store(e, content)
          \/ Publish(e)
          \/ Crash(e)
    \/ \E case \in cases, remember \in BOOLEAN :
          \/ Incorporate(case, remember)
          \/ Ignore(case, remember)
          \/ GivePrice(case, remember)
          \/ \E stays \in BOOLEAN : DecideMissing(case, stays, remember)
    \/ \E rule \in rules : RevokeRule(rule)

ListsSpec == ListsInit /\ [][ListsNext]_listVars

(***************************************************************************)
(* Properties.                                                             *)
(***************************************************************************)
\* Through crashes and retries a document is applied exactly once, and marked as read
\* exactly when it was applied (portal service.py:72-92); two extractions that hold
\* the same document at once are the exception.
AppliedExactlyOnce ==
    ~overlapped => \A content \in Lists :
                       applied[content] = IF document[content] = "NORMALIZED" THEN 1 ELSE 0

\* A question about a code waits, or was answered since the last list.
Asked(kind, code) == Case(kind, code) \in cases \cup answered

\* A row of the last list that can be priced, as it came or by a rule, is of a product the
\* catalog has; any other row is a question that waits, something a person answered, or
\* left out by a rule: no rule that comes, applies or is revoked makes it disappear
\* (ingestion service.py:117-187, triage service.py:481-501).
NoRowGoesUnanswered ==
    lastList # NoContent =>
        \A code \in Present(lastList) :
            \/ Priced(lastList, code) /\ code \in Known
            \/ Asked("UNREADABLE_ROW", code)
            \/ Asked("UNKNOWN_PRODUCT", code)
            \/ RulesFor("UNKNOWN_PRODUCT", code) # {}

(***************************************************************************)
(* The inductive invariant.                                                *)
(***************************************************************************)
RowKinds == {"UNREADABLE_ROW", "UNKNOWN_PRODUCT"}
RowCases == [kind : RowKinds, code : Codes]
CaseRows == RowCases \cup [kind : {"MISSING_PRODUCT"}, code : Codes, id : Nat]
ListsTypeOK ==
    /\ document \in [Lists -> {"NONE", "STORED", "NORMALIZED"}]
    /\ extraction \in [Extractions -> Lists \cup {NoContent}]
    /\ applied \in [Lists -> Nat]
    /\ overlapped \in BOOLEAN
    /\ products \subseteq [code : Codes, rule : Nat, id : Nat]
    /\ rules \subseteq [id : Nat, kind : RowKinds \cup {"MISSING_PRODUCT"}, code : Codes,
                        action : {"incorporate", "ignore", "price", "keep", "discontinue"}]
    /\ cases \subseteq CaseRows
    /\ closedBy \subseteq [case : CaseRows, rule : Nat]
    /\ lastList \in Lists \cup {NoContent}
    /\ decided \in Nat

\* What an extraction holds was stored and not read, and while none overlapped another,
\* nobody else holds it.
HeldIsUnread ==
    ~overlapped =>
        \A e \in Extractions : extraction[e] # NoContent =>
            /\ document[extraction[e]] = "STORED"
            /\ \A other \in Extractions : extraction[other] = extraction[e] => other = e

\* Each decision has a number of its own.
RulesAreNumbered ==
    /\ \A r \in rules : r.id \in 1 .. decided
    /\ \A r, other \in rules : r.id = other.id => r = other
    /\ \A p \in products : p.rule <= decided

\* What a rule in force answered is what its revocation asks about again: the row it
\* prices or leaves out, and the product it registered.
RuleKnowsItsCase ==
    /\ \A r \in rules : r.kind \in RowKinds =>
          [case |-> Case(r.kind, r.code), rule |-> r.id] \in closedBy
    /\ \A p \in products : \A r \in rules : p.rule = r.id =>
          r.kind = "UNKNOWN_PRODUCT" /\ r.code = p.code

ListsInv == /\ ListsTypeOK /\ HeldIsUnread /\ RulesAreNumbered /\ RuleKnowsItsCase
            /\ AppliedExactlyOnce /\ NoRowGoesUnanswered
=============================================================================
