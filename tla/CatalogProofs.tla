---------------------------- MODULE CatalogProofs -----------------------------
(* Theorems about PriceLists, for any codes, contents and extractions: a      *)
(* document is applied once, and no row of the last list goes unanswered; and *)
(* about Prices, for any amounts, threshold and number of lists and requests: *)
(* a corrected price stands, and the curve ends at the price shown.           *)
EXTENDS PriceLists, Prices, TLAPS

-------------------------------------------------------------------------------
(* The price lists.                                                           *)

\* The part of the invariant about documents, and the part about decisions.
DocumentsInv ==
    /\ document \in [Lists -> {"NONE", "STORED", "NORMALIZED"}]
    /\ extraction \in [Extractions -> Lists \cup {NoContent}]
    /\ applied \in [Lists -> Nat]
    /\ overlapped \in BOOLEAN
    /\ HeldIsUnread /\ AppliedExactlyOnce

DecisionsTyped ==
    /\ products \subseteq [code : Codes, rule : Nat, id : Nat]
    /\ rules \subseteq [id : Nat, kind : RowKinds \cup {"MISSING_PRODUCT"}, code : Codes,
                        action : {"incorporate", "ignore", "price", "keep", "discontinue"}]
    /\ cases \subseteq CaseRows
    /\ closedBy \subseteq [case : CaseRows, rule : Nat]
    /\ lastList \in Lists \cup {NoContent}
    /\ decided \in Nat

DecisionsInv ==
    DecisionsTyped /\ RulesAreNumbered /\ RuleKnowsItsCase /\ NoRowGoesUnanswered

LEMMA TwoParts == ListsInv <=> DocumentsInv /\ DecisionsInv
  BY DEF ListsInv, ListsTypeOK, DocumentsInv, DecisionsInv, DecisionsTyped

-----------------------------------------------------------------------------
(* Documents.                                                              *)

LEMMA StoreKeepsDocuments ==
  ASSUME DocumentsInv, NEW e \in Extractions, NEW content \in Lists, Store(e, content)
  PROVE  DocumentsInv'
<1> USE DEF DocumentsInv
<1>1. /\ document' = [document EXCEPT ![content] = "STORED"]
      /\ extraction' = [extraction EXCEPT ![e] = content]
      /\ overlapped' = (overlapped \/ \E other \in Extractions : extraction[other] = content)
      /\ applied' = applied /\ document[content] # "NORMALIZED"
      /\ extraction[e] = NoContent
  BY DEF Store
<1>2. /\ document' \in [Lists -> {"NONE", "STORED", "NORMALIZED"}]
      /\ extraction' \in [Extractions -> Lists \cup {NoContent}]
      /\ applied' \in [Lists -> Nat] /\ overlapped' \in BOOLEAN
  BY <1>1
<1>3. HeldIsUnread'
  <2> SUFFICES ASSUME ~overlapped', NEW d \in Extractions, extraction'[d] # NoContent
               PROVE  /\ document'[extraction'[d]] = "STORED"
                      /\ \A other \in Extractions : extraction'[other] = extraction'[d] => other = d
    BY DEF HeldIsUnread
  <2>1. ~overlapped /\ \A other \in Extractions : extraction[other] # content
    BY <1>1
  <2>2. CASE d = e
    BY <1>1, <2>1, <2>2
  <2>3. CASE d # e
    <3>1. extraction'[d] = extraction[d] /\ extraction[d] # content /\ extraction[d] \in Lists
      BY <1>1, <2>1, <2>3
    <3>2. document'[extraction[d]] = document[extraction[d]] /\ document[extraction[d]] = "STORED"
      BY <1>1, <2>1, <3>1 DEF HeldIsUnread
    <3> QED
      BY <1>1, <2>1, <2>3, <3>1, <3>2 DEF HeldIsUnread
  <2> QED
    BY <2>2, <2>3
<1>4. AppliedExactlyOnce'
  BY <1>1 DEF AppliedExactlyOnce
<1> QED
  BY <1>2, <1>3, <1>4

LEMMA PublishKeepsDocuments ==
  ASSUME DocumentsInv, NEW e \in Extractions, Publish(e)
  PROVE  DocumentsInv'
<1> USE DEF DocumentsInv
<1> DEFINE content == extraction[e]
<1>1. content \in Lists
  BY DEF Publish
<1>2. /\ document' = [document EXCEPT ![content] = "NORMALIZED"]
      /\ applied' = [applied EXCEPT ![content] = applied[content] + 1]
      /\ extraction' = [extraction EXCEPT ![e] = NoContent]
      /\ overlapped' = overlapped /\ content # NoContent
  BY DEF Publish
<1>3. /\ document' \in [Lists -> {"NONE", "STORED", "NORMALIZED"}]
      /\ extraction' \in [Extractions -> Lists \cup {NoContent}]
      /\ applied' \in [Lists -> Nat] /\ overlapped' \in BOOLEAN
  BY <1>1, <1>2
<1>4. HeldIsUnread'
  <2> SUFFICES ASSUME ~overlapped, NEW d \in Extractions, extraction'[d] # NoContent
               PROVE  /\ document'[extraction'[d]] = "STORED"
                      /\ \A other \in Extractions : extraction'[other] = extraction'[d] => other = d
    BY <1>2 DEF HeldIsUnread
  <2>1. d # e /\ extraction'[d] = extraction[d] /\ extraction[d] \in Lists
    BY <1>2
  <2>2. extraction[d] # content /\ document[extraction[d]] = "STORED"
    BY <1>2, <2>1 DEF HeldIsUnread
  <2> QED
    BY <1>1, <1>2, <2>1, <2>2 DEF HeldIsUnread
<1>5. AppliedExactlyOnce'
  <2> SUFFICES ASSUME ~overlapped, NEW c \in Lists
               PROVE  applied'[c] = IF document'[c] = "NORMALIZED" THEN 1 ELSE 0
    BY <1>2 DEF AppliedExactlyOnce
  <2>1. document[content] = "STORED" /\ applied[content] = 0
    BY <1>1, <1>2 DEF HeldIsUnread, AppliedExactlyOnce
  <2> QED
    BY <1>1, <1>2, <2>1 DEF AppliedExactlyOnce
<1> QED
  BY <1>3, <1>4, <1>5

LEMMA CrashKeepsDocuments ==
  ASSUME DocumentsInv, NEW e \in Extractions, Crash(e)
  PROVE  DocumentsInv'
<1> USE DEF DocumentsInv
<1>1. /\ extraction' = [extraction EXCEPT ![e] = NoContent]
      /\ document' = document /\ applied' = applied /\ overlapped' = overlapped
  BY DEF Crash
<1>2. HeldIsUnread'
  BY <1>1 DEF HeldIsUnread
<1>3. AppliedExactlyOnce'
  BY <1>1 DEF AppliedExactlyOnce
<1> QED
  BY <1>1, <1>2, <1>3

LEMMA DecisionsKeepDocuments ==
  ASSUME DocumentsInv, UNCHANGED <<document, extraction, applied, overlapped>>
  PROVE  DocumentsInv'
BY DEF DocumentsInv, HeldIsUnread, AppliedExactlyOnce

LEMMA InitDocuments == ListsInit => DocumentsInv
<1> SUFFICES ASSUME ListsInit PROVE DocumentsInv
  OBVIOUS
<1>1. /\ document = [content \in Lists |-> "NONE"]
      /\ extraction = [e \in Extractions |-> NoContent]
      /\ applied = [content \in Lists |-> 0] /\ overlapped = FALSE
  BY DEF ListsInit
<1>2. HeldIsUnread
  BY <1>1 DEF HeldIsUnread
<1>3. AppliedExactlyOnce
  BY <1>1 DEF AppliedExactlyOnce
<1> QED
  BY <1>1, <1>2, <1>3 DEF DocumentsInv

LEMMA StepKeepsDocuments == DocumentsInv /\ [ListsNext]_listVars => DocumentsInv'
<1> SUFFICES ASSUME DocumentsInv, [ListsNext]_listVars PROVE DocumentsInv'
  OBVIOUS
<1>1. ASSUME NEW e \in Extractions, NEW content \in Lists, Store(e, content)
      PROVE  DocumentsInv'
  BY <1>1, StoreKeepsDocuments
<1>2. ASSUME NEW e \in Extractions, Publish(e) PROVE DocumentsInv'
  BY <1>2, PublishKeepsDocuments
<1>3. ASSUME NEW e \in Extractions, Crash(e) PROVE DocumentsInv'
  BY <1>3, CrashKeepsDocuments
<1>4. ASSUME NEW case \in cases, NEW remember \in BOOLEAN,
             \/ Incorporate(case, remember) \/ Ignore(case, remember)
             \/ GivePrice(case, remember)
             \/ \E stays \in BOOLEAN : DecideMissing(case, stays, remember)
      PROVE  DocumentsInv'
  BY <1>4, DecisionsKeepDocuments
     DEF Incorporate, Ignore, GivePrice, DecideMissing, Resolve
<1>5. ASSUME NEW rule \in rules, RevokeRule(rule) PROVE DocumentsInv'
  BY <1>5, DecisionsKeepDocuments DEF RevokeRule
<1>6. CASE UNCHANGED listVars
  BY <1>6, DecisionsKeepDocuments DEF listVars
<1> QED
  BY <1>1, <1>2, <1>3, <1>4, <1>5, <1>6 DEF ListsNext

(* Through crashes and retries, a document no two extractions held at once is *)
(* applied exactly once (portal service.py:72-92).                            *)
THEOREM DocumentsAppliedOnce == ListsSpec => []AppliedExactlyOnce
<1>1. DocumentsInv => AppliedExactlyOnce
  BY DEF DocumentsInv
<1> QED
  BY <1>1, InitDocuments, StepKeepsDocuments, PTL DEF ListsSpec

-----------------------------------------------------------------------------
(* Decisions.                                                              *)

LEMMA DecisionsUntouched ==
  ASSUME DecisionsInv, UNCHANGED <<products, rules, cases, closedBy, answered, lastList, decided>>
  PROVE  DecisionsInv'
<1>1. DecisionsTyped' /\ RulesAreNumbered' /\ RuleKnowsItsCase'
  BY DEF DecisionsInv, DecisionsTyped, RulesAreNumbered, RuleKnowsItsCase
<1>2. NoRowGoesUnanswered'
  BY DEF DecisionsInv, NoRowGoesUnanswered, Present, Priced, Known, Asked, RulesFor
<1> QED
  BY <1>1, <1>2 DEF DecisionsInv

\* A list asks about each of its rows, unless it prices it or a rule leaves it out.
LEMMA PublishKeepsDecisions ==
  ASSUME DecisionsInv, DocumentsInv, NEW e \in Extractions, Publish(e)
  PROVE  DecisionsInv'
<1>0. PICK content \in Lists : content = extraction[e]
  BY DEF Publish, DocumentsInv
<1> DEFINE unknown == Normalized(content) \ Known
           seeding == products = {}
           added == IF seeding THEN {[code |-> c, rule |-> 0, id |-> 0] : c \in unknown} ELSE {}
           missing == {p \in products : p.code \in Active \ Present(content)}
<1>1. /\ products' = products \cup added
      /\ cases' = cases
               \cup {Case("UNREADABLE_ROW", c) : c \in Quarantined(content)}
               \cup {Case("UNKNOWN_PRODUCT", c) : c \in IF seeding THEN {} ELSE unknown}
               \cup {Missing(p) : p \in missing}
      /\ lastList' = content /\ content # NoContent
      /\ rules' = rules /\ closedBy' = closedBy /\ decided' = decided /\ answered' = {}
  BY <1>0 DEF Publish
<1>2. content \in Lists /\ content \in [Codes -> RowReadings]
  BY <1>1, ListsAssumption
<1>3. unknown \subseteq Codes /\ Quarantined(content) \subseteq Codes
  BY DEF Normalized, Quarantined, Present
<1>4. DecisionsTyped /\ RulesAreNumbered /\ RuleKnowsItsCase
  BY DEF DecisionsInv
<1>5. added \subseteq [code : Codes, rule : {0}, id : {0}]
  BY <1>3
<1> HIDE DEF added
<1>6. DecisionsTyped'
  <2>1. products' \subseteq [code : Codes, rule : Nat, id : Nat]
    BY <1>1, <1>4, <1>5 DEF DecisionsTyped
  <2>2. {Missing(p) : p \in missing} \subseteq CaseRows
    BY <1>4 DEF DecisionsTyped, Missing, CaseRows
  <2>3. {Case("UNREADABLE_ROW", c) : c \in Quarantined(content)} \subseteq CaseRows
    BY <1>3 DEF Case, CaseRows, RowCases, RowKinds
  <2>4. {Case("UNKNOWN_PRODUCT", c) : c \in IF seeding THEN {} ELSE unknown} \subseteq CaseRows
    BY <1>3 DEF Case, CaseRows, RowCases, RowKinds
  <2>5. cases' \subseteq CaseRows
    BY <1>1, <1>4, <2>2, <2>3, <2>4 DEF DecisionsTyped
  <2> QED
    BY <1>1, <1>2, <1>4, <2>1, <2>5 DEF DecisionsTyped
<1>7. RulesAreNumbered'
  <2>1. \A p \in products' : p.rule <= decided
    BY <1>1, <1>4, <1>5 DEF RulesAreNumbered, DecisionsTyped
  <2> QED
    BY <1>1, <1>4, <2>1 DEF RulesAreNumbered
<1>8. RuleKnowsItsCase'
  <2>1. \A p \in added : \A r \in rules : p.rule # r.id
    BY <1>4, <1>5 DEF RulesAreNumbered, DecisionsTyped
  <2> QED
    BY <1>1, <1>4, <2>1 DEF RuleKnowsItsCase
<1>9. NoRowGoesUnanswered'
  <2> SUFFICES ASSUME NEW code \in Present(content)
               PROVE  \/ Priced(content, code)' /\ code \in Known'
                      \/ Asked("UNREADABLE_ROW", code)' \/ Asked("UNKNOWN_PRODUCT", code)'
                      \/ RulesFor("UNKNOWN_PRODUCT", code)' # {}
    BY <1>1 DEF NoRowGoesUnanswered, Present, Priced, RulesFor
  <2>1. CASE LeftOut(code)
    BY <1>1, <2>1 DEF LeftOut, RulesFor
  <2>2. CASE ~LeftOut(code) /\ ~Priced(content, code)
    BY <1>1, <2>2 DEF Quarantined, Asked
  <2>3. CASE ~LeftOut(code) /\ Priced(content, code)
    <3>1. code \in Normalized(content) /\ Priced(content, code)'
      BY <1>1, <2>3 DEF Normalized, Priced, RulesFor
    <3>2. CASE code \in Known
      BY <1>1, <3>1, <3>2 DEF Known
    <3>3. CASE code \notin Known /\ seeding
      <4>1. [code |-> code, rule |-> 0, id |-> 0] \in added
        BY <3>1, <3>3 DEF added
      <4> QED
        BY <1>1, <3>1, <4>1 DEF Known
    <3>4. CASE code \notin Known /\ ~seeding
      BY <1>1, <3>1, <3>4 DEF Asked
    <3> QED
      BY <3>2, <3>3, <3>4
  <2> QED
    BY <2>1, <2>2, <2>3
<1> QED
  BY <1>6, <1>7, <1>8, <1>9 DEF DecisionsInv

\* A decision answers its case and may add a rule under a number of its own; what it
\* adds to the catalog is the product the rule is about.
LEMMA DecisionKeepsDecisions ==
  ASSUME DecisionsInv, NEW case \in cases, NEW remember \in BOOLEAN,
         NEW action \in {"incorporate", "ignore", "price", "keep", "discontinue"},
         Resolve(case, action, remember),
         NEW added \in SUBSET [code : Codes, rule : Nat, id : Nat],
         products' = products \cup added,
         \A p \in added : /\ p.code = case.code /\ case.kind = "UNKNOWN_PRODUCT"
                          /\ p.rule = IF remember THEN decided + 1 ELSE 0
  PROVE  DecisionsInv'
<1> DEFINE id == decided + 1
           rule == [id |-> id, kind |-> case.kind, code |-> case.code, action |-> action]
<1>1. /\ decided' = id /\ cases' = cases \ {case} /\ answered' = answered \cup {case}
      /\ rules' = IF remember THEN rules \cup {rule} ELSE rules
      /\ closedBy' = IF remember THEN closedBy \cup {[case |-> case, rule |-> id]}
                     ELSE closedBy
      /\ lastList' = lastList
  BY DEF Resolve
<1>2. DecisionsTyped /\ RulesAreNumbered /\ RuleKnowsItsCase /\ decided \in Nat
  BY DEF DecisionsInv, DecisionsTyped
<1>3. /\ case \in CaseRows /\ case.code \in Codes
      /\ case.kind \in RowKinds \cup {"MISSING_PRODUCT"}
      /\ case.kind \in RowKinds => case = Case(case.kind, case.code)
  BY <1>2 DEF DecisionsTyped, CaseRows, RowCases, RowKinds, Case
<1>4. /\ rule.id = id /\ rule.kind = case.kind /\ rule.code = case.code
      /\ rule \in [id : Nat, kind : RowKinds \cup {"MISSING_PRODUCT"}, code : Codes,
                   action : {"incorporate", "ignore", "price", "keep", "discontinue"}]
  BY <1>2, <1>3
<1>5. [case |-> case, rule |-> id] \in [case : CaseRows, rule : Nat]
  BY <1>2, <1>3
<1> HIDE DEF rule
<1>6. DecisionsTyped'
  BY <1>1, <1>2, <1>4, <1>5 DEF DecisionsTyped
<1>7. /\ \A r \in rules : r.id \in Nat /\ r.id # id /\ r.id <= decided /\ r.id >= 1
      /\ \A p \in products : p.rule \in Nat /\ p.rule <= decided
  BY <1>2 DEF RulesAreNumbered, DecisionsTyped
<1>8. RulesAreNumbered'
  <2>1. \A r \in rules' : r.id \in 1 .. decided'
    BY <1>1, <1>2, <1>4, <1>7
  <2>2. \A r, other \in rules' : r.id = other.id => r = other
    BY <1>1, <1>2, <1>4, <1>7 DEF RulesAreNumbered
  <2>3. \A p \in products' : p.rule <= decided'
    BY <1>1, <1>2, <1>7
  <2> QED
    BY <2>1, <2>2, <2>3 DEF RulesAreNumbered
<1>9. RuleKnowsItsCase'
  <2>1. \A r \in rules' : r.kind \in RowKinds =>
           [case |-> Case(r.kind, r.code), rule |-> r.id] \in closedBy'
    BY <1>1, <1>2, <1>3, <1>4 DEF RuleKnowsItsCase
  <2>2. ASSUME NEW p \in products', NEW r \in rules', p.rule = r.id
        PROVE  r.kind = "UNKNOWN_PRODUCT" /\ r.code = p.code
    <3>1. CASE p \in products /\ r \in rules
      BY <1>2, <2>2, <3>1 DEF RuleKnowsItsCase
    <3>2. CASE p \in products /\ r \notin rules
      BY <1>1, <1>2, <1>4, <1>7, <2>2, <3>2
    <3>3. CASE p \notin products
      BY <1>1, <1>2, <1>4, <1>7, <2>2, <3>3
    <3> QED
      BY <3>1, <3>2, <3>3
  <2> QED
    BY <2>1, <2>2 DEF RuleKnowsItsCase
<1>10. NoRowGoesUnanswered'
  <2>1. rules \subseteq rules' /\ cases \cup answered \subseteq cases' \cup answered'
    BY <1>1
  <2>2. Known \subseteq Known'
    BY DEF Known
  <2>3. \A kind, code : RulesFor(kind, code) \subseteq RulesFor(kind, code)'
    BY <2>1 DEF RulesFor
  <2>4. \A code : Priced(lastList, code) => Priced(lastList, code)'
    BY <1>1, <2>3 DEF Priced
  <2>5. \A kind, code : Asked(kind, code) => Asked(kind, code)'
    BY <2>1 DEF Asked
  <2> QED
    BY <1>1, <2>2, <2>3, <2>4, <2>5 DEF DecisionsInv, NoRowGoesUnanswered, Present
<1> QED
  BY <1>6, <1>8, <1>9, <1>10 DEF DecisionsInv

\* A revoked rule asks its own row again, which is the only one that it answered.
LEMMA RevokeKeepsDecisions ==
  ASSUME DecisionsInv, NEW rule \in rules, RevokeRule(rule)
  PROVE  DecisionsInv'
<1> DEFINE reopened == {c.case : c \in {d \in closedBy : d.rule = rule.id}}
<1>1. /\ decided' = decided + 1 /\ rules' = rules \ {rule}
      /\ cases' = cases \cup reopened /\ answered' = answered \ reopened
      /\ closedBy' = {c \in closedBy : c.rule # rule.id}
      /\ products' = {p \in products : p.rule # rule.id \/ p.code \in discontinued}
      /\ lastList' = lastList
  BY DEF RevokeRule
<1>2. DecisionsTyped /\ RulesAreNumbered /\ RuleKnowsItsCase /\ decided \in Nat
  BY DEF DecisionsInv, DecisionsTyped
<1>3. reopened \subseteq CaseRows
  BY <1>2 DEF DecisionsTyped
<1>4. rule.kind \in RowKinds => Case(rule.kind, rule.code) \in reopened
  <2> SUFFICES ASSUME rule.kind \in RowKinds PROVE Case(rule.kind, rule.code) \in reopened
    OBVIOUS
  <2> DEFINE closed == [case |-> Case(rule.kind, rule.code), rule |-> rule.id]
  <2>1. closed \in closedBy
    BY <1>2 DEF RuleKnowsItsCase
  <2>2. closed.case = Case(rule.kind, rule.code) /\ closed.rule = rule.id
    OBVIOUS
  <2> HIDE DEF closed
  <2> QED
    BY <2>1, <2>2
<1> HIDE DEF reopened
<1>5. DecisionsTyped'
  BY <1>1, <1>2, <1>3 DEF DecisionsTyped
<1>6. RulesAreNumbered'
  <2>1. \A r \in rules' : r.id \in 1 .. decided'
    BY <1>1, <1>2 DEF RulesAreNumbered
  <2>2. \A p \in products' : p.rule <= decided'
    BY <1>1, <1>2 DEF RulesAreNumbered, DecisionsTyped
  <2> QED
    BY <1>1, <1>2, <2>1, <2>2 DEF RulesAreNumbered
<1>7. RuleKnowsItsCase'
  <2>1. \A r \in rules' : r \in rules /\ r.id # rule.id
    BY <1>1, <1>2 DEF RulesAreNumbered
  <2>2. \A r \in rules' : r.kind \in RowKinds =>
           [case |-> Case(r.kind, r.code), rule |-> r.id] \in closedBy'
    BY <1>1, <1>2, <2>1 DEF RuleKnowsItsCase
  <2> QED
    BY <1>1, <1>2, <2>1, <2>2 DEF RuleKnowsItsCase
<1>8. NoRowGoesUnanswered'
  <2> SUFFICES ASSUME lastList # NoContent, NEW code \in Present(lastList)
               PROVE  \/ Priced(lastList, code)' /\ code \in Known'
                      \/ Asked("UNREADABLE_ROW", code)' \/ Asked("UNKNOWN_PRODUCT", code)'
                      \/ RulesFor("UNKNOWN_PRODUCT", code)' # {}
    BY <1>1 DEF NoRowGoesUnanswered, Present
  <2>1. CASE rule.kind \in RowKinds /\ rule.code = code
    BY <1>1, <1>4, <2>1 DEF Asked, RowKinds
  <2>2. CASE ~(rule.kind \in RowKinds /\ rule.code = code)
    <3>1. \A kind \in RowKinds : RulesFor(kind, code)' = RulesFor(kind, code)
      BY <1>1, <2>2 DEF RulesFor
    <3>2. \A kind : Asked(kind, code) => Asked(kind, code)'
      BY <1>1 DEF Asked
    <3>3. Priced(lastList, code) => Priced(lastList, code)'
      BY <1>1, <3>1 DEF Priced, RowKinds
    <3>4. code \in Known => code \in Known'
      <4>1. \A p \in products : p.code = code => p.rule # rule.id
        BY <1>2, <2>2 DEF RuleKnowsItsCase, RowKinds
      <4> QED
        BY <1>1, <4>1 DEF Known
    <3> QED
      BY <3>1, <3>2, <3>3, <3>4 DEF DecisionsInv, NoRowGoesUnanswered, RowKinds
  <2> QED
    BY <2>1, <2>2
<1> QED
  BY <1>5, <1>6, <1>7, <1>8 DEF DecisionsInv

LEMMA InitDecisions == ListsInit => DecisionsInv
<1> SUFFICES ASSUME ListsInit PROVE DecisionsInv
  OBVIOUS
<1>1. DecisionsTyped /\ RulesAreNumbered /\ RuleKnowsItsCase
  BY DEF ListsInit, DecisionsTyped, RulesAreNumbered, RuleKnowsItsCase
<1>2. NoRowGoesUnanswered
  BY DEF ListsInit, NoRowGoesUnanswered
<1> QED
  BY <1>1, <1>2 DEF DecisionsInv

LEMMA StepKeepsDecisions == ListsInv /\ [ListsNext]_listVars => DecisionsInv'
<1> SUFFICES ASSUME DocumentsInv, DecisionsInv, [ListsNext]_listVars PROVE DecisionsInv'
  BY TwoParts
<1>1. ASSUME NEW e \in Extractions, NEW content \in Lists, Store(e, content)
      PROVE  DecisionsInv'
  BY <1>1, DecisionsUntouched DEF Store, Untouched
<1>2. ASSUME NEW e \in Extractions, Publish(e) PROVE DecisionsInv'
  BY <1>2, PublishKeepsDecisions
<1>3. ASSUME NEW e \in Extractions, Crash(e) PROVE DecisionsInv'
  BY <1>3, DecisionsUntouched DEF Crash, Untouched
<1>4. ASSUME NEW case \in cases, NEW remember \in BOOLEAN,
             NEW action \in {"ignore", "price", "keep", "discontinue"},
             Resolve(case, action, remember), products' = products
      PROVE  DecisionsInv'
  <2> DEFINE added == {}
  <2>1. /\ added \in SUBSET [code : Codes, rule : Nat, id : Nat]
        /\ products' = products \cup added
        /\ \A p \in added : /\ p.code = case.code /\ case.kind = "UNKNOWN_PRODUCT"
                            /\ p.rule = IF remember THEN decided + 1 ELSE 0
    BY <1>4
  <2> HIDE DEF added
  <2> QED
    BY <1>4, <2>1, DecisionKeepsDecisions
<1>5. ASSUME NEW case \in cases, NEW remember \in BOOLEAN, Incorporate(case, remember)
      PROVE  DecisionsInv'
  <2> DEFINE product == [code |-> case.code, id |-> decided + 1,
                         rule |-> IF remember THEN decided + 1 ELSE 0]
             added == IF case.code \in Known THEN {} ELSE {product}
  <2>1. case.code \in Codes /\ decided \in Nat
    BY DEF DecisionsInv, DecisionsTyped, CaseRows, RowCases
  <2>2. added \in SUBSET [code : Codes, rule : Nat, id : Nat]
    BY <2>1
  <2>3. /\ products' = products \cup added /\ case.kind = "UNKNOWN_PRODUCT"
        /\ Resolve(case, "incorporate", remember)
    BY <1>5 DEF Incorporate
  <2>4. \A p \in added : /\ p.code = case.code
                         /\ p.rule = IF remember THEN decided + 1 ELSE 0
    OBVIOUS
  <2> HIDE DEF added
  <2> QED
    BY <2>2, <2>3, <2>4, DecisionKeepsDecisions
<1>6. ASSUME NEW case \in cases, NEW remember \in BOOLEAN, Ignore(case, remember)
      PROVE  DecisionsInv'
  BY <1>4, <1>6 DEF Ignore
<1>7. ASSUME NEW case \in cases, NEW remember \in BOOLEAN, GivePrice(case, remember)
      PROVE  DecisionsInv'
  BY <1>4, <1>7 DEF GivePrice
<1>8. ASSUME NEW case \in cases, NEW remember \in BOOLEAN, NEW stays \in BOOLEAN,
             DecideMissing(case, stays, remember)
      PROVE  DecisionsInv'
  <2>1. Resolve(case, IF stays THEN "keep" ELSE "discontinue", remember) /\ products' = products
    BY <1>8 DEF DecideMissing
  <2> QED
    BY <1>4, <2>1
<1>9. ASSUME NEW rule \in rules, RevokeRule(rule) PROVE DecisionsInv'
  BY <1>9, RevokeKeepsDecisions
<1>10. CASE UNCHANGED listVars
  BY <1>10, DecisionsUntouched DEF listVars
<1> QED
  BY <1>1, <1>2, <1>3, <1>5, <1>6, <1>7, <1>8, <1>9, <1>10 DEF ListsNext

LEMMA ListsInvariant == ListsSpec => []ListsInv
<1>1. ListsInit => ListsInv
  BY InitDocuments, InitDecisions, TwoParts
<1>2. ListsInv /\ [ListsNext]_listVars => ListsInv'
  BY TwoParts, StepKeepsDocuments, StepKeepsDecisions DEF ListsInv, ListsTypeOK, DocumentsInv,
     DecisionsInv, DecisionsTyped
<1> QED
  BY <1>1, <1>2, PTL DEF ListsSpec

(* Typing of documents, rules, cases and products.                         *)
THEOREM ListsAreTyped == ListsSpec => []ListsTypeOK
<1>1. ListsInv => ListsTypeOK
  BY DEF ListsInv
<1> QED
  BY <1>1, ListsInvariant, PTL

(* Whatever rules come, apply and are revoked, and whatever products they       *)
(* register and take back, each row of the last list is priced, asked about,    *)
(* answered or left out by a rule (ingestion service.py:117-187).               *)
THEOREM RowsAreAnswered == ListsSpec => []NoRowGoesUnanswered
<1>1. ListsInv => NoRowGoesUnanswered
  BY DEF ListsInv
<1> QED
  BY <1>1, ListsInvariant, PTL

-------------------------------------------------------------------------------
(* The prices.                                                                *)

(* Rows, and the curve.                                                      *)

LEMMA RowsAreNotMissing ==
  /\ \A row \in PriceRows : row # NoPrice
  /\ \A c \in Corrections : c # NoCorrection /\ (InForce(c) <=> c.status # "REVERTED")
<1>1. \A row \in PriceRows : "source" \in DOMAIN row /\ "source" \notin DOMAIN NoPrice
  BY DEF PriceRows, NoPrice
<1>2. \A c \in Corrections : "status" \in DOMAIN c /\ "status" \notin DOMAIN NoCorrection
  BY DEF Corrections, NoCorrection
<1> QED
  BY <1>1, <1>2 DEF InForce

LEMMA InForceIsARow ==
  ASSUME PricesTypeOK, InForce(corr) PROVE corr \in Corrections
BY DEF PricesTypeOK, InForce

\* A point of a moment later than every other one.
LEMMA PointIsLast ==
  ASSUME PricesTypeOK, NEW amount \in Amounts, NEW moment \in Nat,
         \A point \in curve : point.at < moment,
         curve' = curve \cup {[at |-> moment, amount |-> amount]}
  PROVE  CurveEndsAt(amount)'
<1> DEFINE new == [at |-> moment, amount |-> amount]
<1>1. new.at = moment /\ new.amount = amount /\ curve' = curve \cup {new}
  OBVIOUS
<1> HIDE DEF new
<1>2. \A point \in curve : point.at \in Nat
  BY DEF PricesTypeOK
<1>3. \A point \in curve' : point.at <= moment
  BY <1>1, <1>2
<1> QED
  BY <1>1, <1>3 DEF CurveEndsAt

LEMMA RepricedRow ==
  ASSUME PricesTypeOK, NEW amount \in Amounts, NEW source \in Sources
  PROVE  Repriced(amount, source) \in PriceRows /\ Repriced(amount, source).amount = amount
<1>1. price \in PriceRows \/ price = NoPrice
  BY DEF PricesTypeOK
<1>2. price # NoPrice => /\ price.amount \in Amounts
                         /\ (amount # price.amount /\ Highlights(amount, price.amount)) \in BOOLEAN
  BY <1>1 DEF PriceRows, Highlights
<1> QED
  BY <1>2 DEF Repriced, PriceRows

\* What _register_price leaves, whatever the curve ended at.
LEMMA RegisteredRow ==
  ASSUME PricesTypeOK, PointsArePast, NEW amount \in Amounts, NEW source \in Sources,
         NEW moment \in Nat, NEW behind \in BOOLEAN, NEW top \in Nat,
         lists + hand <= top, moment <= top, Register(amount, source, moment, behind)
  PROVE  /\ price' \in PriceRows /\ price'.amount = amount
         /\ curve' \subseteq [at : Nat, amount : Amounts]
         /\ \A point \in curve' : point.at <= top
         /\ unrecorded' \in BOOLEAN /\ outrun' \in BOOLEAN
<1>1. price' \in PriceRows /\ price'.amount = amount
  BY RepricedRow DEF Register
<1>2. \A point \in curve : point.at <= top
  BY DEF PricesTypeOK, PointsArePast
<1>3. CASE amount = price.amount
  <2>1. curve' = curve /\ unrecorded' = unrecorded /\ outrun' = outrun
    BY <1>3 DEF Register, RecordPoint
  <2> QED
    BY <1>1, <1>2, <2>1 DEF PricesTypeOK
<1>4. CASE amount # price.amount
  <2> DEFINE new == [at |-> moment, amount |-> amount]
  <2>1. curve' = curve \cup {new} /\ unrecorded' = FALSE /\ outrun' = behind
    BY <1>4 DEF Register, RecordPoint
  <2>2. new \in [at : Nat, amount : Amounts] /\ new.at <= top
    OBVIOUS
  <2> HIDE DEF new
  <2> QED
    BY <1>1, <1>2, <2>1, <2>2 DEF PricesTypeOK
<1> QED
  BY <1>3, <1>4

\* What it leaves, when the curve ended at the price.
LEMMA Registered ==
  ASSUME PricesTypeOK, NEW amount \in Amounts, NEW source \in Sources,
         NEW moment \in Nat, NEW behind \in BOOLEAN,
         Register(amount, source, moment, behind),
         ~behind => \A point \in curve : point.at < moment,
         price # NoPrice /\ ~unrecorded /\ ~outrun => CurveEndsAt(price.amount)
  PROVE  ~unrecorded' /\ ~outrun' => CurveEndsAt(amount)'
<1>1. RecordPoint(amount, moment, behind)
  BY DEF Register
<1>2. CASE amount = price.amount
  <2>1. price # NoPrice
    BY <1>2, AmountsAssumption DEF NoPrice
  <2>2. curve' = curve /\ unrecorded' = unrecorded /\ outrun' = outrun
    BY <1>1, <1>2 DEF RecordPoint
  <2> QED
    BY <1>2, <2>1, <2>2 DEF CurveEndsAt
<1>3. CASE amount # price.amount
  <2>1. /\ curve' = curve \cup {[at |-> moment, amount |-> amount]}
        /\ outrun' = behind
    BY <1>1, <1>3 DEF RecordPoint
  <2> QED
    BY <2>1, PointIsLast
<1> QED
  BY <1>2, <1>3

\* What a list leaves of a product it may not write.
LEMMA SeenOrMissing ==
  ASSUME PricesTypeOK, SeenAgain \/ FlagMissing
  PROVE  /\ price' \in PriceRows \cup {NoPrice} /\ price'.amount = price.amount
         /\ price' # NoPrice <=> price # NoPrice
         /\ curve' = curve /\ unrecorded' = unrecorded /\ outrun' = outrun
<1>1. CASE price = NoPrice
  BY <1>1 DEF SeenAgain, FlagMissing
<1>2. CASE price # NoPrice
  <2>1. price \in PriceRows
    BY <1>2 DEF PricesTypeOK
  <2>2. price' \in PriceRows /\ price'.amount = price.amount
    BY <1>2, <2>1 DEF SeenAgain, FlagMissing, PriceRows
  <2> QED
    BY <1>2, <2>2, RowsAreNotMissing DEF SeenAgain, FlagMissing
<1> QED
  BY <1>1, <1>2

-----------------------------------------------------------------------------
(* A price list.                                                             *)

\* Against a correction that is the one in force, or against one that was.
LEMMA RowOverCorrection ==
  ASSUME PricesInv, NEW amount \in Amounts, NEW standing \in Corrections,
         InForce(standing), ApplyRow(amount, standing),
         Checked(standing, amount) # standing => standing.id = corr.id
  PROVE  /\ price' \in PriceRows \cup {NoPrice} /\ price'.amount = price.amount
         /\ price' # NoPrice <=> price # NoPrice
         /\ curve' = curve /\ unrecorded' = unrecorded /\ outrun' = outrun
         /\ corr' \in Corrections \cup {NoCorrection}
         /\ standing = corr =>
               /\ InForce(corr') /\ corr'.portal = corr.portal
               /\ corr'.corrected = corr.corrected
               /\ amount # corr.portal => corr'.status = "CONFLICTED" /\ corr'.conflict = amount
<1> DEFINE checked == Checked(standing, amount)
           moved == [corr EXCEPT !.status = checked.status, !.conflict = checked.conflict]
<1>1. /\ SeenAgain
      /\ corr' = IF checked = standing THEN corr ELSE moved
  BY DEF ApplyRow
<1>2. PricesTypeOK
  BY DEF PricesInv
<1>3. /\ checked \in Corrections /\ checked.portal = standing.portal
      /\ checked.status \in {"ACTIVE", "CONFLICTED"}
      /\ amount # standing.portal => checked.status = "CONFLICTED" /\ checked.conflict = amount
      /\ checked.corrected = standing.corrected
  BY RowsAreNotMissing DEF Checked, Corrections
<1> HIDE DEF checked
<1>4. CASE checked = standing
  <2>1. corr' = corr
    BY <1>1, <1>4
  <2>2. standing = corr => InForce(corr') /\ corr'.status = checked.status
                           /\ corr'.conflict = checked.conflict
    BY <1>4, <2>1
  <2> QED
    BY <1>1, <1>2, <1>3, <2>1, <2>2, SeenOrMissing DEF PricesTypeOK
<1>5. CASE checked # standing
  <2>1. standing.id = corr.id
    BY <1>5 DEF checked
  <2>2. corr \in Corrections
    BY <1>2, <2>1 DEF PricesTypeOK, Corrections, NoCorrection
  <2>3. corr' = moved
    BY <1>1, <1>5
  <2>4. /\ moved \in Corrections /\ moved.portal = corr.portal
        /\ moved.corrected = corr.corrected
        /\ moved.status = checked.status /\ moved.conflict = checked.conflict
    BY <1>3, <2>2 DEF Corrections
  <2> HIDE DEF moved
  <2>5. InForce(corr')
    BY <1>3, <2>3, <2>4, RowsAreNotMissing
  <2> QED
    BY <1>1, <1>2, <1>3, <2>3, <2>4, <2>5, SeenOrMissing
<1> QED
  BY <1>4, <1>5

LEMMA CurveStays ==
  ASSUME curve' = curve, NEW amount, CurveEndsAt(amount) PROVE CurveEndsAt(amount)'
BY DEF CurveEndsAt

\* What a list in progress is made of.
LEMMA OpenList ==
  ASSUME PricesTypeOK, list.open
  PROVE  /\ list.amount \in Amounts \cup {NoAmount}
         /\ list.standing \in Corrections \cup {NoCorrection}
         /\ list.at \in Nat \ {0} /\ list.behind \in BOOLEAN
<1>1. list # NoList
  BY DEF NoList
<1> QED
  BY <1>1 DEF PricesTypeOK

\* A request of a person moves the clock by one.
LEMMA HandMoves ==
  ASSUME PricesTypeOK, PointsArePast, ListIsLater, hand' = hand + 1, lists' = lists
  PROVE  /\ lists' \in Nat /\ hand' \in Nat /\ lists' + hand' = Now
         /\ \A point \in curve : point.at <= lists' + hand'
         /\ list' = list /\ curve' = curve => ListIsLater'
<1>1. lists \in Nat /\ hand \in Nat /\ lists' + hand' = lists + hand + 1
  BY DEF PricesTypeOK
<1>2. \A point \in curve : point.at \in Nat /\ point.at <= lists + hand
  BY DEF PricesTypeOK, PointsArePast
<1>3. list.open => list.at \in Nat
  BY OpenList
<1>4. list' = list /\ curve' = curve => ListIsLater'
  BY <1>1, <1>3 DEF ListIsLater
<1> QED
  BY <1>1, <1>2, <1>4 DEF Now

LEMMA ListKeeps ==
  ASSUME PricesInv, ApplyList PROVE PricesInv'
<1>1. PricesTypeOK /\ PointsArePast /\ ListIsLater
  BY DEF PricesInv
<1>2. /\ list.open /\ list' = NoList /\ lists' = lists /\ hand' = hand
      /\ overtaken' = (overtaken \/ (list.amount # NoAmount /\ list.standing # corr))
      /\ lastRead' = IF list.amount # NoAmount THEN list.amount ELSE lastRead
      /\ ~BreaksIndex
      /\ IF list.amount = NoAmount THEN FlagMissing ELSE ApplyRow(list.amount, list.standing)
  BY DEF ApplyList
<1>3. /\ list.amount \in Amounts \cup {NoAmount}
      /\ list.standing \in Corrections \cup {NoCorrection}
      /\ list.at \in Nat /\ list.behind \in BOOLEAN
      /\ list.at <= lists + hand /\ lists + hand \in Nat
      /\ ~list.behind => \A point \in curve : point.at < list.at
  <2>1. lists + hand \in Nat
    BY <1>1 DEF PricesTypeOK
  <2> QED
    BY <1>1, <1>2, <2>1, OpenList DEF ListIsLater
<1>4. PICK amount \in Amounts \cup {NoAmount}, standing \in Corrections \cup {NoCorrection} :
         amount = list.amount /\ standing = list.standing
  BY <1>3
<1>5. \A point \in curve : point.at <= lists' + hand'
  BY <1>1, <1>2 DEF PointsArePast, PricesTypeOK
<1>6. /\ list' \in {NoList} /\ lists' \in Nat /\ hand' \in Nat
      /\ overtaken' \in BOOLEAN /\ lastRead' \in Amounts \cup {NoAmount}
  BY <1>1, <1>2, <1>3 DEF PricesTypeOK
<1>7. ListIsLater'
  BY <1>2 DEF ListIsLater, NoList
<1>8. CASE amount = NoAmount
  <2>1. /\ FlagMissing /\ corr' = corr
        /\ overtaken' = overtaken /\ lastRead' = lastRead
    <3>1. FlagMissing /\ lastRead' = lastRead
      BY <1>2, <1>4, <1>8
    <3>2. overtaken' = (overtaken \/ FALSE)
      BY <1>2, <1>4, <1>8
    <3>3. overtaken' = overtaken
      BY <1>1, <3>2 DEF PricesTypeOK
    <3> QED
      BY <3>1, <3>3 DEF FlagMissing
  <2>2. /\ price' \in PriceRows \cup {NoPrice} /\ price'.amount = price.amount
        /\ price' # NoPrice <=> price # NoPrice
        /\ curve' = curve /\ unrecorded' = unrecorded /\ outrun' = outrun
    BY <1>1, <2>1, SeenOrMissing
  <2>3. PricesTypeOK' /\ PointsArePast'
    BY <1>1, <1>5, <1>6, <2>1, <2>2 DEF PricesTypeOK, PointsArePast
  <2>4. CorrectedPriceStands'
    BY <2>1, <2>2 DEF PricesInv, CorrectedPriceStands
  <2>5. CurveEndsAtThePrice' /\ PortalEndsTheCurve'
    BY <2>1, <2>2, CurveStays DEF PricesInv, CurveEndsAtThePrice, PortalEndsTheCurve
  <2> QED
    BY <1>7, <2>3, <2>4, <2>5 DEF PricesInv
<1>9. CASE amount # NoAmount /\ InForce(standing)
  <2>1. amount \in Amounts /\ standing \in Corrections /\ ApplyRow(amount, standing)
    BY <1>2, <1>3, <1>4, <1>9 DEF InForce
  <2>2. Checked(standing, amount) # standing => standing.id = corr.id
    BY <1>2, <1>4, <1>9 DEF BreaksIndex
  <2>3. /\ price' \in PriceRows \cup {NoPrice} /\ price'.amount = price.amount
        /\ price' # NoPrice <=> price # NoPrice
        /\ curve' = curve /\ unrecorded' = unrecorded /\ outrun' = outrun
        /\ corr' \in Corrections \cup {NoCorrection}
        /\ standing = corr =>
               /\ InForce(corr') /\ corr'.portal = corr.portal
               /\ corr'.corrected = corr.corrected
               /\ amount # corr.portal => corr'.status = "CONFLICTED" /\ corr'.conflict = amount
    BY <1>9, <2>1, <2>2, RowOverCorrection
  <2>4. PricesTypeOK' /\ PointsArePast'
    BY <1>1, <1>5, <1>6, <2>3 DEF PricesTypeOK, PointsArePast
  <2>5. ~overtaken' => ~overtaken /\ standing = corr /\ InForce(corr)
    BY <1>2, <1>4, <1>9
  <2>6. CorrectedPriceStands'
    BY <1>2, <1>4, <1>9, <2>3, <2>5 DEF PricesInv, CorrectedPriceStands
  <2>7. CurveEndsAtThePrice' /\ PortalEndsTheCurve'
    BY <2>3, <2>5, CurveStays DEF PricesInv, CurveEndsAtThePrice, PortalEndsTheCurve
  <2> QED
    BY <1>7, <2>4, <2>6, <2>7 DEF PricesInv
<1>10. CASE amount # NoAmount /\ ~InForce(standing)
  <2> DEFINE moment == list.at
             behind == list.behind
  <2>1. /\ amount \in Amounts /\ corr' = corr
        /\ Register(amount, "PORTAL", moment, behind)
    BY <1>2, <1>3, <1>4, <1>10 DEF ApplyRow
  <2>4. /\ moment \in Nat /\ behind \in BOOLEAN /\ moment <= lists + hand
        /\ lists + hand \in Nat
        /\ ~behind => \A point \in curve : point.at < moment
    BY <1>3
  <2> HIDE DEF moment, behind
  <2>5. /\ price' \in PriceRows /\ price'.amount = amount
        /\ curve' \subseteq [at : Nat, amount : Amounts]
        /\ \A point \in curve' : point.at <= lists + hand
        /\ unrecorded' \in BOOLEAN /\ outrun' \in BOOLEAN
    BY <1>1, <2>1, <2>4, RegisteredRow DEF Sources
  <2>6. PricesTypeOK' /\ PointsArePast'
    BY <1>1, <1>2, <1>6, <2>1, <2>5 DEF PricesTypeOK, PointsArePast
  <2>2. CASE overtaken \/ standing # corr
    <3>1. overtaken'
      BY <1>2, <1>4, <1>10, <2>2
    <3> QED
      BY <1>7, <2>6, <3>1 DEF PricesInv, CorrectedPriceStands, CurveEndsAtThePrice, PortalEndsTheCurve
  <2>3. CASE ~overtaken /\ standing = corr
    <3>1. price # NoPrice /\ ~unrecorded /\ ~outrun => CurveEndsAt(price.amount)
      BY <1>10, <2>3 DEF PricesInv, CurveEndsAtThePrice
    <3>2. ~unrecorded' /\ ~outrun' => CurveEndsAt(amount)'
      BY <1>1, <2>1, <2>4, <3>1, Registered DEF Sources
    <3>3. ~InForce(corr')
      BY <1>10, <2>1, <2>3
    <3> QED
      BY <1>7, <2>5, <2>6, <3>2, <3>3 DEF PricesInv, CorrectedPriceStands, CurveEndsAtThePrice, PortalEndsTheCurve
  <2> QED
    BY <2>2, <2>3
<1> QED
  BY <1>8, <1>9, <1>10

LEMMA StartAndRefuseKeep ==
  ASSUME PricesInv, RefuseList \/ \E amount \in Amounts \cup {NoAmount} : StartList(amount)
  PROVE  PricesInv'
<1>1. /\ UNCHANGED <<price, curve, corr, hand, overtaken, unrecorded, outrun, lastRead>>
      /\ lists \in Nat /\ hand \in Nat /\ lists' \in {lists, lists + 1}
      /\ \A point \in curve : point.at \in Nat /\ point.at <= lists + hand
  BY DEF PricesInv, PricesTypeOK, PointsArePast, RefuseList, StartList
<1>2. /\ list' \in [open : {TRUE}, amount : Amounts \cup {NoAmount},
                    standing : Corrections \cup {NoCorrection}, at : Nat \ {0},
                    behind : BOOLEAN] \cup {NoList}
      /\ ListIsLater'
  <2>1. corr \in Corrections \cup {NoCorrection}
    BY DEF PricesInv, PricesTypeOK
  <2>2. CASE RefuseList
    BY <2>2 DEF RefuseList, ListIsLater, NoList
  <2>3. CASE \E amount \in Amounts \cup {NoAmount} : StartList(amount)
    <3>1. PICK amount \in Amounts \cup {NoAmount} : StartList(amount)
      BY <2>3
    <3>2. /\ Now \in Nat \ {0} /\ lists' = lists + 1 /\ Now = lists + hand + 1
          /\ list' = [open |-> TRUE, amount |-> amount, standing |-> corr, at |-> Now,
                      behind |-> FALSE]
      BY <1>1, <3>1 DEF StartList, Now
    <3>3. list'.at = Now /\ Now <= lists' + hand' /\ \A point \in curve' : point.at < Now
      BY <1>1, <3>2
    <3> QED
      BY <2>1, <3>2, <3>3 DEF ListIsLater
  <2> QED
    BY <2>2, <2>3
<1>3. PricesTypeOK' /\ PointsArePast'
  <2>1. lists' \in Nat /\ \A point \in curve : point.at <= lists' + hand
    BY <1>1
  <2>2. PointsArePast'
    BY <1>1, <2>1 DEF PointsArePast
  <2> QED
    BY <1>1, <1>2, <2>1, <2>2 DEF PricesInv, PricesTypeOK
<1>4. CorrectedPriceStands'
  BY <1>1 DEF PricesInv, CorrectedPriceStands
<1>5. CurveEndsAtThePrice' /\ PortalEndsTheCurve'
  BY <1>1, CurveStays DEF PricesInv, CurveEndsAtThePrice, PortalEndsTheCurve
<1> QED
  BY <1>2, <1>3, <1>4, <1>5 DEF PricesInv

-----------------------------------------------------------------------------
(* What people do.                                                           *)

LEMMA CorrectionKeeps ==
  ASSUME PricesInv, NEW amount \in Amounts, ApplyCorrection(amount)
  PROVE  PricesInv'
<1>1. PricesTypeOK /\ PointsArePast /\ ListIsLater
  BY DEF PricesInv
<1>2. /\ price # NoPrice /\ price' = [price EXCEPT !.amount = amount]
      /\ corr' = Stored(amount) /\ lastRead' = NoAmount /\ hand' = hand + 1
      /\ unrecorded' = (unrecorded \/ ~InForce(corr'))
      /\ UNCHANGED <<curve, list, lists, overtaken, outrun>>
  BY DEF ApplyCorrection
<1>3. price \in PriceRows
  BY <1>1, <1>2 DEF PricesTypeOK
<1>4. price' \in PriceRows /\ price'.amount = amount
  BY <1>2, <1>3 DEF PriceRows
<1>5. /\ Now \in Nat \ {0} /\ lists' \in Nat /\ hand' \in Nat
      /\ \A point \in curve : point.at <= lists' + hand'
      /\ ListIsLater'
  <2>1. Now \in Nat \ {0}
    BY <1>1 DEF Now, PricesTypeOK
  <2> QED
    BY <1>1, <1>2, <2>1, HandMoves
<1>6. CASE InForce(corr)
  <2> DEFINE new == [corr EXCEPT !.corrected = amount, !.status = "ACTIVE", !.conflict = NoAmount]
  <2>1. corr \in Corrections /\ corr' = new
    BY <1>1, <1>2, <1>6, InForceIsARow DEF Stored
  <2>2. /\ new \in Corrections /\ new.corrected = amount /\ new.status = "ACTIVE"
        /\ new.portal = corr.portal
    BY <2>1 DEF Corrections
  <2> HIDE DEF new
  <2>3. corr' \in Corrections /\ corr'.corrected = amount /\ corr'.portal = corr.portal /\ InForce(corr')
    BY <2>1, <2>2, RowsAreNotMissing
  <2>4. unrecorded' \in BOOLEAN /\ (~unrecorded' => ~unrecorded)
    BY <1>2
  <2>5. PricesTypeOK' /\ PointsArePast'
    <3>1. PointsArePast'
      BY <1>2, <1>5 DEF PointsArePast
    <3> QED
      BY <1>1, <1>2, <1>4, <1>5, <2>3, <2>4, <3>1 DEF PricesTypeOK
  <2>6. CorrectedPriceStands'
    BY <1>2, <1>4, <2>3 DEF CorrectedPriceStands
  <2>7. CurveEndsAtThePrice' /\ PortalEndsTheCurve'
    BY <1>2, <1>6, <2>3, <2>4, CurveStays DEF PricesInv, CurveEndsAtThePrice, PortalEndsTheCurve
  <2> QED
    BY <1>5, <2>5, <2>6, <2>7 DEF PricesInv
<1>7. CASE ~InForce(corr) /\ price.source = "PORTAL"
  <2> DEFINE new == [id |-> Now, status |-> "ACTIVE", portal |-> price.amount,
                     corrected |-> amount, conflict |-> NoAmount]
  <2>1. corr' = new /\ price.amount \in Amounts
    BY <1>2, <1>3, <1>7 DEF Stored, PriceRows
  <2>2. /\ new \in Corrections /\ new.corrected = amount /\ new.status = "ACTIVE"
        /\ new.portal = price.amount
    BY <1>5, <2>1 DEF Corrections
  <2> HIDE DEF new
  <2>3. corr' \in Corrections /\ corr'.corrected = amount /\ corr'.portal = price.amount /\ InForce(corr')
    BY <2>1, <2>2, RowsAreNotMissing
  <2>4. unrecorded' \in BOOLEAN /\ (~unrecorded' => ~unrecorded)
    BY <1>2
  <2>5. PricesTypeOK' /\ PointsArePast'
    <3>1. PointsArePast'
      BY <1>2, <1>5 DEF PointsArePast
    <3> QED
      BY <1>1, <1>2, <1>4, <1>5, <2>3, <2>4, <3>1 DEF PricesTypeOK
  <2>6. CorrectedPriceStands'
    BY <1>2, <1>4, <2>3 DEF CorrectedPriceStands
  <2>7. CurveEndsAtThePrice' /\ PortalEndsTheCurve'
    BY <1>2, <1>7, <2>3, <2>4, CurveStays DEF PricesInv, CurveEndsAtThePrice, PortalEndsTheCurve
  <2> QED
    BY <1>5, <2>5, <2>6, <2>7 DEF PricesInv
<1>8. CASE ~InForce(corr) /\ price.source # "PORTAL"
  <2>1. corr' = corr /\ ~InForce(corr')
    BY <1>2, <1>8 DEF Stored
  <2>2. unrecorded' = TRUE
    BY <1>2, <2>1
  <2>3. PricesTypeOK' /\ PointsArePast'
    <3>1. PointsArePast'
      BY <1>2, <1>5 DEF PointsArePast
    <3> QED
      BY <1>1, <1>2, <1>4, <1>5, <2>1, <2>2, <3>1 DEF PricesTypeOK
  <2> QED
    BY <1>5, <2>1, <2>2, <2>3 DEF PricesInv, CorrectedPriceStands, CurveEndsAtThePrice, PortalEndsTheCurve
<1> QED
  BY <1>6, <1>7, <1>8

LEMMA RevertKeeps ==
  ASSUME PricesInv, RevertCorrection PROVE PricesInv'
<1> DEFINE new == [corr EXCEPT !.status = "REVERTED"]
<1>1. /\ InForce(corr) /\ price # NoPrice /\ price' = [price EXCEPT !.amount = corr.portal]
      /\ corr' = new /\ lastRead' = NoAmount /\ hand' = hand + 1
      /\ UNCHANGED <<curve, list, lists, overtaken, unrecorded, outrun>>
  BY DEF RevertCorrection
<1>2. PricesTypeOK /\ PointsArePast /\ ListIsLater /\ corr \in Corrections
  BY <1>1, InForceIsARow DEF PricesInv
<1>3. new \in Corrections /\ new.status = "REVERTED"
  BY <1>2 DEF Corrections
<1> HIDE DEF new
<1>4. ~InForce(corr')
  BY <1>1, <1>3 DEF InForce
<1>5. corr.portal \in Amounts
  BY <1>2 DEF Corrections
<1>6. price' \in PriceRows /\ price'.amount = corr.portal
  BY <1>1, <1>2, <1>5 DEF PricesTypeOK, PriceRows
<1>7. PricesTypeOK' /\ PointsArePast' /\ ListIsLater'
  <2>1. /\ lists' \in Nat /\ hand' \in Nat
        /\ \A point \in curve : point.at <= lists' + hand'
        /\ ListIsLater'
    BY <1>1, <1>2, HandMoves
  <2>2. PointsArePast'
    BY <1>1, <2>1 DEF PointsArePast
  <2> QED
    BY <1>1, <1>2, <1>3, <1>6, <2>1, <2>2 DEF PricesTypeOK
<1>8. CurveEndsAtThePrice'
  <2>1. ~overtaken /\ ~unrecorded /\ ~outrun => CurveEndsAt(corr.portal)
    BY <1>1 DEF PricesInv, PortalEndsTheCurve
  <2>2. PICK amount : amount = corr.portal
    OBVIOUS
  <2> QED
    BY <1>1, <1>6, <2>1, <2>2, CurveStays DEF CurveEndsAtThePrice
<1> QED
  BY <1>4, <1>7, <1>8 DEF PricesInv, CorrectedPriceStands, PortalEndsTheCurve

LEMMA SetPriceKeeps ==
  ASSUME PricesInv, NEW amount \in Amounts, SetPrice(amount)
  PROVE  PricesInv'
<1>1. PricesTypeOK /\ PointsArePast /\ ListIsLater
  BY DEF PricesInv
<1>2. /\ IF InForce(corr) THEN SeenAgain ELSE Register(amount, "SYSTEM", Now, FALSE)
      /\ list' = IF list.open THEN [list EXCEPT !.behind = TRUE] ELSE list
      /\ hand' = hand + 1
      /\ UNCHANGED <<corr, lists, overtaken, lastRead>>
  BY DEF SetPrice
<1>3. /\ lists' \in Nat /\ hand' \in Nat /\ lists' + hand' = Now /\ Now \in Nat
      /\ lists + hand < Now
      /\ \A point \in curve : point.at < Now
  BY <1>1, <1>2 DEF PricesTypeOK, PointsArePast, Now
<1>4. /\ list' \in [open : {TRUE}, amount : Amounts \cup {NoAmount},
                    standing : Corrections \cup {NoCorrection}, at : Nat \ {0},
                    behind : BOOLEAN] \cup {NoList}
      /\ ListIsLater'
  <2>1. CASE list = NoList
    BY <1>2, <2>1 DEF NoList, ListIsLater
  <2>2. CASE list # NoList
    <3> DEFINE marked == [list EXCEPT !.behind = TRUE]
    <3>1. list.open /\ list' = marked /\ list.at \in Nat /\ list.at <= lists + hand
      BY <1>1, <1>2, <2>2 DEF PricesTypeOK, ListIsLater
    <3>2. /\ marked \in [open : {TRUE}, amount : Amounts \cup {NoAmount},
                    standing : Corrections \cup {NoCorrection}, at : Nat \ {0},
                    behind : BOOLEAN]
          /\ marked.behind /\ marked.at = list.at
      BY <1>1, <2>2 DEF PricesTypeOK
    <3> HIDE DEF marked
    <3>3. lists + hand \in Nat /\ lists + hand < Now /\ Now \in Nat /\ Now = lists' + hand'
      <4>1. lists \in Nat /\ hand \in Nat
        BY <1>1 DEF PricesTypeOK
      <4>2. lists + hand \in Nat
        BY <4>1
      <4> QED
        BY <1>3, <4>2
    <3>4. list'.behind /\ list'.at <= lists' + hand'
      <4>1. list'.behind /\ list'.at = list.at
        BY <3>1, <3>2
      <4>2. list.at <= Now
        BY <3>1, <3>3
      <4> QED
        BY <3>3, <4>1, <4>2
    <3>5. ListIsLater'
      BY <3>4 DEF ListIsLater
    <3> QED
      BY <3>1, <3>2, <3>5
  <2> QED
    BY <2>1, <2>2
<1>5. CASE InForce(corr)
  <2>1. SeenAgain
    BY <1>2, <1>5
  <2>2. /\ price' \in PriceRows \cup {NoPrice} /\ price'.amount = price.amount
        /\ price' # NoPrice <=> price # NoPrice
        /\ curve' = curve /\ unrecorded' = unrecorded /\ outrun' = outrun
    BY <1>1, <2>1, SeenOrMissing
  <2>3. PricesTypeOK' /\ PointsArePast'
    <3>1. PointsArePast'
      <4>1. \A point \in curve : point.at \in Nat /\ point.at <= Now
        BY <1>1, <1>3 DEF PricesTypeOK
      <4> QED
        BY <1>3, <2>2, <4>1 DEF PointsArePast
    <3> QED
      BY <1>1, <1>2, <1>3, <1>4, <2>2, <3>1 DEF PricesTypeOK
  <2>4. CorrectedPriceStands'
    BY <1>2, <2>2 DEF PricesInv, CorrectedPriceStands
  <2>5. CurveEndsAtThePrice' /\ PortalEndsTheCurve'
    BY <1>2, <2>2, CurveStays DEF PricesInv, CurveEndsAtThePrice, PortalEndsTheCurve
  <2> QED
    BY <1>4, <2>3, <2>4, <2>5 DEF PricesInv
<1>6. CASE ~InForce(corr)
  <2>1. Register(amount, "SYSTEM", Now, FALSE)
    BY <1>2, <1>6
  <2>2. /\ price' \in PriceRows /\ price'.amount = amount
        /\ curve' \subseteq [at : Nat, amount : Amounts]
        /\ \A point \in curve' : point.at <= Now
        /\ unrecorded' \in BOOLEAN /\ outrun' \in BOOLEAN
    <3>1. lists + hand <= Now /\ Now <= Now
      BY <1>1, <1>3 DEF PricesTypeOK
    <3> QED
      BY <1>1, <1>3, <2>1, <3>1, RegisteredRow DEF Sources
  <2>3. PricesTypeOK' /\ PointsArePast'
    <3>1. PointsArePast'
      BY <1>3, <2>2 DEF PointsArePast
    <3> QED
      BY <1>1, <1>2, <1>3, <1>4, <2>2, <3>1 DEF PricesTypeOK
  <2>4. ~InForce(corr')
    BY <1>2, <1>6
  <2>5. CASE overtaken
    BY <1>2, <1>4, <2>3, <2>4, <2>5
       DEF PricesInv, CorrectedPriceStands, CurveEndsAtThePrice, PortalEndsTheCurve
  <2>6. CASE ~overtaken
    <3>1. price # NoPrice /\ ~unrecorded /\ ~outrun => CurveEndsAt(price.amount)
      BY <1>6, <2>6 DEF PricesInv, CurveEndsAtThePrice
    <3>2. ~unrecorded' /\ ~outrun' => CurveEndsAt(amount)'
      BY <1>1, <1>3, <2>1, <3>1, Registered DEF Sources
    <3> QED
      BY <1>4, <2>2, <2>3, <2>4, <3>2
         DEF PricesInv, CorrectedPriceStands, CurveEndsAtThePrice, PortalEndsTheCurve
  <2> QED
    BY <2>5, <2>6
<1> QED
  BY <1>5, <1>6

LEMMA ImportKeeps ==
  ASSUME PricesInv, NEW amount \in Amounts, ImportPublishedHistory(amount)
  PROVE  PricesInv'
<1> DEFINE old == [at |-> 0, amount |-> amount]
<1>1. /\ curve' = curve \cup {old}
      /\ UNCHANGED <<price, corr, list, lists, hand, overtaken, unrecorded, outrun,
                     lastRead>>
  BY DEF ImportPublishedHistory
<1>2. old \in [at : Nat, amount : Amounts] /\ old.at = 0
  OBVIOUS
<1> HIDE DEF old
<1>3. PricesTypeOK /\ PointsArePast /\ ListIsLater
  BY DEF PricesInv
<1>4. PricesTypeOK' /\ PointsArePast' /\ ListIsLater'
  <2>1. lists \in Nat /\ hand \in Nat /\ 0 <= lists + hand
    BY <1>3 DEF PricesTypeOK
  <2>2. \A point \in curve' : point.at <= lists + hand
    BY <1>1, <1>2, <1>3, <2>1 DEF PointsArePast
  <2>3. PointsArePast'
    BY <1>1, <2>2 DEF PointsArePast
  <2>4. curve' \subseteq [at : Nat, amount : Amounts]
    BY <1>1, <1>2, <1>3 DEF PricesTypeOK
  <2>5. list.open => list.at \in Nat \ {0}
    BY <1>3, OpenList
  <2>6. ListIsLater'
    BY <1>1, <1>2, <1>3, <2>5 DEF ListIsLater
  <2> QED
    BY <1>1, <1>3, <2>3, <2>4, <2>6 DEF PricesTypeOK
<1>5. ASSUME NEW shown, CurveEndsAt(shown) PROVE CurveEndsAt(shown)'
  <2>1. PICK last \in curve : last.amount = shown /\ \A point \in curve : point.at <= last.at
    BY <1>5 DEF CurveEndsAt
  <2>2. last.at \in Nat /\ last \in curve'
    BY <1>1, <1>3 DEF PricesTypeOK
  <2>3. \A point \in curve' : point.at <= last.at
    BY <1>1, <1>2, <2>1, <2>2
  <2> QED
    BY <2>1, <2>2, <2>3 DEF CurveEndsAt
<1>6. CorrectedPriceStands'
  BY <1>1 DEF PricesInv, CorrectedPriceStands
<1>7. CurveEndsAtThePrice' /\ PortalEndsTheCurve'
  BY <1>1, <1>5 DEF PricesInv, CurveEndsAtThePrice, PortalEndsTheCurve
<1> QED
  BY <1>4, <1>6, <1>7 DEF PricesInv

-----------------------------------------------------------------------------
LEMMA PricesStart == PricesInit => PricesInv
<1> SUFFICES ASSUME PricesInit PROVE PricesInv
  OBVIOUS
<1>1. PricesTypeOK
  BY DEF PricesInit, PricesTypeOK
<1>2. ~InForce(corr) /\ price = NoPrice /\ curve = {} /\ ~list.open
  BY DEF PricesInit, InForce, NoList
<1> QED
  BY <1>1, <1>2 DEF PricesInv, PointsArePast, ListIsLater, CorrectedPriceStands,
                    CurveEndsAtThePrice, PortalEndsTheCurve

LEMMA PricesSteps == PricesInv /\ [PricesNext]_pricesVars => PricesInv'
<1> SUFFICES ASSUME PricesInv, [PricesNext]_pricesVars PROVE PricesInv'
  OBVIOUS
<1>1. CASE PricesNext
  BY <1>1, StartAndRefuseKeep, ListKeeps, CorrectionKeeps, RevertKeeps, SetPriceKeeps, ImportKeeps
     DEF PricesNext
<1>2. CASE UNCHANGED pricesVars
  <2>1. UNCHANGED <<price, curve, corr, list, lists, hand, overtaken, unrecorded, outrun,
                   lastRead>>
    BY <1>2 DEF pricesVars
  <2> QED
    BY <2>1 DEF PricesInv, PricesTypeOK, PointsArePast, ListIsLater, CorrectedPriceStands,
                CurveEndsAtThePrice, PortalEndsTheCurve, CurveEndsAt
<1> QED
  BY <1>1, <1>2

LEMMA PricesInvariant == PricesSpec => []PricesInv
  BY PricesStart, PricesSteps, PTL DEF PricesSpec

(* A corrected price is the one shown, and its conflict the last value the      *)
(* portal informed, for any lists, amounts and requests, until a list is        *)
(* applied against corrections it read too early (service.py:1387-1442,         *)
(* 1894-1969).                                                                  *)
THEOREM CorrectedPricesStand == PricesSpec => []CorrectedPriceStands
<1>1. PricesInv => CorrectedPriceStands
  BY DEF PricesInv
<1> QED
  BY <1>1, PricesInvariant, PTL

(* The curve ends at the price shown: what a correction hides and its undoing   *)
(* brings back is its last point (service.py:1986, 2022), until a list is       *)
(* applied against corrections it read too early; and but for a loaded price    *)
(* that was corrected, or one loaded while a list that changes it was applied,  *)
(* until the next point.                                                        *)
THEOREM CurvesEndAtThePrice == PricesSpec => []CurveEndsAtThePrice
<1>1. PricesInv => CurveEndsAtThePrice
  BY DEF PricesInv
<1> QED
  BY <1>1, PricesInvariant, PTL
===============================================================================
