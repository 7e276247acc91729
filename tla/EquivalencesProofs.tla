------------------------ MODULE EquivalencesProofs ------------------------
(***************************************************************************)
(* Theorems about Equivalences, for every set of forms, products, rubros   *)
(* and people and every value of the bounds: no case stays closed by a     *)
(* revoked rule, no alias follows one, and no written form is lost.        *)
(***************************************************************************)
EXTENDS Equivalences, TLAPS

CaseRow == [status : {"absent", "PENDING", "RESOLVED"}, rule : RuleIds \cup {NoRule}]
AliasRow == Aliases \cup {NoAlias}

-----------------------------------------------------------------------------
(* What the helpers return.                                                *)

\* An alias is never taken for the absence of one: it has the form it came from.
LEMMA AliasIsSome == \A a \in Aliases : a # NoAlias
  BY MarksAssumption DEF Aliases, NoAlias

LEMMA OpenedType ==
  ASSUME NEW cs \in [Cases -> CaseRow], NEW forms
  PROVE  /\ Opened(cs, forms) \in [Cases -> CaseRow]
         /\ \A c \in Cases : cs[c].status # "absent" => Opened(cs, forms)[c] = cs[c]
         /\ \A c \in Cases : Opened(cs, forms)[c].rule # NoRule => Opened(cs, forms)[c] = cs[c]
<1>1. [status |-> "PENDING", rule |-> NoRule] \in CaseRow
  BY DEF CaseRow
<1> QED
  BY <1>1 DEF Opened, IsNext

\* A form that is to be opened, and has room, is pending afterwards.
LEMMA OpenedAsks ==
  ASSUME NEW cs \in [Cases -> CaseRow], NEW forms \in SUBSET Forms,
         Room(cs, forms), NEW f \in forms
  PROVE  \E c \in Cases : c[1] = f /\ Opened(cs, forms)[c].status = "PENDING"
<1>1. CASE PendingAt(cs, f)
  <2>1. PICK n \in 1 .. MaxCases : cs[<<f, n>>].status = "PENDING"
    BY <1>1 DEF PendingAt
  <2>2. <<f, n>> \in Cases /\ <<f, n>>[1] = f
    BY DEF Cases
  <2>3. Opened(cs, forms)[<<f, n>>] = cs[<<f, n>>]
    BY <2>1, <2>2, OpenedType
  <2> QED
    BY <2>1, <2>2, <2>3
<1>2. CASE ~PendingAt(cs, f)
  <2> DEFINE m == CHOOSE n \in 1 .. MaxCases : cs[<<f, n>>].status = "absent"
  <2>1. \E n \in 1 .. MaxCases : cs[<<f, n>>].status = "absent"
    BY <1>2 DEF Room
  <2>2. m \in 1 .. MaxCases /\ cs[<<f, m>>].status = "absent"
    BY <2>1
  <2>3. <<f, m>> \in Cases /\ <<f, m>>[1] = f /\ <<f, m>>[2] = m
    BY <2>2 DEF Cases
  <2> HIDE DEF m
  <2>4. IsNext(cs, <<f, m>>)
    BY <2>2, <2>3 DEF IsNext, m
  <2>5. Opened(cs, forms)[<<f, m>>] = [status |-> "PENDING", rule |-> NoRule]
    BY <1>2, <2>3, <2>4 DEF Opened
  <2> QED
    BY <2>3, <2>5
<1> QED
  BY <1>1, <1>2

LEMMA ReopenedType ==
  ASSUME cases \in [Cases -> CaseRow], NEW r \in RuleIds
  PROVE  /\ Reopened(r) \in [Cases -> CaseRow]
         /\ \A c \in Cases : cases[c].rule # r => Reopened(r)[c] = cases[c]
         /\ \A c \in Cases : cases[c].status # "RESOLVED" => Reopened(r)[c] = cases[c]
         /\ \A c \in Cases : cases[c].status = "RESOLVED" /\ cases[c].rule = r =>
               Reopened(r)[c] = [status |-> "PENDING", rule |-> NoRule]
<1>1. [status |-> "PENDING", rule |-> NoRule] \in CaseRow
  BY DEF CaseRow
<1>2. \A c \in Cases : cases[c].status = "RESOLVED" /\ cases[c].rule = r =>
          cases[c] = [status |-> "RESOLVED", rule |-> r]
  BY DEF CaseRow
<1> QED
  BY <1>1, <1>2 DEF Reopened

\* What a request carries, by what it is doing.
LEMMA RequestShape ==
  ASSUME TypeOK, NEW u \in People
  PROVE  /\ doing[u].op = "resolve" => doing[u].case \in Cases /\ doing[u].case[1] \in Forms
         /\ doing[u].op \in {"revoke", "redecide"} =>
               doing[u].rule \in RuleIds /\ doing[u].was \in Rubros \cup {None}
<1>1. \/ doing[u] = Idle
      \/ doing[u] \in [op : {"resolve"}, case : Cases]
      \/ doing[u] \in [op : {"revoke", "redecide"}, rule : RuleIds, was : Rubros \cup {None}]
  BY DEF TypeOK, RequestsTyped
<1>2. CASE doing[u] = Idle
  BY <1>2 DEF Idle
<1>3. CASE doing[u] \in [op : {"resolve"}, case : Cases]
  BY <1>3 DEF Cases
<1>4. CASE doing[u] \in [op : {"revoke", "redecide"}, rule : RuleIds, was : Rubros \cup {None}]
  BY <1>4
<1> QED
  BY <1>1, <1>2, <1>3, <1>4

LEMMA MeaningType == ASSUME TypeOK, NEW p \in Products, list.rows[p] \in Forms
                     PROVE  Meaning(p) \in AliasRow
  BY KeysAssumption DEF TypeOK, ListTyped, Meaning, AliasRow

LEMMA ClassifyType ==
  ASSUME TypeOK, Applying, NEW p \in Products
  PROVE  /\ Classify(p) \in Product
         /\ Classify(p).byUser = product[p].byUser
         /\ list.rows[p] = NotListed => Classify(p).raw = product[p].raw
         /\ list.rows[p] # NotListed => Classify(p).raw = list.rows[p]
<1>1. product[p] \in Product /\ list.seen[p] \in Product
  BY DEF TypeOK, ListTyped
<1>2. list.rows[p] \in Forms \cup {None, NotListed}
  BY DEF TypeOK, ListTyped
<1>3. CASE list.rows[p] = NotListed
  BY <1>1, <1>3 DEF Classify
<1>4. CASE list.rows[p] # NotListed /\ Matched(p) /\ Meaning(p) # NoAlias
  <2>1. Meaning(p) \in Aliases
    BY <1>4, MeaningType DEF Matched, AliasRow
  <2>2. Written(product[p].rubro, list.seen[p].rubro, Meaning(p).rubro) \in Rubros \cup {None}
    BY <1>1, <2>1 DEF Written, Aliases, Product
  <2>3. Written(product[p].rule, list.seen[p].rule, Meaning(p).rule) \in RuleIds \cup {NoRule}
    BY <1>1, <2>1 DEF Written, Aliases, Product
  <2>4. Classify(p) = [product[p] EXCEPT
            !.raw = list.rows[p],
            !.rubro = Written(product[p].rubro, list.seen[p].rubro, Meaning(p).rubro),
            !.rule = Written(product[p].rule, list.seen[p].rule, Meaning(p).rule)]
    BY <1>4 DEF Classify
  <2> QED
    BY <1>1, <1>2, <1>4, <2>2, <2>3, <2>4 DEF Product
<1>5. CASE list.rows[p] # NotListed /\ ~(Matched(p) /\ Meaning(p) # NoAlias)
  <2>1. Classify(p) = [product[p] EXCEPT !.raw = list.rows[p]]
    BY <1>5 DEF Classify
  <2> QED
    BY <1>1, <1>2, <1>5, <2>1 DEF Product
<1> QED
  BY <1>3, <1>4, <1>5

-----------------------------------------------------------------------------
(* Types.                                                                  *)

\* What the migration seeds is a rule in force and its alias.
LEMMA SeedsAreAliases ==
  ASSUME NEW meant \in [DOMAIN Seeded -> Rubros], NEW k \in SeededKeys
  PROVE  SeedOf(k, meant) \in Aliases /\ SeedOf(k, meant).rule \in DOMAIN Seeded
<1> DEFINE n == CHOOSE q \in DOMAIN Seeded : KeyOf[Seeded[q]] = k
<1>1. n \in DOMAIN Seeded
  BY DEF SeededKeys
<1>2. meant[n] \in Rubros /\ Seeded[n] \in Forms /\ n \in RuleIds
  BY <1>1, SeedsAssumption
<1> HIDE DEF n
<1>3. [rubro |-> meant[n], rule |-> n, text |-> Seeded[n]] \in Aliases
  BY <1>2 DEF Aliases
<1> QED
  BY <1>1, <1>3 DEF SeedOf, n

LEMMA TypeOKInit == Init => TypeOK
<1> SUFFICES ASSUME Init PROVE TypeOK
  OBVIOUS
<1>0. PICK meant \in [DOMAIN Seeded -> Rubros] :
          /\ rules = [r \in RuleIds |->
                 IF r \in DOMAIN Seeded THEN [state |-> "in_force", rubro |-> meant[r]]
                 ELSE [state |-> "absent", rubro |-> None]]
          /\ alias = [k \in Keys |->
                 IF k \in SeededKeys THEN SeedOf(k, meant) ELSE NoAlias]
  BY DEF Init
<1>1. CaseTyped /\ RequestsTyped
  BY DEF Init, NoRule, CaseTyped, RequestsTyped
<1>2. RulesTyped
  BY <1>0 DEF RulesTyped
<1>3. alias \in [Keys -> Aliases \cup {NoAlias}]
  BY <1>0, SeedsAreAliases
<1>4. ListTyped
  BY DEF Init, ListTyped, NoList, Applying
<1>5. lists \in 0 .. MaxLists
  BY BoundsAssumption DEF Init
<1> QED
  BY <1>1, <1>2, <1>3, <1>4, <1>5 DEF TypeOK, Init, Product, NoRule

\* The list and what it read only change at its own steps.
LEMMA ListTypedKept == ListTyped /\ UNCHANGED list => ListTyped'
  BY DEF ListTyped, Applying

LEMMA AnswerType ==
  ASSUME TypeOK, NEW u \in People, doing[u].op = "resolve", NEW rubro \in Rubros,
         NEW r \in RuleIds \cup {NoRule}, Answer(u, rubro, r), RulesTyped'
  PROVE  TypeOK'
<1>1. doing[u].case \in Cases /\ doing[u].case[1] \in Forms
  BY RequestShape
<1>2. CaseTyped'
  BY DEF TypeOK, CaseTyped, Answer
<1>3. alias' \in [Keys -> Aliases \cup {NoAlias}]
  <2>1. [rubro |-> rubro, rule |-> r, text |-> doing[u].case[1]] \in Aliases
    BY <1>1 DEF Aliases
  <2> QED
    BY <2>1 DEF TypeOK, Answer
<1>4. product' \in [Products -> Product]
  <2>1. \A p \in Products : [product[p] EXCEPT !.rubro = rubro, !.rule = r] \in Product
    BY DEF TypeOK, Product
  <2> QED
    BY <2>1 DEF TypeOK, Answer, Learned
<1>5. RequestsTyped'
  BY DEF TypeOK, RequestsTyped, Answer
<1> QED
  BY <1>2, <1>3, <1>4, <1>5, ListTypedKept DEF TypeOK, Answer

LEMMA RevokeType ==
  ASSUME TypeOK, NEW u \in People, Revoke(u)
  PROVE  TypeOK'
<1> DEFINE r == doing[u].rule
<1>1. r \in RuleIds
  BY RequestShape DEF Revoke
<1>2. CaseTyped'
  BY <1>1, ReopenedType, OpenedType DEF TypeOK, CaseTyped, CaseRow, Revoke
<1>3. RulesTyped'
  BY <1>1 DEF TypeOK, RulesTyped, Revoke
<1>4. alias' \in [Keys -> Aliases \cup {NoAlias}]
  BY DEF TypeOK, Revoke
<1>5. product' \in [Products -> Product]
  <2>1. \A p \in Products : [product[p] EXCEPT !.rubro = None, !.rule = NoRule] \in Product
    BY DEF TypeOK, Product
  <2> QED
    BY <2>1 DEF TypeOK, Revoke
<1>6. RequestsTyped'
  BY DEF TypeOK, RequestsTyped, Revoke
<1> QED
  BY <1>2, <1>3, <1>4, <1>5, <1>6, ListTypedKept DEF TypeOK, Revoke

LEMMA RedecideType ==
  ASSUME TypeOK, NEW u \in People, NEW rubro \in Rubros, Redecide(u, rubro)
  PROVE  TypeOK'
<1>1. doing[u].rule \in RuleIds /\ doing[u].was \in Rubros \cup {None}
  BY RequestShape DEF Redecide
<1>2. RulesTyped'
  BY <1>1 DEF TypeOK, RulesTyped, Redecide, Written
<1>3. alias' \in [Keys -> Aliases \cup {NoAlias}]
  <2>1. \A k \in Keys : alias[k] # NoAlias => [alias[k] EXCEPT !.rubro = rubro] \in Aliases
    BY DEF TypeOK, Aliases
  <2> QED
    BY <2>1 DEF TypeOK, Redecide, Projections
<1>4. product' \in [Products -> Product]
  <2>1. \A p \in Products : [product[p] EXCEPT !.rubro = rubro] \in Product
    BY DEF TypeOK, Product
  <2> QED
    BY <2>1 DEF TypeOK, Redecide
<1>5. RequestsTyped' /\ CaseTyped'
  BY DEF TypeOK, RequestsTyped, CaseTyped, Redecide
<1> QED
  BY <1>2, <1>3, <1>4, <1>5, ListTypedKept DEF TypeOK, Redecide

LEMMA TypeOKStep == TypeOK /\ [Next]_vars => TypeOK'
<1> SUFFICES ASSUME TypeOK, [Next]_vars PROVE TypeOK'
  OBVIOUS
<1>1. ASSUME NEW rows \in [Products -> Forms \cup {None, NotListed}], ListRead(rows)
      PROVE  TypeOK'
  <2>1. ListTyped'
    BY <1>1 DEF TypeOK, ListTyped, ListRead, Applying
  <2>2. lists' \in 0 .. MaxLists
    BY <1>1, BoundsAssumption DEF TypeOK, ListRead
  <2> QED
    BY <1>1, <2>1, <2>2 DEF TypeOK, ListRead, db, CaseTyped, RulesTyped, RequestsTyped
<1>2. CASE ListCommit
  <2>1. CaseTyped'
    BY <1>2, OpenedType DEF TypeOK, CaseTyped, CaseRow, ListCommit
  <2>2. product' \in [Products -> Product]
    BY <1>2, ClassifyType DEF TypeOK, ListCommit
  <2>3. ListTyped'
    BY <1>2 DEF ListCommit, ListTyped, NoList, Applying
  <2> QED
    BY <1>2, <2>1, <2>2, <2>3 DEF TypeOK, ListCommit, RulesTyped, RequestsTyped
<1>3. CASE ListRollback
  <2>1. ListTyped'
    BY <1>3 DEF ListRollback, ListTyped, NoList, Applying
  <2> QED
    BY <1>3, <2>1 DEF TypeOK, ListRollback, db, CaseTyped, RulesTyped, RequestsTyped
<1>4. ASSUME NEW u \in People, NEW c \in Cases, TakeCase(u, c)
      PROVE  TypeOK'
  <2>1. RequestsTyped'
    BY <1>4 DEF TypeOK, RequestsTyped, TakeCase
  <2> QED
    BY <1>4, <2>1, ListTypedKept DEF TypeOK, TakeCase, db, CaseTyped, RulesTyped
<1>5. ASSUME NEW u \in People, NEW r \in RuleIds, NEW op \in {"revoke", "redecide"},
             TakeRule(u, r, op)
      PROVE  TypeOK'
  <2>1. rules[r].rubro \in Rubros \cup {None}
    BY DEF TypeOK, RulesTyped
  <2>2. RequestsTyped'
    BY <1>5, <2>1 DEF TypeOK, RequestsTyped, TakeRule
  <2> QED
    BY <1>5, <2>2, ListTypedKept DEF TypeOK, TakeRule, db, CaseTyped, RulesTyped
<1>6. ASSUME NEW u \in People, NEW rubro \in Rubros, Resolve(u, rubro)
      PROVE  TypeOK'
  <2>1. PICK r \in RuleIds :
            /\ rules' = [rules EXCEPT ![r] = [state |-> "in_force", rubro |-> rubro]]
            /\ Answer(u, rubro, r)
    BY <1>6 DEF Resolve
  <2>2. RulesTyped'
    BY <2>1 DEF TypeOK, RulesTyped
  <2> QED
    BY <1>6, <2>1, <2>2, AnswerType DEF Resolve
<1>7. ASSUME NEW u \in People, NEW rubro \in Rubros, ResolveOnce(u, rubro)
      PROVE  TypeOK'
  BY <1>7, AnswerType DEF ResolveOnce, TypeOK, RulesTyped
<1>8. ASSUME NEW u \in People, NEW rubro \in Rubros, Redecide(u, rubro)
      PROVE  TypeOK'
  BY <1>8, RedecideType
<1>9. ASSUME NEW u \in People, Revoke(u)
      PROVE  TypeOK'
  BY <1>9, RevokeType
<1>10. ASSUME NEW u \in People, Rollback(u)
       PROVE  TypeOK'
  BY <1>10, ListTypedKept
     DEF TypeOK, Rollback, db, CaseTyped, RulesTyped, RequestsTyped
<1>11. ASSUME NEW p \in Products, NEW rubro \in Rubros, ClassifyByHand(p, rubro)
       PROVE  TypeOK'
  <2>1. [product[p] EXCEPT !.rubro = rubro, !.byUser = TRUE, !.rule = NoRule] \in Product
    BY DEF TypeOK, Product
  <2>2. product' \in [Products -> Product]
    BY <1>11, <2>1 DEF TypeOK, ClassifyByHand
  <2> QED
    BY <1>11, <2>2, ListTypedKept
       DEF TypeOK, ClassifyByHand, CaseTyped, RulesTyped, RequestsTyped
<1>12. CASE UNCHANGED vars
  BY <1>12, ListTypedKept DEF TypeOK, vars, db, CaseTyped, RulesTyped, RequestsTyped
<1> QED
  BY <1>1, <1>2, <1>3, <1>4, <1>5, <1>6, <1>7, <1>8, <1>9, <1>10, <1>11, <1>12
     DEF Next, List, Request

\* TypeOK: every reachable state of the queue, the rules, the aliases, the products
\* and the requests is well typed.
THEOREM TypesHold == Spec => []TypeOK
  BY TypeOKInit, TypeOKStep, PTL DEF Spec

-----------------------------------------------------------------------------
(* The invariant, operation by operation.                                  *)

\* The keys of the forms the system did not come with.
Others == Keys \ SeededKeys

\* One of them somebody was asked about, or that is known, stays so.
StillAnswered == \A k \in Others : Answered(k) => Answered(k)'

Rest == /\ CaseFollowsRule /\ AliasFollowsRule /\ AliasHasItsCase
        /\ ListIsAnswered /\ HandsStay /\ NothingLost

\* The forms of the products and what the list carries do not change.
SameForms == /\ list' = list
             /\ \A p \in Products : /\ product'[p].raw = product[p].raw
                                    /\ product[p].byUser => product'[p].byUser
                                    /\ product'[p].byUser \in BOOLEAN

LEMMA FormsStayAnswered ==
  ASSUME IInv, SameForms, StillAnswered
  PROVE  (ListIsAnswered /\ HandsStay /\ NothingLost)'
<1>1. ListIsAnswered'
  BY DEF IInv, SameForms, StillAnswered, ListIsAnswered, Others
<1>2. HandsStay'
  BY DEF IInv, SameForms, HandsStay, Applying
<1>3. NothingLost'
  <2> SUFFICES ASSUME NEW p \in Products, product'[p].raw \in Forms, ~product'[p].byUser,
                      KeyOf[product'[p].raw] \notin SeededKeys
               PROVE  Answered(KeyOf[product[p].raw])'
    BY DEF NothingLost
  <2>1. product[p].raw \in Forms /\ ~product[p].byUser /\ product'[p].raw = product[p].raw
    BY DEF SameForms
  <2>2. Answered(KeyOf[product[p].raw]) /\ KeyOf[product[p].raw] \in Others
    BY <2>1, KeysAssumption DEF IInv, NothingLost, Others
  <2> QED
    BY <2>1, <2>2 DEF StillAnswered
<1> QED
  BY <1>1, <1>2, <1>3

LEMMA AnswerKeeps ==
  ASSUME IInv, NEW u \in People, doing[u].op = "resolve", NEW rubro \in Rubros,
         NEW r \in RuleIds \cup {NoRule}, Answer(u, rubro, r),
         r # NoRule => InForce(r)',
         \A q \in RuleIds : InForce(q) => InForce(q)'
  PROVE  Rest'
<1> DEFINE c == doing[u].case
           k == KeyOf[c[1]]
           a == [rubro |-> rubro, rule |-> r, text |-> c[1]]
<1>1. c \in Cases /\ c[1] \in Forms /\ k \in Keys
  BY RequestShape, KeysAssumption DEF IInv
<1>2. a \in Aliases /\ a # NoAlias
  <2>1. a \in Aliases
    BY <1>1 DEF Aliases
  <2> QED
    BY <2>1, AliasIsSome
<1>3. /\ cases' = [cases EXCEPT ![c] = [status |-> "RESOLVED", rule |-> r]]
      /\ alias' = [alias EXCEPT ![k] = a]
  BY DEF Answer
<1>4. alias \in [Keys -> AliasRow] /\ cases \in [Cases -> CaseRow]
  BY DEF IInv, TypeOK, CaseTyped, CaseRow, AliasRow
<1>5. alias'[k] = a /\ \A j \in Keys \ {k} : alias'[j] = alias[j]
  BY <1>1, <1>3, <1>4
<1>6. /\ cases'[c] = [status |-> "RESOLVED", rule |-> r]
      /\ \A d \in Cases \ {c} : cases'[d] = cases[d]
  BY <1>1, <1>3, <1>4
<1> HIDE DEF a
<1>7. CaseFollowsRule'
  <2> SUFFICES ASSUME NEW d \in Cases, cases'[d].rule # NoRule
               PROVE  cases'[d].status = "RESOLVED" /\ InForce(cases[d].rule)'
    BY DEF CaseFollowsRule
  <2>1. CASE d = c
    BY <2>1, <1>6
  <2>2. CASE d # c
    <3>1. cases[d].rule \in RuleIds
      BY <2>2, <1>4, <1>6 DEF CaseRow
    <3> QED
      BY <3>1, <2>2, <1>6 DEF IInv, CaseFollowsRule
  <2> QED
    BY <2>1, <2>2
<1>8. a.rule = r
  BY DEF a
<1>9. AliasFollowsRule'
  <2> SUFFICES ASSUME NEW j \in Keys, alias'[j].rule # NoRule
               PROVE  InForce(alias[j].rule)'
    BY DEF AliasFollowsRule
  <2>1. CASE j = k
    BY <2>1, <1>5, <1>8
  <2>2. CASE j # k
    <3>1. alias[j] # NoAlias
      BY <2>2, <1>5 DEF NoAlias
    <3>2. alias[j].rule \in RuleIds
      BY <3>1, <2>2, <1>4, <1>5 DEF AliasRow, Aliases
    <3> QED
      BY <3>2, <2>2, <1>5 DEF IInv, AliasFollowsRule
  <2> QED
    BY <2>1, <2>2
<1>10. AliasHasItsCase'
  <2> SUFFICES ASSUME NEW j \in Others, alias'[j].rule # NoRule
               PROVE  \E d \in Cases : KeyOf[d[1]] = j /\ cases'[d].status = "RESOLVED"
                                                      /\ cases'[d].rule = alias'[j].rule
    BY DEF AliasHasItsCase, Others
  <2> USE DEF Others
  <2>1. CASE j = k
    BY <2>1, <1>1, <1>5, <1>6, <1>8
  <2>2. CASE j # k
    <3>1. PICK d \in Cases : KeyOf[d[1]] = j /\ cases[d].status = "RESOLVED"
                                            /\ cases[d].rule = alias[j].rule
      BY <2>2, <1>5 DEF IInv, AliasHasItsCase
    <3> QED
      BY <3>1, <2>2, <1>5, <1>6
  <2> QED
    BY <2>1, <2>2
<1>11. StillAnswered
  <2> SUFFICES ASSUME NEW j \in Others, Answered(j)
               PROVE  Answered(j)'
    BY DEF StillAnswered
  <2> USE DEF Others
  <2>1. CASE j = k
    BY <2>1, <1>2, <1>5 DEF Answered
  <2>2. CASE j # k /\ alias[j] # NoAlias
    BY <2>2, <1>5 DEF Answered
  <2>3. CASE j # k /\ Waiting(j)
    <3>1. PICK d \in Cases : cases[d].status = "PENDING" /\ KeyOf[d[1]] = j
      BY <2>3 DEF Waiting
    <3>2. cases'[d] = cases[d]
      BY <3>1, <2>3, <1>6
    <3> QED
      BY <3>1, <3>2 DEF Answered, Waiting
  <2> QED
    BY <2>1, <2>2, <2>3 DEF Answered
<1>12. SameForms
  BY DEF SameForms, Answer, Learned, IInv, TypeOK, Product
<1> QED
  BY <1>7, <1>9, <1>10, <1>11, <1>12, FormsStayAnswered DEF Rest

LEMMA RevokeKeeps ==
  ASSUME IInv, NEW u \in People, Revoke(u)
  PROVE  Rest'
<1> DEFINE r == doing[u].rule
           back == IF ClassifiedBy(r) # {} THEN {alias[k].text : k \in Projections(r)} ELSE {}
<1>1. r \in RuleIds /\ NoRule \notin RuleIds
  <2>1. doing[u].op = "revoke"
    BY DEF Revoke
  <2>2. 0 \notin 1 .. MaxRules
    BY BoundsAssumption
  <2> QED
    BY <2>1, <2>2, RequestShape DEF IInv, RuleIds, NoRule
<1>2. alias \in [Keys -> AliasRow] /\ cases \in [Cases -> CaseRow]
      /\ rules \in [RuleIds -> [state : {"absent", "in_force", "revoked"}, rubro : Rubros \cup {None}]]
  BY DEF IInv, TypeOK, CaseTyped, CaseRow, AliasRow, RulesTyped
<1>3. /\ cases' = Opened(Reopened(r), back)
      /\ rules' = [rules EXCEPT ![r].state = "revoked"]
      /\ alias' = [k \in Keys |-> IF k \in Projections(r) THEN NoAlias ELSE alias[k]]
  BY DEF Revoke
<1>4. Reopened(r) \in [Cases -> CaseRow]
  BY <1>1, <1>2, ReopenedType
<1>5. \A d \in Cases : cases'[d].rule # NoRule => cases'[d] = cases[d] /\ cases[d].rule # r
  <2> TAKE d \in Cases
  <2> HAVE cases'[d].rule # NoRule
  <2>1. cases'[d] = Reopened(r)[d]
    BY <1>3, <1>4, OpenedType
  <2>2. CASE cases[d].rule = r
    <3>1. cases[d].status = "RESOLVED"
      BY <1>1, <2>2 DEF IInv, CaseFollowsRule
    <3> QED
      BY <1>1, <1>2, <2>1, <2>2, <3>1, ReopenedType
  <2>3. CASE cases[d].rule # r
    BY <1>1, <1>2, <2>1, <2>3, ReopenedType
  <2> QED
    BY <2>2, <2>3
<1>6. \A d \in Cases : cases[d].status = "PENDING" => cases'[d] = cases[d]
  <2> TAKE d \in Cases
  <2> HAVE cases[d].status = "PENDING"
  <2>1. Reopened(r)[d] = cases[d]
    BY <1>1, <1>2, ReopenedType
  <2> QED
    BY <2>1, <1>3, <1>4, OpenedType
<1>7. \A d \in Cases : cases[d].status = "RESOLVED" /\ cases[d].rule = r =>
          cases'[d].status = "PENDING"
  BY <1>1, <1>2, <1>3, <1>4, ReopenedType, OpenedType
<1>8. \A d \in Cases : cases[d].status = "RESOLVED" /\ cases[d].rule # r =>
          cases'[d] = cases[d]
  <2> TAKE d \in Cases
  <2> HAVE cases[d].status = "RESOLVED" /\ cases[d].rule # r
  <2>1. Reopened(r)[d] = cases[d]
    BY <1>1, <1>2, ReopenedType
  <2> QED
    BY <2>1, <1>3, <1>4, OpenedType
<1> HIDE DEF back
<1>9. \A q \in RuleIds : q # r /\ InForce(q) => InForce(q)'
  BY <1>1, <1>2, <1>3 DEF InForce
<1>10. \A j \in Keys : alias'[j].rule # NoRule => alias'[j] = alias[j] /\ alias[j].rule # r
                                                  /\ alias[j].rule \in RuleIds
  <2> TAKE j \in Keys
  <2> HAVE alias'[j].rule # NoRule
  <2>1. alias'[j] # NoAlias
    BY DEF NoAlias
  <2>2. j \notin Projections(r) /\ alias'[j] = alias[j]
    BY <2>1, <1>3
  <2> QED
    BY <1>2, <2>1, <2>2 DEF Projections, AliasRow, Aliases
<1>11. CaseFollowsRule'
  <2> SUFFICES ASSUME NEW d \in Cases, cases'[d].rule # NoRule
               PROVE  cases'[d].status = "RESOLVED" /\ InForce(cases[d].rule)'
    BY DEF CaseFollowsRule
  <2>1. cases[d].rule \in RuleIds /\ cases[d].rule # r /\ cases'[d] = cases[d]
    BY <1>2, <1>5 DEF CaseRow
  <2> QED
    BY <2>1, <1>9 DEF IInv, CaseFollowsRule
<1>12. AliasFollowsRule'
  BY <1>9, <1>10 DEF IInv, AliasFollowsRule
<1>13. AliasHasItsCase'
  <2> SUFFICES ASSUME NEW j \in Others, alias'[j].rule # NoRule
               PROVE  \E d \in Cases : KeyOf[d[1]] = j /\ cases'[d].status = "RESOLVED"
                                                      /\ cases'[d].rule = alias'[j].rule
    BY DEF AliasHasItsCase, Others
  <2> USE DEF Others
  <2>1. PICK d \in Cases : KeyOf[d[1]] = j /\ cases[d].status = "RESOLVED"
                                          /\ cases[d].rule = alias[j].rule
    BY <1>10 DEF IInv, AliasHasItsCase
  <2> QED
    BY <2>1, <1>8, <1>10
<1>14. StillAnswered
  <2> SUFFICES ASSUME NEW j \in Others, Answered(j)
               PROVE  Answered(j)'
    BY DEF StillAnswered
  <2> USE DEF Others
  <2>1. CASE Waiting(j)
    <3>1. PICK d \in Cases : cases[d].status = "PENDING" /\ KeyOf[d[1]] = j
      BY <2>1 DEF Waiting
    <3> QED
      BY <3>1, <1>6 DEF Answered, Waiting
  <2>2. CASE alias[j] # NoAlias /\ j \in Projections(r)
    <3>1. alias[j].rule = r
      BY <2>2 DEF Projections
    <3>2. PICK d \in Cases : KeyOf[d[1]] = j /\ cases[d].status = "RESOLVED"
                                            /\ cases[d].rule = r
      BY <3>1, <1>1 DEF IInv, AliasHasItsCase
    <3> QED
      BY <3>2, <1>7 DEF Answered, Waiting
  <2>3. CASE alias[j] # NoAlias /\ j \notin Projections(r)
    BY <2>3, <1>3 DEF Answered
  <2> QED
    BY <2>1, <2>2, <2>3 DEF Answered
<1>15. SameForms
  BY DEF SameForms, Revoke, IInv, TypeOK, Product
<1> QED
  BY <1>11, <1>12, <1>13, <1>14, <1>15, FormsStayAnswered DEF Rest

LEMMA RedecideKeeps ==
  ASSUME IInv, NEW u \in People, NEW rubro \in Rubros, Redecide(u, rubro)
  PROVE  Rest'
<1> DEFINE r == doing[u].rule
<1>1. alias \in [Keys -> AliasRow] /\ r \in RuleIds
      /\ rules \in [RuleIds -> [state : {"absent", "in_force", "revoked"}, rubro : Rubros \cup {None}]]
  BY RequestShape DEF IInv, TypeOK, AliasRow, RulesTyped, Redecide
<1>2. cases' = cases
  BY DEF Redecide
<1>3. \A q \in RuleIds : InForce(q) => InForce(q)'
  BY <1>1 DEF InForce, Redecide
<1>4. \A j \in Keys : alias'[j].rule = alias[j].rule /\ (alias[j] # NoAlias => alias'[j] # NoAlias)
  <2> TAKE j \in Keys
  <2>1. CASE j \in Projections(r)
    <3>1. alias[j] \in Aliases
      BY <2>1, <1>1 DEF Projections, AliasRow
    <3>2. alias'[j] = [alias[j] EXCEPT !.rubro = rubro]
      BY <2>1 DEF Redecide
    <3>3. alias'[j] \in Aliases
      BY <3>1, <3>2 DEF Aliases
    <3> QED
      BY <3>1, <3>2, <3>3, AliasIsSome DEF Aliases
  <2>2. CASE j \notin Projections(r)
    BY <2>2 DEF Redecide
  <2> QED
    BY <2>1, <2>2
<1>5. CaseFollowsRule'
  <2>1. \A d \in Cases : cases[d].rule # NoRule => cases[d].rule \in RuleIds
    BY DEF IInv, TypeOK, CaseTyped
  <2> QED
    BY <2>1, <1>2, <1>3 DEF IInv, CaseFollowsRule
<1>6. AliasFollowsRule'
  <2>1. \A j \in Keys : alias[j].rule # NoRule => alias[j].rule \in RuleIds
    BY <1>1 DEF AliasRow, Aliases, NoAlias
  <2> QED
    BY <2>1, <1>3, <1>4 DEF IInv, AliasFollowsRule
<1>7. AliasHasItsCase'
  BY <1>2, <1>4 DEF IInv, AliasHasItsCase
<1>8. StillAnswered
  BY <1>2, <1>4 DEF StillAnswered, Answered, Waiting, Others
<1>9. SameForms
  BY DEF SameForms, Redecide, IInv, TypeOK, Product
<1> QED
  BY <1>5, <1>6, <1>7, <1>8, <1>9, FormsStayAnswered DEF Rest

\* What changes no case, rule or alias keeps what is said of them.
LEMMA SameDecisions ==
  ASSUME IInv, UNCHANGED <<cases, rules, alias>>
  PROVE  (CaseFollowsRule /\ AliasFollowsRule /\ AliasHasItsCase)' /\ StillAnswered
  BY DEF IInv, CaseFollowsRule, AliasFollowsRule, AliasHasItsCase, InForce,
         StillAnswered, Answered, Waiting

LEMMA ListReadKeeps ==
  ASSUME IInv, NEW rows \in [Products -> Forms \cup {None, NotListed}], ListRead(rows)
  PROVE  Rest'
<1>1. UNCHANGED <<cases, rules, alias>> /\ product' = product
  BY DEF ListRead, db
<1>2. ListIsAnswered'
  BY <1>1 DEF ListRead, ListIsAnswered, Answered, Waiting
<1>3. HandsStay'
  BY <1>1 DEF ListRead, HandsStay
<1>4. NothingLost'
  BY <1>1 DEF IInv, NothingLost, Answered, Waiting
<1> QED
  BY <1>1, <1>2, <1>3, <1>4, SameDecisions DEF Rest

LEMMA ListCommitKeeps ==
  ASSUME IInv, ListCommit
  PROVE  Rest'
<1>1. /\ cases' = Opened(cases, Unresolved) /\ Room(cases, Unresolved)
      /\ UNCHANGED <<rules, alias>> /\ list' = NoList
  BY DEF ListCommit
<1>2. cases \in [Cases -> CaseRow]
  BY DEF IInv, TypeOK, CaseTyped, CaseRow
<1>3. \A d \in Cases : cases[d].status # "absent" => cases'[d] = cases[d]
  BY <1>1, <1>2, OpenedType
<1>4. CaseFollowsRule'
  <2> SUFFICES ASSUME NEW d \in Cases, cases'[d].rule # NoRule
               PROVE  cases'[d].status = "RESOLVED" /\ InForce(cases[d].rule)'
    BY DEF CaseFollowsRule
  <2>1. cases'[d] = cases[d]
    BY <1>1, <1>2, OpenedType
  <2> QED
    BY <2>1, <1>1 DEF IInv, CaseFollowsRule, InForce
<1>5. AliasFollowsRule'
  BY <1>1 DEF IInv, AliasFollowsRule, InForce
<1>6. AliasHasItsCase'
  <2> SUFFICES ASSUME NEW j \in Others, alias[j].rule # NoRule
               PROVE  \E d \in Cases : KeyOf[d[1]] = j /\ cases'[d].status = "RESOLVED"
                                                      /\ cases'[d].rule = alias[j].rule
    BY <1>1 DEF AliasHasItsCase, Others
  <2> USE DEF Others
  <2>1. PICK d \in Cases : KeyOf[d[1]] = j /\ cases[d].status = "RESOLVED"
                                          /\ cases[d].rule = alias[j].rule
    BY DEF IInv, AliasHasItsCase
  <2> QED
    BY <2>1, <1>3
<1>7. StillAnswered
  <2> SUFFICES ASSUME NEW j \in Others, Answered(j)
               PROVE  Answered(j)'
    BY DEF StillAnswered
  <2> USE DEF Others
  <2>1. CASE alias[j] # NoAlias
    BY <2>1, <1>1 DEF Answered
  <2>2. CASE Waiting(j)
    <3>1. PICK d \in Cases : cases[d].status = "PENDING" /\ KeyOf[d[1]] = j
      BY <2>2 DEF Waiting
    <3> QED
      BY <3>1, <1>3 DEF Answered, Waiting
  <2> QED
    BY <2>1, <2>2 DEF Answered
<1>8. ListIsAnswered' /\ HandsStay'
  BY <1>1 DEF NoList, ListIsAnswered, HandsStay, Applying
<1>9. NothingLost'
  <2> SUFFICES ASSUME NEW p \in Products, product'[p].raw \in Forms, ~product'[p].byUser,
                      KeyOf[product'[p].raw] \notin SeededKeys
               PROVE  Answered(KeyOf[product[p].raw])'
    BY DEF NothingLost
  <2>1. Applying /\ product'[p] = Classify(p)
    BY DEF ListCommit
  <2>2. ~product[p].byUser
    BY <2>1, ClassifyType DEF IInv
  <2>3. CASE list.rows[p] = NotListed
    <3>1. product'[p].raw = product[p].raw
      BY <2>1, <2>3, ClassifyType DEF IInv
    <3>2. Answered(KeyOf[product[p].raw]) /\ KeyOf[product[p].raw] \in Others
      BY <3>1, <2>2, KeysAssumption DEF IInv, NothingLost, Others
    <3> QED
      BY <3>1, <3>2, <1>7 DEF StillAnswered
  <2>4. CASE list.rows[p] # NotListed
    <3> DEFINE f == list.rows[p]
    <3>1. product'[p].raw = f /\ f \in Forms /\ KeyOf[f] \in Others
      BY <2>1, <2>4, ClassifyType, KeysAssumption DEF IInv, Others
    <3>2. Matched(p)
      BY <2>1, <2>2, <3>1 DEF IInv, HandsStay, Matched
    <3>3. CASE Meaning(p) # NoAlias
      <4>1. Answered(KeyOf[f])
        BY <3>1, <3>3 DEF Meaning, IInv, ListIsAnswered, Others
      <4> QED
        BY <3>1, <4>1, <1>7 DEF StillAnswered
    <3>4. CASE Meaning(p) = NoAlias
      <4>1. f \in Unresolved
        BY <3>2, <3>4 DEF Unresolved
      <4>2. Unresolved \in SUBSET Forms
        BY DEF Unresolved, Matched
      <4>3. PICK c \in Cases : c[1] = f /\ Opened(cases, Unresolved)[c].status = "PENDING"
        BY <4>1, <4>2, <1>1, <1>2, OpenedAsks
      <4> QED
        BY <4>3, <1>1, <3>1 DEF Answered, Waiting
    <3> QED
      BY <3>3, <3>4
  <2> QED
    BY <2>3, <2>4
<1> QED
  BY <1>4, <1>5, <1>6, <1>8, <1>9 DEF Rest

LEMMA Kept ==
  ASSUME IInv, UNCHANGED <<cases, rules, alias>>, SameForms
  PROVE  Rest'
  BY SameDecisions, FormsStayAnswered DEF Rest

LEMMA IInvInit == Init => IInv
<1> SUFFICES ASSUME Init PROVE IInv
  OBVIOUS
<1>1. \A p \in Products : product[p].raw \notin Forms
  BY MarksAssumption DEF Init
<1>2. NothingLost
  BY <1>1 DEF NothingLost
<1>3. ListIsAnswered /\ HandsStay
  BY DEF Init, ListIsAnswered, HandsStay, NoList, Applying
<1>4. CaseFollowsRule
  BY DEF Init, CaseFollowsRule
<1>5. PICK meant \in [DOMAIN Seeded -> Rubros] :
          /\ rules = [r \in RuleIds |->
                 IF r \in DOMAIN Seeded THEN [state |-> "in_force", rubro |-> meant[r]]
                 ELSE [state |-> "absent", rubro |-> None]]
          /\ alias = [k \in Keys |->
                 IF k \in SeededKeys THEN SeedOf(k, meant) ELSE NoAlias]
  BY DEF Init
<1>6. AliasFollowsRule
  <2> SUFFICES ASSUME NEW k \in Keys, alias[k].rule # NoRule
               PROVE  InForce(alias[k].rule)
    BY DEF AliasFollowsRule
  <2>1. k \in SeededKeys /\ alias[k] = SeedOf(k, meant)
    BY <1>5 DEF NoAlias
  <2>2. alias[k].rule \in DOMAIN Seeded
    BY <2>1, SeedsAreAliases
  <2> QED
    BY <2>2, <1>5, SeedsAssumption DEF InForce
<1>7. AliasHasItsCase
  BY <1>5 DEF AliasHasItsCase, NoAlias
<1> QED
  BY <1>2, <1>3, <1>4, <1>6, <1>7, TypeOKInit DEF IInv

LEMMA IInvStep == IInv /\ [Next]_vars => IInv'
<1> SUFFICES ASSUME IInv, [Next]_vars PROVE IInv'
  OBVIOUS
<1>0. TypeOK'
  BY TypeOKStep DEF IInv
<1>t. \A p \in Products : product[p] \in Product
  BY DEF IInv, TypeOK
<1>1. ASSUME NEW rows \in [Products -> Forms \cup {None, NotListed}], ListRead(rows)
      PROVE  Rest'
  BY <1>1, ListReadKeeps
<1>2. ASSUME ListCommit PROVE Rest'
  BY <1>2, ListCommitKeeps
<1>3. ASSUME ListRollback PROVE Rest'
  <2>1. UNCHANGED <<cases, rules, alias>> /\ product' = product /\ list' = NoList
    BY <1>3 DEF ListRollback, db
  <2>2. ListIsAnswered' /\ HandsStay'
    BY <2>1 DEF NoList, ListIsAnswered, HandsStay, Applying
  <2>3. NothingLost'
    BY <2>1 DEF IInv, NothingLost, Answered, Waiting
  <2> QED
    BY <2>1, <2>2, <2>3, SameDecisions DEF Rest
<1>4. ASSUME NEW u \in People, NEW c \in Cases, TakeCase(u, c)
      PROVE  Rest'
  BY <1>4, <1>t, Kept DEF TakeCase, db, SameForms, Product
<1>5. ASSUME NEW u \in People, NEW r \in RuleIds, NEW op \in {"revoke", "redecide"},
             TakeRule(u, r, op)
      PROVE  Rest'
  BY <1>5, <1>t, Kept DEF TakeRule, db, SameForms, Product
<1>6. ASSUME NEW u \in People, NEW rubro \in Rubros, Resolve(u, rubro)
      PROVE  Rest'
  <2>1. PICK r \in RuleIds :
            /\ rules' = [rules EXCEPT ![r] = [state |-> "in_force", rubro |-> rubro]]
            /\ Answer(u, rubro, r)
    BY <1>6 DEF Resolve
  <2>2. InForce(r)' /\ \A q \in RuleIds : InForce(q) => InForce(q)'
    BY <2>1 DEF IInv, TypeOK, RulesTyped, InForce
  <2> QED
    BY <1>6, <2>1, <2>2, AnswerKeeps DEF Resolve
<1>7. ASSUME NEW u \in People, NEW rubro \in Rubros, ResolveOnce(u, rubro)
      PROVE  Rest'
  <2>1. \A q \in RuleIds : InForce(q) => InForce(q)'
    BY <1>7 DEF ResolveOnce, InForce
  <2> QED
    BY <1>7, <2>1, AnswerKeeps DEF ResolveOnce
<1>8. ASSUME NEW u \in People, NEW rubro \in Rubros, Redecide(u, rubro)
      PROVE  Rest'
  BY <1>8, RedecideKeeps
<1>9. ASSUME NEW u \in People, Revoke(u)
      PROVE  Rest'
  BY <1>9, RevokeKeeps
<1>10. ASSUME NEW u \in People, Rollback(u)
       PROVE  Rest'
  BY <1>10, <1>t, Kept DEF Rollback, db, SameForms, Product
<1>11. ASSUME NEW p \in Products, NEW rubro \in Rubros, ClassifyByHand(p, rubro)
       PROVE  Rest'
  <2>1. SameForms
    BY <1>11, <1>t DEF ClassifyByHand, SameForms, Product, IInv, TypeOK
  <2> QED
    BY <1>11, <2>1, Kept DEF ClassifyByHand
<1>12. ASSUME UNCHANGED vars PROVE Rest'
  BY <1>12, <1>t, Kept DEF vars, db, SameForms, Product
<1>13. Rest'
  BY <1>1, <1>2, <1>3, <1>4, <1>5, <1>6, <1>7, <1>8, <1>9, <1>10, <1>11, <1>12
     DEF Next, List, Request
<1> QED
  BY <1>0, <1>13 DEF IInv, Rest

-----------------------------------------------------------------------------
(* What the system came with.                                              *)

SeedInv == TypeOK /\ SeedsAreKnown

\* A case nobody asked to open stays as it was.
LEMMA OpenedElsewhere ==
  ASSUME NEW cs, NEW forms, NEW c \in Cases, c[1] \notin forms
  PROVE  Opened(cs, forms)[c] = cs[c]
  BY DEF Opened

\* A table of cases only gains states: what was written is never absent again.
LEMMA NeverAbsentAgain ==
  ASSUME NEW cs \in [Cases -> CaseRow], NEW forms, NEW c \in Cases, cs[c].status # "absent"
  PROVE  Opened(cs, forms)[c].status # "absent"
  BY OpenedType

LEMMA SeedsStart == Init => SeedsAreKnown
<1> SUFFICES ASSUME Init PROVE SeedsAreKnown
  OBVIOUS
<1>1. PICK meant \in [DOMAIN Seeded -> Rubros] :
          /\ rules = [r \in RuleIds |->
                 IF r \in DOMAIN Seeded THEN [state |-> "in_force", rubro |-> meant[r]]
                 ELSE [state |-> "absent", rubro |-> None]]
          /\ alias = [k \in Keys |->
                 IF k \in SeededKeys THEN SeedOf(k, meant) ELSE NoAlias]
  BY DEF Init
<1>2. ASSUME NEW k \in SeededKeys
      PROVE  /\ SeedOf(k, meant).rule \in DOMAIN Seeded
             /\ SeedOf(k, meant).text = Seeded[SeedOf(k, meant).rule]
             /\ KeyOf[Seeded[SeedOf(k, meant).rule]] = k
  <2> DEFINE q == CHOOSE q \in DOMAIN Seeded : KeyOf[Seeded[q]] = k
  <2>1. q \in DOMAIN Seeded /\ KeyOf[Seeded[q]] = k
    BY DEF SeededKeys
  <2>2. SeedOf(k, meant) = [rubro |-> meant[q], rule |-> q, text |-> Seeded[q]]
    BY DEF SeedOf
  <2> HIDE DEF q
  <2> QED
    BY <2>1, <2>2
<1>3. ASSUME NEW n \in DOMAIN Seeded PROVE SeedKnown(n)
  <2> DEFINE k == KeyOf[Seeded[n]]
  <2>1. n \in RuleIds /\ k \in Keys /\ k \in SeededKeys
    BY SeedsAssumption, KeysAssumption DEF SeededKeys
  <2>2. alias[k] = SeedOf(k, meant)
    BY <1>1, <2>1
  <2>3. SeedOf(k, meant).rule = n
    BY <1>2, <2>1, SeedsAssumption
  <2>4. ~Applying /\ \A c \in Cases : cases[c].status = "absent"
    BY DEF Init, Applying, NoList
  <2> QED
    BY <1>1, <2>1, <2>2, <2>3, <2>4 DEF SeedKnown
<1>4. ASSUME NEW k \in Keys, alias[k] # NoAlias PROVE KeyOf[alias[k].text] = k
  BY <1>1, <1>2, <1>4
<1>5. \A u \in People : doing[u].op # "resolve"
  BY DEF Init, Idle
<1> QED
  BY <1>3, <1>4, <1>5 DEF SeedsAreKnown

\* A step that changes no rule, alias or case, and no list but to take what is known now.
LEMMA SeedsRest ==
  ASSUME SeedInv, UNCHANGED <<cases, rules, alias>>,
         \/ UNCHANGED list
         \/ list' = NoList
         \/ list'.known = alias,
         \A u \in People : doing'[u].op = "resolve" =>
             doing'[u] = doing[u] \/ cases[doing'[u].case].status # "absent"
  PROVE  SeedsAreKnown'
<1>1. ASSUME NEW n \in DOMAIN Seeded PROVE SeedKnown(n)'
  <2>1. SeedKnown(n) /\ n \in RuleIds /\ n # NoRule
    BY SeedsAssumption DEF SeedInv, SeedsAreKnown, RuleIds, NoRule
  <2>2. CASE UNCHANGED list
    BY <2>1, <2>2 DEF SeedKnown, InForce, Applying
  <2>3. CASE list' = NoList
    <3>1. ~Applying'
      BY <2>3 DEF Applying, NoList
    <3> QED
      BY <2>1, <3>1 DEF SeedKnown, InForce
  <2>4. CASE list'.known = alias
    BY <2>1, <2>4 DEF SeedKnown, InForce, NoAlias
  <2> QED
    BY <2>2, <2>3, <2>4
<1>2. \A k \in Keys : alias'[k] # NoAlias => KeyOf[alias'[k].text] = k
  BY DEF SeedInv, SeedsAreKnown
<1>3. \A u \in People : doing'[u].op = "resolve" => cases'[doing'[u].case].status # "absent"
  BY DEF SeedInv, SeedsAreKnown
<1> QED
  BY <1>1, <1>2, <1>3 DEF SeedsAreKnown

LEMMA SeedsListCommit ==
  ASSUME SeedInv, ListCommit
  PROVE  SeedsAreKnown'
<1>1. /\ Applying /\ cases' = Opened(cases, Unresolved) /\ list' = NoList
      /\ UNCHANGED <<rules, alias, doing>>
  BY DEF ListCommit
<1>2. cases \in [Cases -> CaseRow]
  BY DEF SeedInv, TypeOK, CaseTyped, CaseRow
<1>3. ~Applying'
  BY <1>1 DEF Applying, NoList
<1>4. ASSUME NEW n \in DOMAIN Seeded PROVE SeedKnown(n)'
  <2>1. SeedKnown(n)
    BY DEF SeedInv, SeedsAreKnown
  <2>2. ASSUME InForce(n), NEW c \in Cases, KeyOf[c[1]] = KeyOf[Seeded[n]]
        PROVE  cases'[c].status = "absent"
    <3>1. list.known[KeyOf[Seeded[n]]] # NoAlias /\ cases[c].status = "absent"
      BY <1>1, <2>1, <2>2 DEF SeedKnown
    <3>2. c[1] \notin Unresolved
      <4>1. ASSUME NEW p \in Products, c[1] = list.rows[p] PROVE Meaning(p) # NoAlias
        BY <2>2, <3>1, <4>1 DEF Meaning
      <4> QED
        BY <4>1 DEF Unresolved
    <3> QED
      BY <1>1, <3>1, <3>2, OpenedElsewhere
  <2> QED
    BY <1>1, <1>3, <2>1, <2>2 DEF SeedKnown, InForce
<1>5. \A u \in People : doing'[u].op = "resolve" => cases'[doing'[u].case].status # "absent"
  <2> SUFFICES ASSUME NEW u \in People, doing[u].op = "resolve"
               PROVE  cases'[doing[u].case].status # "absent"
    BY <1>1
  <2>1. doing[u].case \in Cases /\ cases[doing[u].case].status # "absent"
    BY RequestShape DEF SeedInv, SeedsAreKnown
  <2> QED
    BY <1>1, <1>2, <2>1, NeverAbsentAgain
<1> QED
  BY <1>1, <1>4, <1>5 DEF SeedInv, SeedsAreKnown

\* An answer never is about a seeded form whose rule is in force: no case of it is there.
LEMMA SeedsAnswer ==
  ASSUME SeedInv, NEW u \in People, NEW rubro, NEW r, doing[u].op = "resolve",
         Answer(u, rubro, r),
         \A n \in DOMAIN Seeded : rules'[n].state = rules[n].state
  PROVE  SeedsAreKnown'
<1> DEFINE c == doing[u].case
<1>1. c \in Cases /\ c[1] \in Forms /\ KeyOf[c[1]] \in Keys
  BY RequestShape, KeysAssumption DEF SeedInv
<1>2. cases[c].status # "absent"
  BY DEF SeedInv, SeedsAreKnown
<1>3. /\ cases' = [cases EXCEPT ![c] = [status |-> "RESOLVED", rule |-> r]]
      /\ alias' = [alias EXCEPT ![KeyOf[c[1]]] = [rubro |-> rubro, rule |-> r, text |-> c[1]]]
      /\ doing' = [doing EXCEPT ![u] = Idle]
      /\ UNCHANGED list
  BY DEF Answer
<1> HIDE DEF c
<1>4. cases \in [Cases -> CaseRow] /\ alias \in [Keys -> AliasRow]
  BY DEF SeedInv, TypeOK, CaseTyped, CaseRow, AliasRow
<1>5. ASSUME NEW n \in DOMAIN Seeded PROVE SeedKnown(n)'
  <2>1. SeedKnown(n) /\ (InForce(n)' <=> InForce(n))
    BY DEF SeedInv, SeedsAreKnown, InForce
  <2>2. ASSUME InForce(n) PROVE KeyOf[c[1]] # KeyOf[Seeded[n]]
    BY <1>1, <1>2, <2>1, <2>2 DEF SeedKnown
  <2>3. KeyOf[Seeded[n]] \in Keys
    BY KeysAssumption, SeedsAssumption
  <2>4. ASSUME InForce(n) PROVE alias'[KeyOf[Seeded[n]]] = alias[KeyOf[Seeded[n]]]
    BY <1>3, <1>4, <2>2, <2>3, <2>4
  <2>5. ASSUME InForce(n), NEW d \in Cases, KeyOf[d[1]] = KeyOf[Seeded[n]]
        PROVE  cases'[d] = cases[d]
    BY <1>3, <1>4, <2>2, <2>5
  <2> QED
    BY <1>3, <2>1, <2>4, <2>5 DEF SeedKnown, Applying
<1>6. \A k \in Keys : alias'[k] # NoAlias => KeyOf[alias'[k].text] = k
  BY <1>1, <1>3, <1>4 DEF SeedInv, SeedsAreKnown
<1>7. ASSUME NEW v \in People, doing'[v].op = "resolve"
      PROVE  cases'[doing'[v].case].status # "absent"
  <2>1. doing'[v] = doing[v]
    BY <1>3, <1>7 DEF Idle, SeedInv, TypeOK, RequestsTyped
  <2>2. doing[v].case \in Cases /\ cases[doing[v].case].status # "absent"
    BY <1>7, <2>1, RequestShape DEF SeedInv, SeedsAreKnown
  <2> QED
    BY <1>1, <1>3, <1>4, <2>1, <2>2
<1> QED
  BY <1>5, <1>6, <1>7 DEF SeedsAreKnown

LEMMA SeedsRevoke ==
  ASSUME SeedInv, NEW u \in People, Revoke(u)
  PROVE  SeedsAreKnown'
<1> DEFINE r == doing[u].rule
           back == IF ClassifiedBy(r) # {} THEN {alias[k].text : k \in Projections(r)} ELSE {}
<1>1. r \in RuleIds
  BY RequestShape DEF Revoke, SeedInv
<1>2. /\ cases' = Opened(Reopened(r), back)
      /\ rules' = [rules EXCEPT ![r].state = "revoked"]
      /\ alias' = [k \in Keys |-> IF k \in Projections(r) THEN NoAlias ELSE alias[k]]
      /\ doing' = [doing EXCEPT ![u] = Idle]
      /\ UNCHANGED list
  BY DEF Revoke
<1>3. /\ cases \in [Cases -> CaseRow] /\ alias \in [Keys -> AliasRow]
      /\ rules \in [RuleIds -> [state : {"absent", "in_force", "revoked"}, rubro : Rubros \cup {None}]]
  BY DEF SeedInv, TypeOK, CaseTyped, CaseRow, AliasRow, RulesTyped
<1>4. back \subseteq {alias[k].text : k \in Projections(r)}
  OBVIOUS
<1>5. Reopened(r) \in [Cases -> CaseRow]
  BY <1>1, <1>3, ReopenedType
<1>6. ASSUME NEW c \in Cases PROVE cases[c].status # "absent" => cases'[c].status # "absent"
  <2>1. cases[c].status # "absent" => Reopened(r)[c].status # "absent"
    BY <1>1, <1>3 DEF Reopened
  <2> QED
    BY <1>2, <1>5, <2>1, NeverAbsentAgain
<1> HIDE DEF back, r
<1>7. ASSUME NEW n \in DOMAIN Seeded PROVE SeedKnown(n)'
  <2> DEFINE k == KeyOf[Seeded[n]]
  <2>1. SeedKnown(n) /\ n \in RuleIds /\ k \in Keys
    BY SeedsAssumption, KeysAssumption DEF SeedInv, SeedsAreKnown
  <2>2. rules'[n].state # "absent" /\ (InForce(n)' => InForce(n) /\ n # r)
    BY <1>1, <1>2, <1>3, <2>1 DEF InForce, SeedKnown
  <2>3. ASSUME InForce(n), n # r PROVE alias'[k] = alias[k]
    BY <1>2, <2>1, <2>3 DEF SeedKnown, Projections
  <2>4. ASSUME InForce(n), n # r, NEW c \in Cases, KeyOf[c[1]] = k
        PROVE  cases'[c].status = "absent"
    <3>1. cases[c].status = "absent"
      BY <2>1, <2>4 DEF SeedKnown
    <3>2. Reopened(r)[c] = cases[c]
      BY <1>1, <1>3, <3>1, ReopenedType
    <3>3. c[1] \notin back
      <4>1. ASSUME NEW j \in Projections(r), alias[j].text = c[1] PROVE FALSE
        <5>1. j \in Keys /\ alias[j] # NoAlias /\ alias[j].rule = r
          BY DEF Projections
        <5>2. j = k
          BY <2>4, <4>1, <5>1 DEF SeedInv, SeedsAreKnown
        <5> QED
          BY <2>1, <2>4, <5>1, <5>2 DEF SeedKnown
      <4> QED
        BY <1>4, <4>1
    <3> QED
      BY <1>2, <3>1, <3>2, <3>3, OpenedElsewhere
  <2> QED
    BY <1>2, <2>1, <2>2, <2>3, <2>4 DEF SeedKnown, Applying
<1>8. \A k \in Keys : alias'[k] # NoAlias => KeyOf[alias'[k].text] = k
  BY <1>2 DEF SeedInv, SeedsAreKnown
<1>9. ASSUME NEW v \in People, doing'[v].op = "resolve"
      PROVE  cases'[doing'[v].case].status # "absent"
  <2>1. doing'[v] = doing[v]
    BY <1>2, <1>9 DEF Idle, SeedInv, TypeOK, RequestsTyped
  <2>2. doing[v].case \in Cases /\ cases[doing[v].case].status # "absent"
    BY <1>9, <2>1, RequestShape DEF SeedInv, SeedsAreKnown
  <2> QED
    BY <1>6, <2>1, <2>2
<1> QED
  BY <1>7, <1>8, <1>9 DEF SeedsAreKnown

LEMMA SeedsRedecide ==
  ASSUME SeedInv, NEW u \in People, NEW rubro, Redecide(u, rubro)
  PROVE  SeedsAreKnown'
<1> DEFINE r == doing[u].rule
<1>1. /\ rules' = [rules EXCEPT ![r].rubro = Written(@, doing[u].was, rubro)]
      /\ alias' = [k \in Keys |->
             IF k \in Projections(r) THEN [alias[k] EXCEPT !.rubro = rubro] ELSE alias[k]]
      /\ doing' = [doing EXCEPT ![u] = Idle]
      /\ UNCHANGED <<cases, list>>
  BY DEF Redecide
<1> HIDE DEF r
<1>2. /\ alias \in [Keys -> AliasRow]
      /\ rules \in [RuleIds -> [state : {"absent", "in_force", "revoked"}, rubro : Rubros \cup {None}]]
  BY DEF SeedInv, TypeOK, AliasRow, RulesTyped
<1>3. \A k \in Keys : alias[k] # NoAlias => alias[k] \in Aliases
  BY <1>2 DEF AliasRow
<1>4. ASSUME NEW k \in Keys
      PROVE  /\ alias'[k].rule = alias[k].rule
             /\ alias'[k] # NoAlias => alias[k] # NoAlias /\ alias'[k].text = alias[k].text
  <2>1. CASE k \in Projections(r)
    <3>1. alias[k] \in Aliases /\ alias[k] # NoAlias
      BY <1>3, <2>1 DEF Projections
    <3>2. alias'[k] = [alias[k] EXCEPT !.rubro = rubro]
      BY <1>1, <2>1
    <3> QED
      BY <3>1, <3>2 DEF Aliases
  <2>2. CASE k \notin Projections(r)
    BY <1>1, <2>2
  <2> QED
    BY <2>1, <2>2
<1>5. ASSUME NEW n \in DOMAIN Seeded PROVE SeedKnown(n)'
  <2>1. SeedKnown(n) /\ n \in RuleIds /\ KeyOf[Seeded[n]] \in Keys
    BY SeedsAssumption, KeysAssumption DEF SeedInv, SeedsAreKnown
  <2>2. rules'[n].state = rules[n].state
    BY <1>1, <1>2, <2>1
  <2> QED
    BY <1>1, <1>4, <2>1, <2>2 DEF SeedKnown, InForce, Applying
<1>6. \A k \in Keys : alias'[k] # NoAlias => KeyOf[alias'[k].text] = k
  BY <1>4 DEF SeedInv, SeedsAreKnown
<1>7. ASSUME NEW v \in People, doing'[v].op = "resolve"
      PROVE  cases'[doing'[v].case].status # "absent"
  <2>1. doing'[v] = doing[v]
    BY <1>1, <1>7 DEF Idle, SeedInv, TypeOK, RequestsTyped
  <2> QED
    BY <1>1, <1>7, <2>1 DEF SeedInv, SeedsAreKnown
<1> QED
  BY <1>5, <1>6, <1>7 DEF SeedsAreKnown

LEMMA SeedsStep == SeedInv /\ [Next]_vars => SeedInv'
<1> SUFFICES ASSUME SeedInv, [Next]_vars PROVE SeedsAreKnown'
  BY TypeOKStep DEF SeedInv
<1>1. ASSUME NEW rows, ListRead(rows) PROVE SeedsAreKnown'
  <2>1. UNCHANGED <<cases, rules, alias, doing>> /\ list'.known = alias
    BY <1>1 DEF ListRead, db
  <2> QED
    BY <2>1, SeedsRest
<1>2. CASE ListCommit
  BY <1>2, SeedsListCommit
<1>3. CASE ListRollback
  <2>1. UNCHANGED <<cases, rules, alias, doing>> /\ list' = NoList
    BY <1>3 DEF ListRollback, db
  <2> QED
    BY <2>1, SeedsRest
<1>4. ASSUME NEW u \in People, NEW c \in Cases, TakeCase(u, c) PROVE SeedsAreKnown'
  <2>1. /\ UNCHANGED <<cases, rules, alias, list>> /\ cases[c].status # "absent"
        /\ doing' = [doing EXCEPT ![u] = [op |-> "resolve", case |-> c]]
    BY <1>4 DEF TakeCase, db
  <2>2. \A v \in People : doing'[v] = doing[v] \/ doing'[v].case = c
    BY <2>1 DEF SeedInv, TypeOK, RequestsTyped
  <2> QED
    BY <2>1, <2>2, SeedsRest
<1>5. ASSUME NEW u \in People, NEW r \in RuleIds, NEW op \in {"revoke", "redecide"},
             TakeRule(u, r, op)
      PROVE  SeedsAreKnown'
  <2>1. /\ UNCHANGED <<cases, rules, alias, list>>
        /\ doing' = [doing EXCEPT ![u] = [op |-> op, rule |-> r, was |-> rules[r].rubro]]
    BY <1>5 DEF TakeRule, db
  <2>2. \A v \in People : doing'[v] = doing[v] \/ doing'[v].op # "resolve"
    BY <2>1 DEF SeedInv, TypeOK, RequestsTyped
  <2> QED
    BY <2>1, <2>2, SeedsRest
<1>6. ASSUME NEW u \in People, NEW rubro \in Rubros, Resolve(u, rubro) PROVE SeedsAreKnown'
  <2>1. PICK r \in RuleIds :
            /\ IsNextRule(r)
            /\ rules' = [rules EXCEPT ![r] = [state |-> "in_force", rubro |-> rubro]]
            /\ Answer(u, rubro, r)
    BY <1>6 DEF Resolve
  <2>2. \A n \in DOMAIN Seeded : rules'[n].state = rules[n].state
    BY <2>1, SeedsAssumption DEF IsNextRule, SeedInv, SeedsAreKnown, SeedKnown, TypeOK, RulesTyped
  <2> QED
    BY <1>6, <2>1, <2>2, SeedsAnswer DEF Resolve
<1>7. ASSUME NEW u \in People, NEW rubro \in Rubros, ResolveOnce(u, rubro)
      PROVE  SeedsAreKnown'
  BY <1>7, SeedsAnswer DEF ResolveOnce
<1>8. ASSUME NEW u \in People, NEW rubro \in Rubros, Redecide(u, rubro)
      PROVE  SeedsAreKnown'
  BY <1>8, SeedsRedecide
<1>9. ASSUME NEW u \in People, Revoke(u) PROVE SeedsAreKnown'
  BY <1>9, SeedsRevoke
<1>10. ASSUME NEW u \in People, Rollback(u) PROVE SeedsAreKnown'
  <2>1. UNCHANGED <<cases, rules, alias, list>> /\ doing' = [doing EXCEPT ![u] = Idle]
    BY <1>10 DEF Rollback, db
  <2>2. \A v \in People : doing'[v] = doing[v] \/ doing'[v].op # "resolve"
    BY <2>1 DEF SeedInv, TypeOK, RequestsTyped, Idle
  <2> QED
    BY <2>1, <2>2, SeedsRest
<1>11. ASSUME NEW p \in Products, NEW rubro \in Rubros, ClassifyByHand(p, rubro)
       PROVE  SeedsAreKnown'
  <2>1. UNCHANGED <<cases, rules, alias, doing, list>>
    BY <1>11 DEF ClassifyByHand
  <2> QED
    BY <2>1, SeedsRest
<1>12. CASE UNCHANGED vars
  <2>1. UNCHANGED <<cases, rules, alias, doing, list>>
    BY <1>12 DEF vars, db
  <2> QED
    BY <2>1, SeedsRest
<1> QED
  BY <1>1, <1>2, <1>3, <1>4, <1>5, <1>6, <1>7, <1>8, <1>9, <1>10, <1>11, <1>12
     DEF Next, List, Request

\* A seeded rule only stops being in force in its revocation, and that finds its equivalence.
LEMMA SeedGoesBack ==
  ASSUME SeedInv, [Next]_vars, NEW n \in DOMAIN Seeded, InForce(n), ~InForce(n)',
         NEW p \in Products, product[p].rule = n
  PROVE  /\ product'[p].rubro = None /\ product'[p].rule = NoRule
         /\ Waiting(KeyOf[Seeded[n]])'
<1> DEFINE k == KeyOf[Seeded[n]]
<1>1. n \in RuleIds /\ k \in Keys /\ n # NoRule
  BY SeedsAssumption, KeysAssumption, BoundsAssumption DEF RuleIds, NoRule
<1>2. rules \in [RuleIds -> [state : {"absent", "in_force", "revoked"}, rubro : Rubros \cup {None}]]
  BY DEF SeedInv, TypeOK, RulesTyped
<1>3. rules'[n].state # "in_force" /\ rules[n].state = "in_force"
  BY DEF InForce
<1>4. ~ UNCHANGED rules
  BY <1>3
<1>5. ASSUME NEW u \in People, NEW rubro \in Rubros, Resolve(u, rubro) PROVE FALSE
  BY <1>1, <1>2, <1>3, <1>5 DEF Resolve
<1>6. ASSUME NEW u \in People, NEW rubro \in Rubros, Redecide(u, rubro) PROVE FALSE
  <2>1. rules' = [rules EXCEPT ![doing[u].rule].rubro = Written(@, doing[u].was, rubro)]
    BY <1>6 DEF Redecide
  <2> QED
    BY <1>1, <1>2, <1>3, <2>1
<1>7. PICK u \in People : Revoke(u)
  BY <1>4, <1>5, <1>6
  DEF Next, List, Request, ListRead, ListCommit, ListRollback, TakeCase, TakeRule, ResolveOnce,
      Rollback, ClassifyByHand, vars, db
<1> DEFINE r == doing[u].rule
           back == IF ClassifiedBy(r) # {} THEN {alias[j].text : j \in Projections(r)} ELSE {}
<1>8. /\ Room(Reopened(r), back)
      /\ rules' = [rules EXCEPT ![r].state = "revoked"]
      /\ cases' = Opened(Reopened(r), back)
      /\ product' = [q \in Products |->
             IF Projections(r) # {} /\ product[q].rule = r
             THEN [product[q] EXCEPT !.rubro = None, !.rule = NoRule] ELSE product[q]]
  BY <1>7 DEF Revoke
<1>9. r = n
  BY <1>1, <1>2, <1>3, <1>8
<1>10. alias[k].rule = n /\ alias[k] # NoAlias /\ alias \in [Keys -> AliasRow]
  BY <1>1 DEF SeedInv, SeedsAreKnown, SeedKnown, NoAlias, TypeOK, AliasRow
<1>11. k \in Projections(n)
  BY <1>1, <1>10 DEF Projections
<1>12. alias[k].text \in back /\ back \subseteq Forms
  <2>1. ClassifiedBy(n) # {}
    BY DEF ClassifiedBy
  <2>2. \A j \in Projections(n) : alias[j].text \in Forms
    BY <1>10 DEF Projections, AliasRow, Aliases
  <2> QED
    BY <1>9, <1>11, <2>1, <2>2
<1>13. KeyOf[alias[k].text] = k
  BY <1>1, <1>10 DEF SeedInv, SeedsAreKnown
<1>14. Reopened(n) \in [Cases -> CaseRow]
  BY <1>1, ReopenedType DEF SeedInv, TypeOK, CaseTyped, CaseRow
<1> HIDE DEF back
<1>15. PICK c \in Cases : c[1] = alias[k].text /\ cases'[c].status = "PENDING"
  <2> DEFINE text == alias[k].text
             cs == Reopened(n)
  <2>1. cs \in [Cases -> CaseRow] /\ back \in SUBSET Forms /\ Room(cs, back) /\ text \in back
    BY <1>8, <1>9, <1>12, <1>14
  <2>2. cases' = Opened(cs, back)
    BY <1>8, <1>9
  <2> HIDE DEF text, cs
  <2>3. \E c \in Cases : c[1] = text /\ Opened(cs, back)[c].status = "PENDING"
    BY <2>1, OpenedAsks
  <2> QED
    BY <2>2, <2>3 DEF text
<1>16. Waiting(k)'
  BY <1>13, <1>15 DEF Waiting
<1>17. product'[p].rubro = None /\ product'[p].rule = NoRule
  <2>1. product'[p] = [product[p] EXCEPT !.rubro = None, !.rule = NoRule]
    BY <1>8, <1>9, <1>11
  <2> QED
    BY <2>1 DEF SeedInv, TypeOK, Product
<1> QED
  BY <1>16, <1>17

-----------------------------------------------------------------------------
(* Theorems.                                                               *)

\* CaseFollowsRule: triage.revoke_rule gives back every case the rule had closed,
\* also those closed while it was being revoked.
THEOREM CasesFollowTheirRule == Spec => []CaseFollowsRule
<1>1. IInv => CaseFollowsRule
  BY DEF IInv
<1> QED
  BY <1>1, IInvInit, IInvStep, PTL DEF Spec

\* AliasFollowsRule: the projection of the equivalences in catalog never holds one
\* whose rule triage revoked.
THEOREM AliasesFollowTheirRule == Spec => []AliasFollowsRule
<1>1. IInv => AliasFollowsRule
  BY DEF IInv
<1> QED
  BY <1>1, IInvInit, IInvStep, PTL DEF Spec

\* NothingLost: however lists and people overlap, the form of a product nobody
\* classified by hand is known or is being asked about.
THEOREM NoFormIsLost == Spec => []NothingLost
<1>1. IInv => NothingLost
  BY DEF IInv
<1> QED
  BY <1>1, IInvInit, IInvStep, PTL DEF Spec

\* RevokedSeedsGoBack: a form the system came with is never answered while its rule is in
\* force, so no other rule takes its equivalence over, and its revocation finds it.
THEOREM SeedsGoBackWhenRevoked == Spec => RevokedSeedsGoBack
<1>1. SeedInv /\ [Next]_vars =>
          [\A n \in DOMAIN Seeded : InForce(n) /\ ~InForce(n)' =>
              \A p \in Products : product[p].rule = n =>
                  /\ product'[p].rubro = None /\ product'[p].rule = NoRule
                  /\ Waiting(KeyOf[Seeded[n]])']_vars
  BY SeedGoesBack
<1>2. Init => SeedInv
  BY SeedsStart, TypeOKInit DEF SeedInv
<1> QED
  BY <1>1, <1>2, SeedsStep, PTL DEF Spec, RevokedSeedsGoBack
==============================================================================
