----------------------------- MODULE HeldInvoices -----------------------------
(* Which invoices the ledger has and whose they are: the rows of the portal,  *)
(* the spellings of a supplier's name, the invoices held until a person says  *)
(* something about them, and the ones somebody typed and the portal later     *)
(* contradicted (modules/purchases: register_invoices to drop_alias; the      *)
(* cases of modules/triage they open and close).                              *)
(*                                                                            *)
(* Every operation is one transaction and one step. The index on (supplier,   *)
(* number) undoes the transaction that would break it. The dates of an        *)
(* invoice are in Calendar; here its total stands for what can be disputed.   *)
EXTENDS Integers, Sequences

CONSTANTS
    Suppliers,      \* the register
    Texts,          \* the ways a name arrives written
    KeyOf,          \* [Texts -> keys]: normalize_entity_name
    LegalName,      \* [Suppliers -> Texts]
    Likeness,       \* [Texts -> Suppliers \cup {"AMBIGUOUS", "OUTSIDE"}]: the comparison
    Numbers, Totals,
    MaxInvoices,    \* bound: rows of the ledger
    MaxAliases,     \* bound: spellings saved
    Unknown         \* no supplier, no total, no spelling

VARIABLES
    portal,     \* [Texts \X Numbers -> the total it publishes, or Unknown]
    ledger,     \* the table of invoices
    spelling,   \* [keys -> Unknown or the row of core.supplier_alias]
    aliases,    \* how many spellings were ever saved: their ids
    disputes    \* [ledger rows -> the published total of its open case in triage]
heldVars == <<portal, ledger, spelling, aliases, disputes>>

Keys == {KeyOf[t] : t \in Texts}

ASSUME HeldAssumption ==
    /\ Unknown \notin Suppliers \cup Totals /\ Unknown # "DISPUTED"
    /\ LegalName \in [Suppliers -> Texts]
    /\ Likeness \in [Texts -> Suppliers \cup {"AMBIGUOUS", "OUTSIDE"}]

-------------------------------------------------------------------------------
(* Whose name that is: a known spelling, or a comparison that is close enough *)
(* and clearly ahead, which is remembered as an observed spelling.            *)
ResolveSupplier(t) ==
    IF spelling[KeyOf[t]] # Unknown THEN spelling[KeyOf[t]].supplier
    ELSE IF Likeness[t] \in Suppliers THEN Likeness[t] ELSE Unknown

PutAlias(key, s) ==
    IF spelling[key] = Unknown
    THEN /\ aliases < MaxAliases
         /\ aliases' = aliases + 1
         /\ spelling' = [spelling EXCEPT ![key] = [supplier |-> s, id |-> aliases + 1]]
    ELSE /\ spelling' = [spelling EXCEPT ![key].supplier = s]
         /\ UNCHANGED aliases

Observed(t) == IF spelling[KeyOf[t]] = Unknown /\ Likeness[t] \in Suppliers
               THEN PutAlias(KeyOf[t], Likeness[t]) ELSE UNCHANGED <<spelling, aliases>>

(* The identity of an invoice: (supplier, number), and without a supplier the *)
(* name as written and the number.                                            *)
InvoiceOf(s, n, t) ==
    {i \in DOMAIN ledger : /\ ledger[i].number = n
                           /\ ledger[i].supplier = s
                           /\ s = Unknown => ledger[i].text = t}

(* uq_invoice_supplier_number. *)
UniqueIn(rows) ==
    \A i, j \in DOMAIN rows :
        i # j /\ rows[i].supplier = rows[j].supplier /\ rows[i].number = rows[j].number
            => rows[i].supplier = Unknown

NewInvoice(n, t, s, total) ==
    [number |-> n, text |-> t, supplier |-> s, total |-> total, manual |-> FALSE,
     review |-> IF s = Unknown THEN "PENDING" ELSE "OK",
     reason |-> IF s # Unknown THEN Unknown ELSE Likeness[t],
     alias |-> Unknown, person |-> FALSE, rejected |-> Unknown]

(* A mutant of Held: the state of the review is forgotten. *)
HeldReasonOnly(row, reason) == [row EXCEPT !.reason = reason]

Held(row, reason) == [row EXCEPT !.review = "PENDING", !.reason = reason]
(* A mutant of Settled: the reason it was held for stays. *)
SettledKeepsReason(row) == [row EXCEPT !.review = "RESOLVED", !.person = TRUE]

Settled(row) == [row EXCEPT !.review = "RESOLVED", !.reason = Unknown, !.person = TRUE]
Attached(row, s, id) == [Settled(row) EXCEPT !.supplier = s, !.alias = id]

-------------------------------------------------------------------------------
(* The portal. *)

Publish(t, n, total) ==
    /\ portal[t, n] # total
    /\ portal' = [portal EXCEPT ![<<t, n>>] = total]
    /\ UNCHANGED <<ledger, spelling, aliases, disputes>>

(* Every legal name of the register is a spelling of itself. *)
RememberSupplier(s) ==
    /\ PutAlias(KeyOf[LegalName[s]], s)
    /\ UNCHANGED <<portal, ledger, disputes>>

(* An invoice met again: what a person typed is disputed, unless the portal   *)
(* says the same or what that person already rejected; what the portal had    *)
(* published is held when the total is another one.                           *)
Dispute(i, total) ==
    /\ ledger' = [ledger EXCEPT ![i] = Held(@, "DISPUTED")]
    /\ disputes' = [disputes EXCEPT ![i] = total]

(* A mutant of CountArrival: what was rejected is disputed again. *)
CountArrivalForgetful(i, total) ==
    IF ledger[i].total = total THEN UNCHANGED <<ledger, disputes>>
    ELSE IF ledger[i].manual THEN Dispute(i, total)
    ELSE /\ ledger' = IF ledger[i].review = "PENDING" THEN ledger
                      ELSE [ledger EXCEPT ![i] = Held(@, "ANOTHER_TOTAL")]
         /\ UNCHANGED disputes

CountArrival(i, total) ==
    IF ledger[i].total = total THEN UNCHANGED <<ledger, disputes>>
    ELSE IF ledger[i].manual
    THEN IF ledger[i].rejected = total THEN UNCHANGED <<ledger, disputes>>
         ELSE Dispute(i, total)
    ELSE /\ ledger' = IF ledger[i].review = "PENDING" THEN ledger
                      ELSE [ledger EXCEPT ![i] = Held(@, "ANOTHER_TOTAL")]
         /\ UNCHANGED disputes

CreateInvoice(n, t, s, total) ==
    /\ Len(ledger) < MaxInvoices
    /\ ledger' = Append(ledger, NewInvoice(n, t, s, total))
    /\ disputes' = Append(disputes, Unknown)

(* One row of a reading. *)
RegisterInvoiceRow(t, n) ==
    /\ portal[t, n] # Unknown
    /\ LET s     == ResolveSupplier(t)
           found == InvoiceOf(s, n, t)
       IN  IF found # {} THEN CountArrival(CHOOSE i \in found : \A j \in found : i <= j, portal[t, n])
           ELSE CreateInvoice(n, t, s, portal[t, n])
    /\ Observed(t)
    /\ UNCHANGED portal

(* The document of an invoice is read. One that waits because of its supplier *)
(* is identified by the tax id it prints; one that nobody doubted is held     *)
(* when the document disagrees.                                               *)
IdentifiedByTaxId(i, s) ==
    /\ s # Unknown
    /\ ledger[i].review = "PENDING"
    /\ ledger[i].reason \in {"AMBIGUOUS", "OUTSIDE"}

RecordDocument(i, agrees, s) ==
    /\ i \in DOMAIN ledger
    /\ \/ /\ IdentifiedByTaxId(i, s)
          /\ ledger' = [ledger EXCEPT ![i].supplier = s, ![i].review = "OK", ![i].reason = Unknown]
       \/ /\ ~IdentifiedByTaxId(i, s)
          /\ ~agrees /\ ledger[i].review = "OK"
          /\ ledger' = [ledger EXCEPT ![i] = Held(@, "FILE_DISAGREES")]
    /\ UniqueIn(ledger')
    /\ UNCHANGED <<portal, spelling, aliases, disputes>>

-------------------------------------------------------------------------------
(* People. *)

(* Typed from a row nobody could read: refused if the ledger already has it.  *)
RegisterInvoiceByHand(n, s, total) ==
    /\ InvoiceOf(s, n, LegalName[s]) = {}
    /\ Len(ledger) < MaxInvoices
    /\ ledger' = Append(ledger, [Settled(NewInvoice(n, LegalName[s], s, total)) EXCEPT !.manual = TRUE])
    /\ disputes' = Append(disputes, Unknown)
    /\ UNCHANGED <<portal, spelling, aliases>>

(* An assignment of a spelling reaches everything held under it. *)
PendingUnder(rows, key) ==
    {i \in DOMAIN rows : /\ rows[i].supplier = Unknown
                         /\ rows[i].review = "PENDING"
                         /\ KeyOf[rows[i].text] = key}
AliasApplied(rows, key, s, id) ==
    [i \in DOMAIN rows |-> IF i \in PendingUnder(rows, key) THEN Attached(rows[i], s, id) ELSE rows[i]]

(* A person answers for one invoice: what it says, whose it is, whether to    *)
(* remember it. Answering the dispute here closes its case.                   *)
ResolveInvoice(i, s, remember, total) ==
    /\ i \in DOMAIN ledger
    /\ remember => s # Unknown
    /\ LET said == [ledger EXCEPT ![i].total = total]
           key  == KeyOf[ledger[i].text]
           id   == IF remember THEN spelling'[key].id ELSE Unknown
           done == [said EXCEPT ![i] = IF s = Unknown THEN Settled(@) ELSE Attached(@, s, id)]
       IN  /\ IF remember THEN PutAlias(key, s) ELSE UNCHANGED <<spelling, aliases>>
           /\ ledger' = IF remember THEN AliasApplied(done, key, s, id) ELSE done
    /\ UniqueIn(ledger')
    /\ disputes' = IF ledger[i].reason = "DISPUTED" THEN [disputes EXCEPT ![i] = Unknown] ELSE disputes
    /\ UNCHANGED portal

SaveAlias(key, s) ==
    /\ PutAlias(key, s)
    /\ ledger' = AliasApplied(ledger, key, s, spelling'[key].id)
    /\ UniqueIn(ledger')
    /\ UNCHANGED <<portal, disputes>>

(* What an assignment resolved, exactly, comes back. *)
ResolvedBy(id) == {i \in DOMAIN ledger : ledger[i].alias = id}
DropAlias(key) ==
    /\ spelling[key] # Unknown
    /\ ledger' = [i \in DOMAIN ledger |->
                    IF i \in ResolvedBy(spelling[key].id)
                    THEN [Held(ledger[i], "AMBIGUOUS") EXCEPT !.supplier = Unknown, !.alias = Unknown,
                                                              !.person = FALSE]
                    ELSE ledger[i]]
    /\ spelling' = [spelling EXCEPT ![key] = Unknown]
    /\ UNCHANGED <<portal, aliases, disputes>>

(* The answer of triage to a dispute: what the case says the portal published *)
(* stays, or what was typed does and what was published is remembered.        *)
SettleManualDispute(i, keepPortal) ==
    /\ i \in DOMAIN ledger
    /\ disputes[i] # Unknown
    /\ ledger' = [ledger EXCEPT ![i] =
                    IF keepPortal
                    THEN [Settled(@) EXCEPT !.total = disputes[i], !.manual = FALSE, !.rejected = Unknown]
                    ELSE [Settled(@) EXCEPT !.rejected = disputes[i]]]
    /\ disputes' = [disputes EXCEPT ![i] = Unknown]
    /\ UNCHANGED <<portal, spelling, aliases>>

-------------------------------------------------------------------------------
HeldInit ==
    /\ portal = [p \in Texts \X Numbers |-> Unknown]
    /\ ledger = <<>>
    /\ spelling = [k \in Keys |-> Unknown]
    /\ aliases = 0
    /\ disputes = <<>>

PortalIsRead ==
    \/ \E t \in Texts, n \in Numbers, total \in Totals : Publish(t, n, total)
    \/ \E s \in Suppliers : RememberSupplier(s)
    \/ \E t \in Texts, n \in Numbers : RegisterInvoiceRow(t, n)
    \/ \E i \in DOMAIN ledger, agrees \in BOOLEAN, s \in Suppliers \cup {Unknown} :
          RecordDocument(i, agrees, s)
PeopleAnswer ==
    \/ \E n \in Numbers, s \in Suppliers, total \in Totals : RegisterInvoiceByHand(n, s, total)
    \/ \E i \in DOMAIN ledger, s \in Suppliers \cup {Unknown}, remember \in BOOLEAN, total \in Totals :
          ResolveInvoice(i, s, remember, total)
    \/ \E key \in Keys, s \in Suppliers : SaveAlias(key, s)
    \/ \E key \in Keys : DropAlias(key)
    \/ \E i \in DOMAIN ledger, keepPortal \in BOOLEAN : SettleManualDispute(i, keepPortal)
HeldNext == PortalIsRead \/ PeopleAnswer
HeldSpec == HeldInit /\ [][HeldNext]_heldVars

-------------------------------------------------------------------------------
(* No invoice is counted into a debt with nobody behind it: one without a     *)
(* supplier is held, unless a person let it through as it stands, whatever    *)
(* spellings were saved, revoked or re-pointed meanwhile (_create_invoice,    *)
(* drop_alias, resolve_invoice; RF-13, RF-22).                                *)
UnattributedIsHeld ==
    \A i \in DOMAIN ledger :
        ledger[i].supplier = Unknown /\ ledger[i].review # "PENDING" => ledger[i].person

(* An invoice held because the portal contradicts what somebody typed is      *)
(* asked about in triage: its case is open, whichever screen answers, and     *)
(* however many times the portal changed its mind (_dispute,                  *)
(* _announce_dispute_settled, settle_manual_dispute).                         *)
DisputeIsAsked ==
    \A i \in DOMAIN ledger : ledger[i].reason = "DISPUTED" => disputes[i] # Unknown

(* The question answered «what was typed stays» is not asked again for the    *)
(* same published value: only another value, or a screen that changes the     *)
(* invoice, opens it (_count_arrival, rejected_portal_values).                *)
RejectedIsNotAskedAgain ==
    [][\A i \in DOMAIN ledger :
          /\ ledger[i].manual /\ ledger[i].rejected # Unknown
          /\ disputes[i] = Unknown /\ disputes'[i] # Unknown
          => disputes'[i] # ledger[i].rejected]_heldVars

(* A row of the portal is one invoice: a second reading with the same total   *)
(* is counted, not stored twice (RF-38, RF-39, invoice_of).                   *)
StoredOnce ==
    \A i, j \in DOMAIN ledger :
        i # j /\ ~ledger[i].manual /\ ~ledger[j].manual
            => ledger[i].text # ledger[j].text \/ ledger[i].number # ledger[j].number

-------------------------------------------------------------------------------
(* The inductive invariant: the rows are typed, and each has its dispute.     *)
Reviews == {"PENDING", "OK", "RESOLVED"}
Reasons == {"AMBIGUOUS", "OUTSIDE", "DISPUTED", "ANOTHER_TOTAL", "FILE_DISAGREES"}
InvoiceRow ==
    [number : Numbers, text : Texts, supplier : Suppliers \cup {Unknown}, total : Totals,
     manual : BOOLEAN, review : Reviews, reason : Reasons \cup {Unknown},
     alias : Nat \cup {Unknown}, person : BOOLEAN, rejected : Totals \cup {Unknown}]
HeldTypeOK ==
    /\ portal \in [Texts \X Numbers -> Totals \cup {Unknown}]
    /\ ledger \in Seq(InvoiceRow)
    /\ disputes \in Seq(Totals \cup {Unknown}) /\ Len(disputes) = Len(ledger)
    /\ spelling \in [Keys -> [supplier : Suppliers, id : Nat] \cup {Unknown}]
    /\ aliases \in Nat
HeldInv == HeldTypeOK /\ UnattributedIsHeld /\ DisputeIsAsked
==============================================================================
