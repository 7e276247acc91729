----------------------------- MODULE SupplierCards -----------------------------
(* The register of suppliers, read every morning, and the corrections people  *)
(* make of it (modules/purchases: remember_suppliers, correct_supplier).      *)
(*                                                                            *)
(* What the register says of a card is two steps of one transaction: the      *)
(* SELECT of the corrections in force, with the comparison and the notices    *)
(* that follow from it, and the UPDATE of the card. Nothing is locked between *)
(* them, and a correction may be committed there. A correction is one step:   *)
(* two people over one field of one supplier at once are not modelled.        *)
EXTENDS Integers, FiniteSets

CONSTANTS
    Cards,          \* the suppliers the register may publish
    Fields,         \* what a card says
    Correctable,    \* the fields a person may correct
    Details,        \* what a field may say
    Silent          \* a field the register did not publish, a card nobody has

VARIABLES
    card,       \* [Cards -> Silent or [Fields -> Details \cup {Silent}]]
    corrected,  \* [Cards \X Correctable -> Silent or the correction in force]
    applying,   \* [Cards -> Silent or what the register is about to write]
    overtaken,  \* the corrections committed while the register was about to write the field
    told,       \* the differences the owner was told of, of the corrections in force
    contradicted\* [Cards \X Correctable -> what the register said since the last correction]
cardVars == <<card, corrected, applying, overtaken, told, contradicted>>

Readings == [Fields -> Details \cup {Silent}]
CorrectionRow == [portal : Details \cup {Silent}, value : Details,
                  status : {"ACTIVE", "CONFLICTED"}, conflict : Details \cup {Silent}]
ASSUME CardsAssumption ==
    /\ Correctable \subseteq Fields
    /\ Silent \notin Details /\ Silent \notin Readings /\ Silent \notin CorrectionRow

Correction(portal, value) ==
    [portal |-> portal, value |-> value, status |-> "ACTIVE", conflict |-> Silent]

(* What the register did not publish is silence: it changes nothing. *)
PutSupplier(c, reading) ==
    [f \in Fields |-> IF reading[f] # Silent THEN reading[f]
                      ELSE IF card[c] = Silent THEN Silent ELSE card[c][f]]

(* A mutant of CorrectionsHolding: a contradicted correction stops holding. *)
CorrectionsActive(c) ==
    IF card[c] = Silent THEN {}
    ELSE {f \in Correctable : corrected[c, f] # Silent /\ corrected[c, f].status = "ACTIVE"}

(* The fields the register may not write. *)
CorrectionsHolding(c) == IF card[c] = Silent THEN {}
                         ELSE {f \in Correctable : corrected[c, f] # Silent}

(* A mutant of InConflict: compared with the corrected value. *)
InConflictWithValue(c, f, incoming) ==
    /\ f \in CorrectionsHolding(c)
    /\ incoming # Silent
    /\ incoming # corrected[c, f].value
    /\ ~(corrected[c, f].status = "CONFLICTED" /\ corrected[c, f].conflict = incoming)

(* The register is compared with what it used to say, never with what it was  *)
(* corrected to; a difference already told is not told again.                 *)
InConflict(c, f, incoming) ==
    /\ f \in CorrectionsHolding(c)
    /\ incoming # Silent
    /\ incoming # corrected[c, f].portal
    /\ ~(corrected[c, f].status = "CONFLICTED" /\ corrected[c, f].conflict = incoming)

(* The first half: the fields somebody corrected are taken out of the reading, *)
(* and those it contradicts are flagged and told.                             *)
ReadCorrections(c, reading) ==
    /\ applying[c] = Silent
    /\ LET held  == CorrectionsHolding(c)
           clash == {f \in Correctable : InConflict(c, f, reading[f])}
       IN  /\ applying' = [applying EXCEPT ![c] =
                    [f \in Fields |-> IF f \in held THEN Silent ELSE reading[f]]]
           /\ corrected' = [p \in Cards \X Correctable |->
                IF p[1] = c /\ p[2] \in clash
                THEN [corrected[p] EXCEPT !.status = "CONFLICTED", !.conflict = reading[p[2]]]
                ELSE corrected[p]]
           /\ told' = told \cup {<<c, f, reading[f]>> : f \in clash}
           /\ contradicted' = [p \in Cards \X Correctable |->
                IF p[1] = c /\ p[2] \in held /\ reading[p[2]] # Silent
                THEN contradicted[p] \cup {reading[p[2]]} ELSE contradicted[p]]
    /\ UNCHANGED <<card, overtaken>>

(* The second half: what is left of the reading is written, whatever was      *)
(* corrected meanwhile.                                                       *)
PutSupplierCard(c) ==
    /\ applying[c] # Silent
    /\ card' = [card EXCEPT ![c] = PutSupplier(c, applying[c])]
    /\ applying' = [applying EXCEPT ![c] = Silent]
    /\ UNCHANGED <<corrected, overtaken, told, contradicted>>

AboutToWrite(c, f) == applying[c] # Silent /\ applying[c][f] # Silent

(* Correcting again moves the correction: what the register said stays what   *)
(* it said.                                                                   *)
CorrectSupplier(c, f, value) ==
    /\ card[c] # Silent
    /\ ~(card[c][f] = value /\ corrected[c, f] = Silent)
    /\ card' = [card EXCEPT ![c][f] = value]
    /\ corrected' = [corrected EXCEPT ![<<c, f>>] =
                        Correction(IF @ = Silent THEN card[c][f] ELSE @.portal, value)]
    /\ told' = {d \in told : d[1] # c \/ d[2] # f}
    /\ contradicted' = [contradicted EXCEPT ![<<c, f>>] = {}]
    /\ overtaken' = IF AboutToWrite(c, f) THEN overtaken \cup {<<c, f>>}
                                          ELSE overtaken \ {<<c, f>>}
    /\ UNCHANGED applying

CardsInit ==
    /\ card = [c \in Cards |-> Silent]
    /\ corrected = [p \in Cards \X Correctable |-> Silent]
    /\ applying = [c \in Cards |-> Silent]
    /\ overtaken = {}
    /\ told = {}
    /\ contradicted = [p \in Cards \X Correctable |-> {}]
CardsNext ==
    \/ \E c \in Cards, reading \in Readings : ReadCorrections(c, reading)
    \/ \E c \in Cards : PutSupplierCard(c)
    \/ \E c \in Cards, f \in Correctable, value \in Details : CorrectSupplier(c, f, value)
CardsSpec == CardsInit /\ [][CardsNext]_cardVars

(* A field somebody corrected says what they wrote, reading after reading,    *)
(* until somebody corrects it again (_corrections_holding, put_supplier;      *)
(* RF-19). One exception the code makes: a correction committed after the     *)
(* register looked for it and before it wrote the card is written over, and   *)
(* stays in force over the value of the register (remember_suppliers).        *)
CorrectionStands ==
    \A c \in Cards, f \in Correctable :
        corrected[c, f] # Silent /\ <<c, f>> \notin overtaken
            => card[c][f] = corrected[c, f].value

(* The owner is told of every value the register published against a standing *)
(* correction, and of nothing else: neither of the value the register had     *)
(* when it was corrected, nor of the corrected one while the register repeats *)
(* itself (_check_supplier_conflict).                                         *)
ToldOfEachDifference ==
    \A c \in Cards, f \in Correctable : corrected[c, f] # Silent =>
        {d[3] : d \in {e \in told : e[1] = c /\ e[2] = f}}
            = contradicted[c, f] \ {corrected[c, f].portal}

(* The inductive invariant: a correction is of a card that is there, the      *)
(* difference it is in conflict with is one of those that came since, and the *)
(* register is about to write over those it overtook and no other.            *)
CardsTypeOK ==
    /\ card \in [Cards -> Readings \cup {Silent}]
    /\ corrected \in [Cards \X Correctable -> CorrectionRow \cup {Silent}]
    /\ applying \in [Cards -> Readings \cup {Silent}]
    /\ overtaken \subseteq Cards \X Correctable
    /\ told \subseteq Cards \X Correctable \X Details
    /\ contradicted \in [Cards \X Correctable -> SUBSET Details]
ConflictCame ==
    \A c \in Cards, f \in Correctable : corrected[c, f] # Silent =>
        /\ card[c] # Silent
        /\ corrected[c, f].status = "CONFLICTED" =>
              corrected[c, f].conflict \in contradicted[c, f] \ {corrected[c, f].portal}
WritesNoCorrection ==
    \A c \in Cards, f \in Correctable :
        corrected[c, f] # Silent /\ AboutToWrite(c, f) => <<c, f>> \in overtaken
CardsInv == /\ CardsTypeOK /\ ConflictCame /\ WritesNoCorrection
            /\ CorrectionStands /\ ToldOfEachDifference
==============================================================================
