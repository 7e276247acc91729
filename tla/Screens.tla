------------------------------- MODULE Screens -------------------------------
(***************************************************************************)
(* What a screen of the portal becomes (ingestion/parsers.py): the rows of *)
(* the price list, and the headings and tables of the register of          *)
(* suppliers, which is the one screen where what a table means depends on  *)
(* what is above it.                                                       *)
(*                                                                         *)
(* A cell is what its reader makes of it: a price, an amount or a date is  *)
(* readable or has a reason not to be.  A state is a screen as far as it   *)
(* was written; the parsers are functions of it.                           *)
(***************************************************************************)
EXTENDS Naturals, Sequences, SequencesExt, FiniteSets

CONSTANTS
    ProductCodes,  \* what a row can say in its column of code
    SupplierNames, \* legal names
    CardTerms,     \* payment terms a card can say
    NoText,        \* an empty cell, or no heading
    MaxLines,       \* bound: rows of the price list
    MaxBlocks      \* bound: blocks of the register

ASSUME ScreensAssumption == NoText \notin ProductCodes \cup SupplierNames \cup CardTerms

VARIABLES
    lines,   \* the price list: the rows under its header
    blocks   \* the register, under its summary: headings and tables

screenVars == <<lines, blocks>>

(***************************************************************************)
(* parse_price_list.                                                       *)
(***************************************************************************)
PriceLines == [code : ProductCodes \cup {NoText}, price : {"PRICE", "NOT_A_PRICE"},
               blank : {FALSE}]
              \cup {[code |-> NoText, price |-> "NOT_A_PRICE", blank |-> TRUE]}

\* The code counts as seen before its price is read.
\* A mutant: the code counts as seen once its price was read.
PriceRowSeenWhenPriced(done, line) ==
    LET row(reason) == [line |-> done.next, code |-> line.code, reason |-> reason]
        with(reason, codes) == [done EXCEPT !.rows = Append(@, row(reason)), !.next = @ + 1,
                                            !.seen = @ \cup codes]
    IN  IF line.blank THEN [done EXCEPT !.next = @ + 1]
        ELSE IF line.code = NoText THEN with("MISSING_CODE", {})
        ELSE IF line.code \in done.seen THEN with("DUPLICATE_CODE", {})
        ELSE IF line.price = "NOT_A_PRICE" THEN with("PRICE", {})
        ELSE with("NONE", {line.code})

PriceRow(done, line) ==
    LET row(reason) == [line |-> done.next, code |-> line.code, reason |-> reason]
        with(reason) == [done EXCEPT !.rows = Append(@, row(reason)), !.next = @ + 1,
                                     !.seen = @ \cup {line.code}]
    IN  IF line.blank THEN [done EXCEPT !.next = @ + 1]
        ELSE IF line.code = NoText THEN with("MISSING_CODE")
        ELSE IF line.code \in done.seen THEN with("DUPLICATE_CODE")
        ELSE IF line.price = "NOT_A_PRICE" THEN with("PRICE")
        ELSE with("NONE")

ParsePriceList(written) ==
    FoldLeft(PriceRow, [rows |-> <<>>, seen |-> {NoText}, next |-> 1], written).rows

(***************************************************************************)
(* parse_supplier_ledger.                                                  *)
(***************************************************************************)
\* A heading that is a detail names its supplier; a table without headers is a card;
\* one with the columns of movements has rows, and only those of payments matter.
Headings == [kind : {"HEADING"}, detail : SupplierNames \cup {NoText}]
CardTables == [kind : {"CARD"}, term : CardTerms]
MovementTables == [kind : {"MOVEMENTS"}, payment : BOOLEAN, readable : BOOLEAN]
OtherTables == [kind : {"OTHER"}]
Blocks == Headings \cup CardTables \cup MovementTables \cup OtherTables

LedgerBlock(done, block) ==
    IF block.kind = "HEADING"
    THEN [done EXCEPT !.current = IF block.detail = NoText THEN @ ELSE block.detail,
                      !.at = @ + 1]
    ELSE IF done.current = NoText THEN [done EXCEPT !.at = @ + 1]
    ELSE IF block.kind = "CARD"
    THEN [done EXCEPT !.cards = [@ EXCEPT ![done.current] = block.term], !.at = @ + 1]
    ELSE IF block.kind = "MOVEMENTS" /\ block.payment
    THEN [done EXCEPT !.payments = @ \cup {[at |-> done.at, supplier |-> done.current,
                                            readable |-> block.readable]},
                      !.at = @ + 1]
    ELSE [done EXCEPT !.at = @ + 1]

ParseLedger(written) ==
    FoldLeft(LedgerBlock,
             [current |-> NoText, cards |-> [s \in SupplierNames |-> NoText],
              payments |-> {}, at |-> 1], written)

(***************************************************************************)
(* Screens, as they are written.                                           *)
(***************************************************************************)
WriteLine(line) ==
    /\ Len(lines) < MaxLines
    /\ lines' = Append(lines, line)
    /\ UNCHANGED blocks

WriteBlock(block) ==
    /\ lines = <<>>
    /\ Len(blocks) < MaxBlocks
    /\ blocks' = Append(blocks, block)
    /\ UNCHANGED lines

ScreensInit == lines = <<>> /\ blocks = <<>>
ScreensNext ==
    \/ blocks = <<>> /\ \E line \in PriceLines : WriteLine(line)
    \/ \E block \in Blocks : WriteBlock(block)
ScreensSpec == ScreensInit /\ [][ScreensNext]_screenVars

\* Every row that says something is read once, and goes through with a code and a price;
\* of the rows of one code only the first can, and a broken first one does not let a
\* later one through: the parser never hands two prices of one code, nor one in doubt
\* (parsers.py:180-227).
OnePricePerCode ==
    LET parsed == ParsePriceList(lines)
        said == {n \in DOMAIN lines : ~lines[n].blank}
        First(n) == \A m \in 1..(n - 1) : lines[m].code # lines[n].code
    IN  /\ {parsed[k].line : k \in DOMAIN parsed} = said
        /\ Len(parsed) = Cardinality(said)
        /\ \A k \in DOMAIN parsed :
               LET n == parsed[k].line
               IN  parsed[k].reason = "NONE"
                       <=> lines[n].code # NoText /\ First(n) /\ lines[n].price = "PRICE"

\* A payment is of the supplier whose detail it is written under, however many headings
\* and tables come in between, and a card is the last one under its supplier; what
\* comes before the first detail is of nobody (parsers.py:772-787).
LedgerIsReadByDetail ==
    LET parsed == ParseLedger(blocks)
        Details(n) == {m \in 1..(n - 1) : blocks[m].kind = "HEADING" /\ blocks[m].detail # NoText}
        Under(n, s) == \E m \in Details(n) : /\ blocks[m].detail = s
                                             /\ \A k \in Details(n) : k <= m
        CardsOf(s) == {n \in DOMAIN blocks : blocks[n].kind = "CARD" /\ Under(n, s)}
    IN  /\ \A n \in DOMAIN blocks, s \in SupplierNames :
               [at |-> n, supplier |-> s, readable |-> TRUE] \in parsed.payments
                   <=> /\ blocks[n].kind = "MOVEMENTS" /\ blocks[n].payment
                       /\ blocks[n].readable /\ Under(n, s)
        /\ \A s \in SupplierNames :
               IF CardsOf(s) = {} THEN parsed.cards[s] = NoText
               ELSE \E n \in CardsOf(s) : /\ parsed.cards[s] = blocks[n].term
                                          /\ \A other \in CardsOf(s) : other <= n

\* Both screens are read as they are written, whatever the order of their rows and
\* blocks.
ReadAsWritten == OnePricePerCode /\ LedgerIsReadByDetail
=============================================================================
