------------------------------ MODULE MCPlatform ------------------------------
(* The parts around the ledger side by side: prices, sales, price lists, what *)
(* screens say, how their rows are typed, the documents of invoices, the      *)
(* inbox, who is alerted and when, and the accesses. They share no variable,  *)
(* and a behaviour moves one of them, chosen at the beginning, while the rest *)
(* stay as they start: the states are the sum of those of the parts.          *)
EXTENDS Prices, Sales, PriceLists, Screens, Staging, InvoiceFiles, Inbox, Recipients,
        AlertWindow, Access, TLC

CONSTANTS Sides, c1, c2, m1, m2, m3, m4, x1, x2, x4, p1

VARIABLE side
platformVars == <<side, pricesVars, salesVars, listVars, screenVars, stagingVars,
                  fileVars, inboxVars, recipientVars, windowVars, accessVars>>

\* What the other parts are doing while one of them moves.
RestOf(moving) ==
    /\ moving = side
    /\ UNCHANGED side
    /\ moving # "prices" => UNCHANGED pricesVars
    /\ moving # "sales" => UNCHANGED salesVars
    /\ moving # "lists" => UNCHANGED listVars
    /\ moving # "screens" => UNCHANGED screenVars
    /\ moving # "staging" => UNCHANGED stagingVars
    /\ moving # "files" => UNCHANGED fileVars
    /\ moving # "inbox" => UNCHANGED inboxVars
    /\ moving # "recipients" => UNCHANGED recipientVars
    /\ moving # "window" => UNCHANGED windowVars
    /\ moving # "access" => UNCHANGED accessVars

PlatformInit ==
    /\ side \in Sides
    /\ PricesInit /\ SalesInit /\ ListsInit /\ ScreensInit /\ StagingInit
    /\ FilesInit /\ InboxInit /\ RecipientsInit /\ WindowInit /\ AccessInit
    /\ side # "staging" => screen = "sales"
    /\ side # "files" => rows = Rows /\ file = CHOOSE f \in Files : f.declared = "SHEET"
PlatformNext ==
    \/ RestOf("prices") /\ PricesNext
    \/ RestOf("sales") /\ SalesNext
    \/ RestOf("lists") /\ ListsNext
    \/ RestOf("screens") /\ ScreensNext
    \/ RestOf("staging") /\ StagingNext
    \/ RestOf("files") /\ FilesNext
    \/ RestOf("inbox") /\ InboxNext
    \/ RestOf("recipients") /\ RecipientsNext
    \/ RestOf("window") /\ WindowNext
    \/ RestOf("access") /\ AccessNext

\* Only the periodic task of the sales has something that must be done.
PlatformFairness ==
    /\ WF_salesVars(RestOf("sales") /\ RequestPendingWork)
    /\ WF_salesVars(RestOf("sales") /\ Reconcile)
PlatformSpec ==
    PlatformInit /\ [][PlatformNext]_platformVars /\ PlatformFairness

\* Lists that seed, that bring a product late, that lose one and that cannot be read.
Contents == {c1 :> "READABLE" @@ c2 :> "ABSENT",
             c1 :> "UNREADABLE" @@ c2 :> "UNREADABLE",
             c1 :> "ABSENT" @@ c2 :> "READABLE"}

\* m1 has an id of its own and no date, m2 and m3 cannot be told apart, m4 has neither.
IdOf == m1 :> x1 @@ m2 :> x2 @@ m3 :> x2 @@ m4 :> x4

\* The file of an invoice: what two of its readers get out of it, each the amounts it
\* labels, those it prints, and its lines with a tax id.
Text(labelled, printed, ids) == [labelled |-> labelled, printed |-> printed, ids |-> ids]
OfClient == [client |-> TRUE, of |-> NoSupplier]
OfIssuer == [client |-> FALSE, of |-> p1]
Document(declared, pdf, scan) ==
    [declared |-> declared, text |-> [PDF |-> pdf, SCAN |-> scan, SHEET |-> NoFile]]
Documents == {Document("PDF", Text({}, {10}, <<OfClient>>), NoFile),
              Document("PDF", Text({12}, {10, 12}, <<OfClient, OfIssuer>>), NoFile),
              Document("SCAN", Text({}, {12}, <<>>), Text({}, {10}, <<>>)),
              Document("SCAN", NoFile, Text({}, {}, <<OfIssuer>>)),
              Document("SHEET", NoFile, NoFile)}

RoutedTo == "PAYMENT_CLAIM" :> "PURCHASING"
===============================================================================
