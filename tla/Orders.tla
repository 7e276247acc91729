-------------------------------- MODULE Orders --------------------------------
(* The purchase orders the portal publishes, how long each has been where it  *)
(* is, and which ones repeat an earlier one (modules/purchases:               *)
(* register_orders, register_order_by_hand, resolve_order, dismiss_repeat).   *)
(*                                                                            *)
(* Every operation is one transaction and one step: the number of an order is *)
(* unique in the table.                                                       *)
EXTENDS Integers, Sequences, FiniteSets, Folds

CONSTANTS
    Buyers,         \* the suppliers of the register
    OrderNumbers,
    Names,          \* the spellings an order may carry
    Whose,          \* [Names -> Buyers \cup {Nil}]: what resolve_supplier answers;
                    \* the answers people save are in HeldInvoices
    Products,
    Statuses,       \* the states of the portal; one of them is Received
    Received,
    Amount,         \* what an order may be worth
    Window,         \* purchase_repeat_window_days
    Horizon,        \* bound: the days of the model are 0..Horizon
    Nil

VARIABLES
    date,           \* today
    orders,         \* the table of purchase orders
    orderDisputes   \* [orders -> what the open case of triage says was published]
orderVars == <<date, orders, orderDisputes>>

ASSUME OrdersAssumption ==
    /\ Window \in Nat /\ Horizon \in Nat
    /\ Received \in Statuses
    /\ Whose \in [Names -> Buyers \cup {Nil}]
    /\ Nil \notin Buyers \cup Products \cup Nat

Row(number, on, supplier, name, product, amount, status) ==
    [number |-> number, on |-> on, supplier |-> supplier, name |-> name, product |-> product,
     amount |-> amount, status |-> status, since |-> date, fromStart |-> on >= date,
     manual |-> FALSE, review |-> IF supplier = Nil THEN "PENDING" ELSE "OK",
     rejected |-> Nil, repeatOf |-> Nil]

OrderNumbered(n) == {k \in DOMAIN orders : orders[k].number = n}

(* A mutant of EarlierOrderFor: whichever supplier the earlier order is of. *)
EarlierOrderForAnyone(T, supplier, product, on) ==
    LET found == {k \in DOMAIN T : T[k].product = product /\ T[k].on \in (on - Window)..on}
    IN  IF supplier = Nil \/ product = Nil \/ found = {} THEN Nil
        ELSE CHOOSE k \in found : \A o \in found : T[o].on <= T[k].on

(* The latest order of that product to that supplier in the window, or none.  *)
(* T is the table as the transaction has written it so far.                   *)
EarlierOrderFor(T, supplier, product, on) ==
    LET found == {k \in DOMAIN T : /\ T[k].supplier = supplier
                                   /\ T[k].product = product
                                   /\ T[k].on \in (on - Window)..on}
    IN  IF supplier = Nil \/ product = Nil \/ found = {} THEN Nil
        ELSE CHOOSE k \in found : \A o \in found : T[o].on <= T[k].on

OrderHeld(row) == [row EXCEPT !.review = "PENDING"]
OrderSettled(row) == [row EXCEPT !.review = "RESOLVED"]

-------------------------------------------------------------------------------
(* The portal. *)

(* An order met again moves on in the portal's states, and the clock of the   *)
(* state starts again; what a person typed is disputed unless the portal says *)
(* the same or what was already rejected.                                     *)
Advanced(row, status) ==
    IF row.status = status THEN row ELSE [row EXCEPT !.status = status, !.since = date]
Differs(row, amount) == row.manual /\ row.amount # amount /\ row.rejected # amount

MeetOrder(k, amount, status) ==
    /\ orders' = [orders EXCEPT ![k] = IF Differs(@, amount) THEN OrderHeld(Advanced(@, status))
                                       ELSE Advanced(@, status)]
    /\ orderDisputes' = IF Differs(orders[k], amount) THEN [orderDisputes EXCEPT ![k] = amount]
                        ELSE orderDisputes

AddOrder(n, on, name, product, amount, status) ==
    /\ orders' = Append(orders, [Row(n, on, Whose[name], name, product, amount, status)
                    EXCEPT !.repeatOf = EarlierOrderFor(orders, Whose[name], product, on)])
    /\ orderDisputes' = Append(orderDisputes, Nil)

RegisterOrder(n, on, name, product, amount, status) ==
    /\ IF OrderNumbered(n) = {} THEN AddOrder(n, on, name, product, amount, status)
       ELSE MeetOrder(CHOOSE k \in OrderNumbered(n) : TRUE, amount, status)
    /\ UNCHANGED date

-------------------------------------------------------------------------------
(* People. *)

RegisterOrderByHand(n, on, supplier, name, amount) ==
    /\ OrderNumbered(n) = {}
    /\ orders' = Append(orders, [OrderSettled(Row(n, on, supplier, name, Nil, amount, Nil))
                                    EXCEPT !.manual = TRUE, !.fromStart = FALSE])
    /\ orderDisputes' = Append(orderDisputes, Nil)
    /\ UNCHANGED date

(* Given its supplier, an order is compared at last with the earlier ones. *)
AttachedOrder(T, k, supplier) ==
    LET earlier == EarlierOrderFor(T, supplier, T[k].product, T[k].on)
    IN  [T EXCEPT ![k] = [OrderSettled(T[k]) EXCEPT !.supplier = supplier,
                            !.repeatOf = IF earlier \in {Nil, k} THEN T[k].repeatOf ELSE earlier]]

(* A spelling reaches every order held under it, the latest first and the     *)
(* earliest last; each one is compared with what the ones before it were      *)
(* given.                                                                     *)
HeldUnder(T, name) == {k \in DOMAIN T : T[k].review = "PENDING" /\ T[k].name = name}
Earliest(T, S) ==
    CHOOSE a \in S : \A b \in S : T[a].on < T[b].on \/ (T[a].on = T[b].on /\ a <= b)
ApplyAlias(T, name, supplier) ==
    MapThenFoldSet(LAMBDA k, U : AttachedOrder(U, k, supplier), T, LAMBDA k : k,
                   LAMBDA left : Earliest(T, left), HeldUnder(T, name))

ResolveOrder(k, supplier, remember) ==
    /\ k \in DOMAIN orders
    /\ orders[k].review = "PENDING"
    /\ LET attached == AttachedOrder(orders, k, supplier)
       IN  orders' = IF remember THEN ApplyAlias(attached, orders[k].name, supplier) ELSE attached
    /\ UNCHANGED <<date, orderDisputes>>

(* Saved on the screen of spellings. *)
SaveSpelling(name, supplier) ==
    /\ orders' = ApplyAlias(orders, name, supplier)
    /\ UNCHANGED <<date, orderDisputes>>

DismissRepeat(k) ==
    /\ k \in DOMAIN orders
    /\ orders' = [orders EXCEPT ![k].repeatOf = Nil]
    /\ UNCHANGED <<date, orderDisputes>>

SettleOrderDispute(k, keepPortal) ==
    /\ k \in DOMAIN orders
    /\ orderDisputes[k] # Nil
    /\ orders' = [orders EXCEPT ![k] =
                    IF keepPortal
                    THEN [OrderSettled(@) EXCEPT !.amount = orderDisputes[k], !.manual = FALSE, !.rejected = Nil]
                    ELSE [OrderSettled(@) EXCEPT !.rejected = orderDisputes[k]]]
    /\ orderDisputes' = [orderDisputes EXCEPT ![k] = Nil]
    /\ UNCHANGED date

DayPasses ==
    /\ date < Horizon
    /\ date' = date + 1
    /\ UNCHANGED <<orders, orderDisputes>>

OrdersInit == date = 0 /\ orders = <<>> /\ orderDisputes = <<>>

OrdersNext ==
    \/ \E n \in OrderNumbers, on \in 0..Horizon, name \in Names, product \in Products,
          amount \in Amount, status \in Statuses :
          RegisterOrder(n, on, name, product, amount, status)
    \/ \E n \in OrderNumbers, on \in 0..Horizon, s \in Buyers, name \in Names, amount \in Amount :
          Whose[name] = s /\ RegisterOrderByHand(n, on, s, name, amount)
    \/ \E k \in DOMAIN orders, s \in Buyers, remember \in BOOLEAN : ResolveOrder(k, s, remember)
    \/ \E name \in Names, s \in Buyers : SaveSpelling(name, s)
    \/ \E k \in DOMAIN orders : DismissRepeat(k)
    \/ \E k \in DOMAIN orders, keepPortal \in BOOLEAN : SettleOrderDispute(k, keepPortal)
    \/ DayPasses
OrdersSpec == OrdersInit /\ [][OrdersNext]_orderVars

-------------------------------------------------------------------------------
(* An order said to repeat another one is of the same product and supplier,   *)
(* and that other one was placed in the window before it: also when its       *)
(* supplier was only said later, by hand or by a spelling that was remembered *)
(* (register_orders, _attach_order; RF-15, RF-59, RF-60).                     *)
RepeatIsEarlier ==
    \A k \in DOMAIN orders : orders[k].repeatOf # Nil =>
        LET earlier == orders[orders[k].repeatOf]
        IN  /\ orders[k].repeatOf # k
            /\ earlier.supplier = orders[k].supplier /\ orders[k].supplier # Nil
            /\ earlier.product = orders[k].product
            /\ orders[k].on - earlier.on \in 0..Window
==============================================================================
