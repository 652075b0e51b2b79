---------------------------- MODULE Deliveries ----------------------------
(* Invoices and credit notes made when the deliveries and returns of a sale *)
(* order are done, next to those that users make, delete and ask for in the *)
(* wizard; and the checks that may refuse a transfer.                       *)
EXTENDS Integers, Sequences, SequencesExt, FiniteSets, FiniteSetsExt, Functions, TLC

CONSTANTS
    OrderLines,
    Ordered,         \* product_uom_qty of each line
    Policies,        \* the invoice policies the lines may have
    Settings,        \* pairs [excess, negative]: what is refused
    OnHand,          \* how much of each product there is at first
    Forms,           \* customs references; NoForm is one
    MaxPickings,     \* bound: pickings of the order
    MaxInvoices,     \* bound: invoices made for it
    MaxTouches       \* bound: what users do besides moving goods

VARIABLES
    policy,          \* "order" or "delivery", for each line
    restrictions,
    onHand,
    pickings,        \* [kind, demand, done, form], kind "out" or "in"
    invoices,        \* [picking, sign, qty, form]; picking 0: made by hand
    madeByHand,      \* ghost: invoices were made or deleted by hand
    manyAsked,       \* ghost: the wizard was used on several pickings
    touches

ghosts == <<madeByHand, manyAsked>>
deliveryVars == <<policy, restrictions, onHand, pickings, invoices, ghosts, touches>>

NoForm == "none"
Zeros == [l \in OrderLines |-> 0]
Open == Zeros \* done, while the picking is not

ASSUME DeliveriesAssumption ==
    /\ Ordered \in [OrderLines -> Nat \ {0}] /\ OnHand \in [OrderLines -> Nat]
    /\ NoForm \in Forms
    /\ Policies \subseteq [OrderLines -> {"order", "delivery"}]
    /\ MaxPickings \in Nat \ {0} /\ MaxInvoices \in Nat /\ MaxTouches \in Nat

-----------------------------------------------------------------------------
(* The sale order, as sale and sale_stock count it                          *)

IsDone(p) == p.done # Open
Moved(p, l) == IF p.kind = "out" THEN p.done[l] ELSE -p.done[l]
Charged(i, l) == i.sign * i.qty[l]
QtyDelivered(P, l) == FoldLeft(+, 0, [k \in DOMAIN P |-> Moved(P[k], l)])
QtyInvoiced(I, l) == FoldLeft(+, 0, [i \in DOMAIN I |-> Charged(I[i], l)])
QtyToInvoice(P, I, l) ==
    (IF policy[l] = "order" THEN Ordered[l] ELSE QtyDelivered(P, l)) - QtyInvoiced(I, l)

LineStatus(P, I, l) ==
    IF QtyToInvoice(P, I, l) # 0 THEN "to invoice"
    ELSE IF policy[l] = "order" /\ QtyDelivered(P, l) > Ordered[l] THEN "upselling"
    ELSE IF QtyInvoiced(I, l) >= Ordered[l] THEN "invoiced" ELSE "no"

InvoiceStatus(P, I) ==
    LET S == {LineStatus(P, I, l) : l \in OrderLines} IN
    IF "to invoice" \in S THEN "to invoice"
    ELSE IF S = {"invoiced"} THEN "invoiced"
    ELSE IF S \subseteq {"invoiced", "upselling"} THEN "upselling" ELSE "no"

-----------------------------------------------------------------------------
(* The handlers.  P and I are the pickings and invoices they find, k is the *)
(* position of the picking; they return the invoices there are then.        *)

Invoice(k, sign, qty, form) == [picking |-> k, sign |-> sign, qty |-> qty, form |-> form]

\* Mutant of Invoices: orders are only invoiced while something is left to.
Invoices_ToInvoice(P, I) == InvoiceStatus(P, I) = "to invoice"

Invoices(P, I) == InvoiceStatus(P, I) \notin {"invoiced", "no"}

CreateInvoice(P, I, k) ==
    IF Invoices(P, I) THEN Append(I, Invoice(k, 1, P[k].done, P[k].form)) ELSE I

\* A credit note does not get the customs reference.
CreateCustomerCredit(P, I, k) ==
    IF InvoiceStatus(P, I) \in {"to invoice", "invoiced"}
    THEN Append(I, Invoice(k, -1, P[k].done, NoForm)) ELSE I

ActionDone(P, I, k) ==
    IF P[k].kind = "out" THEN CreateInvoice(P, I, k) ELSE CreateCustomerCredit(P, I, k)

\* The last picking of a recordset gives the count of all of them.
InvoiceCount(I, ks) == Cardinality({i \in DOMAIN I : I[i].picking = Last(ks)})

Asked(P, I, ks, k) == IsDone(P[k]) /\ InvoiceCount(I, ks) = 0

-----------------------------------------------------------------------------
(* Actions *)

DeliveryInit ==
    /\ policy \in Policies /\ restrictions \in Settings /\ onHand = OnHand
    /\ pickings = <<[kind |-> "out", demand |-> Ordered, done |-> Open, form |-> NoForm]>>
    /\ invoices = <<>> /\ madeByHand = FALSE /\ manyAsked = FALSE /\ touches = 0

\* check_negative_qty, of the stock location, after the move; and
\* button_validate, where excess_quantity_allow means that excess is refused.
CheckNegativeQty(stock) ==
    restrictions.negative => \A l \in OrderLines : stock[l] >= 0
CheckExcess(p, done) ==
    restrictions.excess => \A l \in OrderLines : done[l] <= p.demand[l]

Validate(k, done, backorder) ==
    LET p == pickings[k]
        rest == [l \in OrderLines |-> Max({p.demand[l] - done[l], 0})]
        sign == IF p.kind = "out" THEN -1 ELSE 1
        P == [pickings EXCEPT ![k].done = done]
    IN
    /\ ~IsDone(p) /\ done # Open /\ CheckExcess(p, done)
    /\ \A l \in OrderLines : p.demand[l] = 0 => done[l] = 0
    /\ onHand' = [l \in OrderLines |-> onHand[l] + sign * done[l]]
    /\ CheckNegativeQty(onHand')
    /\ backorder => rest # Zeros /\ Len(pickings) < MaxPickings
    /\ Len(invoices) < MaxInvoices
    /\ pickings' = IF backorder
                   THEN Append(P, [p EXCEPT !.demand = rest, !.form = NoForm]) ELSE P
    /\ invoices' = ActionDone(P, invoices, k)
    /\ UNCHANGED <<policy, restrictions, ghosts, touches>>

\* A return takes back what was moved.
CreateReturns(k) ==
    LET p == pickings[k] IN
    /\ IsDone(p) /\ Len(pickings) < MaxPickings
    /\ pickings' = Append(pickings, [kind |-> IF p.kind = "out" THEN "in" ELSE "out",
                                     demand |-> p.done, done |-> Open, form |-> NoForm])
    /\ UNCHANGED <<policy, restrictions, onHand, invoices, ghosts, touches>>

Touch == touches < MaxTouches /\ touches' = touches + 1

WriteForm(k, form) ==
    /\ Touch
    /\ pickings' = [pickings EXCEPT ![k].form = form]
    /\ invoices' = [i \in DOMAIN invoices |->
                       IF invoices[i].picking = k
                       THEN [invoices[i] EXCEPT !.form = form] ELSE invoices[i]]
    /\ UNCHANGED <<policy, restrictions, onHand, ghosts>>

\* Incoming pickings need methods that do not exist: nothing is done then.
PickingMultiInvoice(ks) ==
    LET asked(k) == Asked(pickings, invoices, ks, k)
        made(I, k) == IF asked(k) THEN CreateInvoice(pickings, I, k) ELSE I
    IN
    /\ Touch
    /\ \A i \in DOMAIN ks : asked(ks[i]) => pickings[ks[i]].kind = "out"
    /\ invoices' = FoldLeft(made, invoices, ks)
    /\ Len(invoices') <= MaxInvoices
    /\ manyAsked' = (manyAsked \/ Len(ks) > 1)
    /\ UNCHANGED <<policy, restrictions, onHand, pickings, madeByHand>>

InvoiceByHand ==
    LET qty == [l \in OrderLines |-> Max({QtyToInvoice(pickings, invoices, l), 0})] IN
    /\ Touch
    /\ qty # Zeros /\ Len(invoices) < MaxInvoices
    /\ invoices' = Append(invoices, Invoice(0, 1, qty, NoForm))
    /\ madeByHand' = TRUE
    /\ UNCHANGED <<policy, restrictions, onHand, pickings, manyAsked>>

DeleteInvoice(i) ==
    /\ Touch
    /\ invoices' = RemoveAt(invoices, i) /\ madeByHand' = TRUE
    /\ UNCHANGED <<policy, restrictions, onHand, pickings, manyAsked>>

DeliveryNext ==
    \/ \E k \in DOMAIN pickings, done \in [OrderLines -> 0..2], b \in BOOLEAN :
           Validate(k, done, b)
    \/ \E k \in DOMAIN pickings : CreateReturns(k)
    \/ \E k \in DOMAIN pickings, form \in Forms : WriteForm(k, form)
    \/ \E S \in SUBSET DOMAIN pickings \ {{}} : \E ks \in SetToSeqs(S) :
           PickingMultiInvoice(ks)
    \/ InvoiceByHand
    \/ \E i \in DOMAIN invoices : DeleteInvoice(i)

DeliverySpec == DeliveryInit /\ [][DeliveryNext]_deliveryVars

-----------------------------------------------------------------------------
(* Properties *)

DeliveryTypeOK ==
    /\ policy \in Policies /\ restrictions \in Settings
    /\ onHand \in [OrderLines -> Int] /\ touches \in 0..MaxTouches
    /\ Len(pickings) <= MaxPickings /\ Len(invoices) <= MaxInvoices
    /\ \A k \in DOMAIN pickings : pickings[k].form \in Forms
    /\ \A i \in DOMAIN invoices : invoices[i].picking \in {0} \cup DOMAIN pickings

\* While users leave the invoices alone, what is invoiced less what is credited
\* is what was delivered and not returned, of every line: whatever is split,
\* delivered in excess, returned and delivered again.  This is so if all lines
\* of an order have the same policy; the status of the order decides for all.
InvoicedAsDelivered ==
    (~madeByHand /\ ~manyAsked /\ \A l, m \in OrderLines : policy[l] = policy[m]) =>
        \A l \in OrderLines : QtyInvoiced(invoices, l) = QtyDelivered(pickings, l)

\* A picking never has two invoices, unless the wizard is used on several at a
\* time; each carries the customs reference the delivery has now, however
\* deliveries, invoices and references follow each other.
OneInvoiceEach ==
    /\ ~manyAsked => \A i, j \in DOMAIN invoices :
           i # j => invoices[i].picking = 0 \/ invoices[i].picking # invoices[j].picking
    /\ \A i \in DOMAIN invoices :
           invoices[i].picking # 0 /\ invoices[i].sign = 1 =>
               invoices[i].form = pickings[invoices[i].picking].form

\* Invoices follow deliveries: in quantity, in number and in their reference.
InvoicesFollow == InvoicedAsDelivered /\ OneInvoiceEach
=============================================================================
