------------------------------- MODULE MtsMto -------------------------------
(* stock_mts_mto_rule/models/stock_rule.py: a rule that takes a procurement *)
(* from stock, orders it, or does both.                                      *)
(* One product, one source location, quantities in units of the product; a   *)
(* procurement counts in its own unit of measure, in whole ones.             *)
EXTENDS Naturals, Integers, Sequences, SequencesExt

CONSTANTS
    Uoms,        \* how many units a unit of measure stands for
    Groups,      \* procurement groups: one for an order
    NoGroup,     \* of a procurement nobody gave a group
    Calls,       \* the procurements that are run together
    Stock,       \* on hand at first
    MaxMoves     \* bound: stock moves

ASSUME MtsMtoAssumption ==
    /\ Uoms \subseteq Nat \ {0} /\ \E u \in Uoms : \A w \in Uoms : w <= u
    /\ NoGroup \notin Groups
    /\ Calls \subseteq Seq([qty : Nat \ {0}, uom : Uoms, group : Groups \cup {NoGroup}])
    /\ Stock \in Nat /\ MaxMoves \in Nat

VARIABLES
    inStock,      \* units in the source location
    moves        \* stock moves out of it, each with the purchase made for it

splitVars == <<inStock, moves>>

\* "draft" purchases have no receipt yet, "sure" ones have.
StockMoves == [method : {"mts", "mto"}, qty : Nat, reserved : Nat, group : Groups \cup {NoGroup},
          state : {"open", "done", "cancel"}, purchase : {"none", "draft", "sure", "done"}]

MtsMtoTypeOK == inStock \in Nat /\ moves \in Seq(StockMoves)

IsOpen(v) == v.state = "open"

\* Of the moves: what is still to be moved, what is reserved for that, and
\* what was bought by purchases in certain states.
Total(amounts) == FoldLeft(+, 0, amounts)
OpenQty(ms) == Total([i \in DOMAIN ms |-> IF IsOpen(ms[i]) THEN ms[i].qty ELSE 0])
ReservedQty(ms) == Total([i \in DOMAIN ms |-> IF IsOpen(ms[i]) THEN ms[i].reserved ELSE 0])
BoughtQty(ms, S) == Total([i \in DOMAIN ms |-> IF ms[i].purchase \in S THEN ms[i].qty ELSE 0])

\* What the forecast counts: a draft purchase is not in it.
VirtualAvailable(ms) == inStock + BoughtQty(ms, {"sure"}) - OpenQty(ms)

\* _compute_quantity rounds up to whole units of measure.
InUom(units, u) == (units + u - 1) \div u

\* get_mto_qty_to_order
MtoQtyToOrder(ms, p) ==
    LET available == InUom(VirtualAvailable(ms), p.uom)
    IN  IF available <= 0 THEN p.qty
        ELSE IF available >= p.qty THEN 0 ELSE p.qty - available

\* _run_pull of the one rule and of the other.
Pull(ms, p, qty, method) ==
    Append(ms, [method |-> method, qty |-> qty * p.uom, reserved |-> 0, group |-> p.group,
                state |-> "open", purchase |-> IF method = "mto" THEN "draft" ELSE "none"])

Least(a, b) == IF a < b THEN a ELSE b

\* _action_assign: as much of a move as is free.
AssignMove(ms, i) ==
    LET v == ms[i]
        free == inStock - ReservedQty(ms)
    IN  IF v.state # "open" \/ v.method = "mto" THEN ms
        ELSE [ms EXCEPT ![i].reserved = v.reserved + Least(free, v.qty - v.reserved)]

\* The moves of the group, in their order.
AssignGroup(ms, g) ==
    FoldLeft(LAMBDA seen, i : IF seen[i].group = g THEN AssignMove(seen, i) ELSE seen,
             ms, [i \in 1..Len(ms) |-> i])

\* The needs of all procurements worked out before any is run.
SplitOne_Early(run, p) ==
    LET needed == MtoQtyToOrder(moves, p)
        fromStock == Pull(run.moves, p, p.qty - needed, "mts")
        both == needed \notin {0, p.qty}
    IN  IF run.raised THEN run
        ELSE [raised |-> both /\ p.group = NoGroup,
              moves |-> IF needed = 0 THEN fromStock
                        ELSE Pull(IF both THEN AssignGroup(fromStock, p.group) ELSE run.moves,
                                  p, needed, "mto")]

\* One turn of the loop of _run_split_procurement; a procurement that is split
\* and has no group raises.
SplitOne(run, p) ==
    LET needed == MtoQtyToOrder(run.moves, p)
        fromStock == Pull(run.moves, p, p.qty - needed, "mts")
        both == needed \notin {0, p.qty}
    IN  IF run.raised THEN run
        ELSE [raised |-> both /\ p.group = NoGroup,
              moves |-> IF needed = 0 THEN fromStock
                        ELSE Pull(IF both THEN AssignGroup(fromStock, p.group) ELSE run.moves,
                                  p, needed, "mto")]

\* _run_split_procurement, undone with the transaction when it raises.
RunSplitProcurement(procurements) ==
    LET run == FoldLeft(SplitOne, [raised |-> FALSE, moves |-> moves], procurements)
    IN  /\ ~run.raised
        /\ Len(run.moves) <= MaxMoves
        /\ moves' = run.moves
        /\ UNCHANGED inStock

\* The scheduler, or a user's "check availability".
CheckAvailability(i) ==
    /\ moves' = AssignMove(moves, i)
    /\ moves' # moves
    /\ UNCHANGED inStock

ConfirmPurchase(i) ==
    /\ moves[i].purchase = "draft"
    /\ moves' = [moves EXCEPT ![i].purchase = "sure"]
    /\ UNCHANGED inStock

\* A receipt is reserved for the move it was bought for, if that still waits.
ReceivePurchase(i) ==
    /\ moves[i].purchase = "sure"
    /\ inStock' = inStock + moves[i].qty
    /\ moves' = [moves EXCEPT ![i].purchase = "done",
                              ![i].reserved = IF IsOpen(moves[i]) THEN moves[i].qty ELSE 0]

DeliverMove(i) ==
    /\ IsOpen(moves[i]) /\ moves[i].reserved = moves[i].qty
    /\ inStock' = inStock - moves[i].qty
    /\ moves' = [moves EXCEPT ![i].state = "done", ![i].reserved = 0]

\* What was bought for the move is bought all the same.
CancelMove(i) ==
    /\ IsOpen(moves[i])
    /\ moves' = [moves EXCEPT ![i].state = "cancel", ![i].reserved = 0]
    /\ UNCHANGED inStock

SplitInit == inStock = Stock /\ moves = <<>>

SplitNext ==
    \/ \E procurements \in Calls : RunSplitProcurement(procurements)
    \/ \E i \in DOMAIN moves :
           \/ CheckAvailability(i) \/ ConfirmPurchase(i) \/ ReceivePurchase(i)
           \/ DeliverMove(i) \/ CancelMove(i)

SplitSpec == SplitInit /\ [][SplitNext]_splitVars

-----------------------------------------------------------------------------
\* The same units are not promised to two orders (stock_rule.py:45-62 in the
\* loop of 68-113): what is open is covered by what is on hand and what was
\* bought, but for the part of one unit of measure that _compute_quantity
\* rounds up; and what is reserved lies in the location.
PromisedOnce ==
    /\ inStock + BoughtQty(moves, {"draft", "sure"}) - OpenQty(moves)
         > - CHOOSE u \in Uoms : \A w \in Uoms : w <= u
    /\ ReservedQty(moves) <= inStock
=============================================================================
