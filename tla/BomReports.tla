---------------------------- MODULE BomReports ----------------------------
(* Bills of materials: the cost each of them stores, the structure report   *)
(* with its lines that unfold, and the consolidated list of what to buy.    *)
EXTENDS Integers, Sequences, SequencesExt, FiniteSets, FiniteSetsExt, Functions, TLC

CONSTANTS
    Parts,           \* the products
    Structures,      \* the bills there may be: what each product is made of
    Root,            \* the product whose reports are read
    Quantity,        \* for how many of it
    Owners,          \* the companies, each with prices of its own
    Prices,
    MaxEdits         \* bound: how often quantities and prices change

VARIABLES
    boms,            \* boms[p] = [makes, share, ops, owner, lines]
    qty,             \* qty[p]: product_qty of each line of boms[p]
    price,           \* price[c][p]: standard_price
    costPrice,       \* total_cost_price of each bill
    bomCost,         \* total_bom_cost of each bill
    unfolded,        \* the identifiers the reader has unfolded
    edits

bomVars == <<boms, qty, price, costPrice, bomCost, unfolded, edits>>

-----------------------------------------------------------------------------
(* A bill makes so many, has operations that cost ops for each, by-products *)
(* that leave share percent of the costs to it, and lines [product, skip].  *)

NoOwner == "none"

ASSUME BomReportsAssumption ==
    /\ NoOwner \notin Owners
    /\ Quantity \in Nat \ {0} /\ Prices \subseteq Nat
    /\ \A s \in Structures : Root \in DOMAIN s /\ DOMAIN s \subseteq Parts

BomLines(b) == DOMAIN boms[b].lines
OwnerOr(b, c) == IF boms[b].owner = NoOwner THEN c ELSE boms[b].owner

\* Without a thought of companies: the prices are those of the user's.
TotalBomCost(b, q, p, c) ==
    MapThenSumSet(LAMBDA i : p[c][boms[b].lines[i].product] * q[b][i], BomLines(b))

TotalCostPrice(b, q, p, c) ==
    MapThenSumSet(LAMBDA i : p[OwnerOr(b, c)][boms[b].lines[i].product] * q[b][i], BomLines(b))

\* str(index) followed by the position of the component: digits.
Digits(i) == IF i < 10 THEN <<i>> ELSE <<i \div 10, i % 10>>

-----------------------------------------------------------------------------
(* The structure report, as the company c reads it *)

ComponentData(b, p, n, level, index, c) ==
    [type |-> "component", product |-> p, index |-> index, quantity |-> n,
     level |-> level, bom_cost |-> price[OwnerOr(b, c)][p] * n,
     operations |-> 0, components |-> <<>>]

\* Mutant of MergeComponents: what the components consist of is not added.
MergeComponents_Top(a, b) ==
    [a EXCEPT !.quantity = @ + b.quantity, !.bom_cost = @ + b.bom_cost]

RECURSIVE MergeComponents(_, _)
MergeComponents(a, b) ==
    [a EXCEPT !.quantity = @ + b.quantity, !.bom_cost = @ + b.bom_cost,
              !.operations = @ + b.operations,
              !.components =
                  [i \in DOMAIN @ |-> MergeComponents(@[i], b.components[i])]]

AddComponent(components, d) ==
    IF \E i \in DOMAIN components : components[i].product = d.product
    THEN [i \in DOMAIN components |->
             IF components[i].product = d.product
             THEN MergeComponents(components[i], d) ELSE components[i]]
    ELSE Append(components, d)

RECURSIVE BomData(_, _, _, _, _)
BomData(b, n, level, index, c) ==
    LET Component(i) ==
            LET p == boms[b].lines[i].product
                q == (n * qty[b][i]) \div boms[b].makes
                at == index \o Digits(i - 1)
            IN IF p \in DOMAIN boms THEN BomData(p, q, level + 1, at, c)
               ELSE ComponentData(b, p, q, level + 1, at, c)
        all == [i \in BomLines(b) |-> Component(i)]
        used == {i \in BomLines(b) : ~boms[b].lines[i].skip}
        operations == boms[b].ops * n
        costs == MapThenSumSet(LAMBDA i : all[i].bom_cost, used) + operations
    IN [type |-> "bom", product |-> b, index |-> index, quantity |-> n,
        level |-> level, bom_cost |-> (costs * boms[b].share) \div 100,
        operations |-> operations,
        components |-> FoldLeft(AddComponent, <<>>,
                                [k \in 1 .. Cardinality(used) |->
                                    all[SetToSortSeq(used, <)[k]]])]

Line(d, level, visible) ==
    [type |-> d.type, product |-> d.product, index |-> d.index, level |-> level,
     quantity |-> d.quantity, cost |-> d.bom_cost, visible |-> visible]

FoldedOut(d, visible) == visible /\ <<"bom", d.index>> \in unfolded

\* everything stands for the argument unfolded, parent for parent_unfolded.
RECURSIVE ArrayLines(_, _, _, _)
ArrayLines(data, level, everything, parent) ==
    LET visible == level = 1 \/ everything \/ parent
        Shown(d) ==
            <<Line(d, level, visible)>> \o
            ArrayLines(d, level + 1, everything, FoldedOut(d, visible))
        own == [type |-> "operations", product |-> data.product,
                index |-> data.index, quantity |-> 1, bom_cost |-> data.operations]
        each == [own EXCEPT !.type = "operation"]
        all == FoldLeft(LAMBDA s, d : s \o Shown(d), <<>>, data.components)
    IN IF data.operations = 0 THEN all
       ELSE all \o <<Line(own, level, parent),
                     Line(each, level + 1,
                          everything \/
                          (parent /\ <<"operations", data.index>> \in unfolded))>>

Structure(c) == BomData(Root, Quantity, 0, <<0>>, c)
PdfLines(c, everything) == ArrayLines(Structure(c), 1, everything, TRUE)

-----------------------------------------------------------------------------
(* The consolidated list of the company c *)

HasBom(p, c) == p \in DOMAIN boms /\ boms[p].owner = c /\ boms[p].lines # <<>>
NoBom == [p \in Parts |-> 0]
Add(f, g) == [p \in Parts |-> f[p] + g[p]]
Sum(f, S) == [p \in Parts |-> MapThenSumSet(LAMBDA i : f[i][p], S)]
Just(p, n) == [NoBom EXCEPT ![p] = n]

\* A bill further down counts itself and what it consists of.
RECURSIVE ExplodeBom(_, _, _)
ExplodeBom(p, n, c) ==
    IF ~HasBom(p, c) THEN NoBom
    ELSE Sum([i \in BomLines(p) |->
                 LET m == n * qty[p][i] IN
                 Add(Just(boms[p].lines[i].product, m),
                     ExplodeBom(boms[p].lines[i].product, m, c))], BomLines(p))

Consolidated(c) ==
    Sum([i \in BomLines(Root) |->
            LET p == boms[Root].lines[i].product IN
            IF HasBom(p, c) THEN ExplodeBom(p, Quantity * qty[Root][i], c)
            ELSE Just(p, Quantity * qty[Root][i])], BomLines(Root))

-----------------------------------------------------------------------------
(* Actions.  c is the company of the user.                                  *)

BomInit ==
    /\ boms \in Structures
    /\ qty = [b \in DOMAIN boms |-> [i \in BomLines(b) |-> 1]]
    /\ price = [c \in Owners |-> [p \in Parts |-> CHOOSE x \in Prices : TRUE]]
    /\ costPrice = [b \in DOMAIN boms |->
                       TotalCostPrice(b, qty, price, CHOOSE c \in Owners : TRUE)]
    /\ bomCost = [b \in DOMAIN boms |->
                     TotalBomCost(b, qty, price, CHOOSE c \in Owners : TRUE)]
    /\ unfolded = {} /\ edits = 0

Uses(b, p) == \E i \in BomLines(b) : boms[b].lines[i].product = p

EditLine(b, i, n, c) ==
    /\ edits < MaxEdits /\ edits' = edits + 1 /\ qty[b][i] # n
    /\ qty' = [qty EXCEPT ![b][i] = n]
    /\ costPrice' = [costPrice EXCEPT ![b] = TotalCostPrice(b, qty', price, c)]
    /\ bomCost' = [bomCost EXCEPT ![b] = TotalBomCost(b, qty', price, c)]
    /\ UNCHANGED <<boms, price, unfolded>>

\* The costs depend on the prices of their lines, in whatever company.
EditPrice(p, x, c) ==
    /\ edits < MaxEdits /\ edits' = edits + 1 /\ price[c][p] # x
    /\ price' = [price EXCEPT ![c][p] = x]
    /\ costPrice' = [b \in DOMAIN boms |->
           IF Uses(b, p) THEN TotalCostPrice(b, qty, price', c) ELSE costPrice[b]]
    /\ UNCHANGED <<boms, qty, bomCost, unfolded>>

RecomputeCost(c) ==
    /\ costPrice' = [b \in DOMAIN boms |-> TotalCostPrice(b, qty, price, c)]
    /\ UNCHANGED <<boms, qty, price, bomCost, unfolded, edits>>

Toggle(id) ==
    /\ unfolded' = SymDiff(unfolded, {id})
    /\ UNCHANGED <<boms, qty, price, costPrice, bomCost, edits>>

Identifiers(c) ==
    {<<l.type, l.index>> : l \in {l \in Range(PdfLines(c, FALSE)) :
                                  l.visible /\ l.type \in {"bom", "operations"}}}

BomNext ==
    \/ \E b \in DOMAIN boms : \E i \in BomLines(b), n \in 1..2, c \in Owners :
           EditLine(b, i, n, c)
    \/ \E p \in Parts, x \in Prices, c \in Owners : EditPrice(p, x, c)
    \/ \E c \in Owners : RecomputeCost(c)
    \/ \E c \in Owners : \E id \in Identifiers(c) : Toggle(id)

-----------------------------------------------------------------------------
(* Properties *)

BomTypeOK ==
    /\ boms \in Structures /\ edits \in 0..MaxEdits
    /\ \A b \in DOMAIN boms :
           /\ qty[b] \in [BomLines(b) -> 1..2] 
           /\ costPrice[b] \in Nat /\ bomCost[b] \in Nat
    /\ price \in [Owners -> [Parts -> Prices]]
    /\ \A id \in unfolded : id[1] \in {"bom", "operations"}

\* The stored cost of a bill is that of its lines now and at the prices of its
\* own company, whichever company the user was in who changed a line or price.
CostIsCurrent ==
    \A b \in DOMAIN boms : boms[b].owner # NoOwner =>
        costPrice[b] = MapThenSumSet(
            LAMBDA i : price[boms[b].owner][boms[b].lines[i].product] * qty[b][i],
            BomLines(b))

SumOf(s, Test(_), Value(_)) ==
    FoldLeft(LAMBDA n, l : n + (IF Test(l) THEN Value(l) ELSE 0), 0, s)
IsLeaf(l) == l.type \in {"component", "operations"}
CostOf(l) == l.cost

\* The cost of a bill in the structure report is what its lines below show:
\* lines of the same product are merged with all they consist of, and none is
\* counted twice.  By-products bear a part of the cost that lines do not show.
CostsAddUp ==
    (\A b \in DOMAIN boms : boms[b].share = 100) =>
        \A c \in Owners : Structure(c).bom_cost = SumOf(PdfLines(c, FALSE), IsLeaf, CostOf)

Plain(b, c) ==
    /\ boms[b].owner = c /\ boms[b].makes = 1
    /\ \A i \in BomLines(b) : ~boms[b].lines[i].skip

\* Both reports need as much of each product that is bought.  The consolidated
\* list knows the bills of its company only, no variants, and takes every bill
\* to make one.
ReportsAgree ==
    \A c \in Owners : (\A b \in DOMAIN boms : Plain(b, c)) =>
        \A p \in Parts \ DOMAIN boms :
            Consolidated(c)[p] = SumOf(PdfLines(c, FALSE), LAMBDA l : l.product = p,
                                       LAMBDA l : l.quantity)

\* A line is shown if and only if every bill above it is unfolded, however the
\* reader came there; all of them if everything is.  Identifiers are digits put
\* side by side, so this holds of bills with ten lines at most.
VisibleWhenUnfolded ==
    \A c \in Owners : \A l \in Range(PdfLines(c, FALSE)) :
        l.type \in {"bom", "component"} =>
            (l.visible <=> \A n \in 2 .. (Len(l.index) - 1) :
                              <<"bom", SubSeq(l.index, 1, n)>> \in unfolded)


\* What is stored of a bill and what its reports print agree: costs, lists of
\* what is needed, and the lines that are shown.
BillIsRight == CostIsCurrent /\ CostsAddUp /\ ReportsAgree /\ VisibleWhenUnfolded
=============================================================================
