--------------------------- MODULE MonthlyReports ---------------------------
(* The monthly sales and purchase reports: the invoices of a range of       *)
(* months are listed in sections, each with a total; a summary below has a  *)
(* row for each month and one for the sum.  A sheet is written row by row,  *)
(* and the next row is counted by hand.                                     *)
EXTENDS Integers, Sequences, FiniteSets, FiniteSetsExt, Functions

CONSTANTS
    Moves,           \* the posted invoices and refunds there may be
    Finds,         \* the sets of them a report may find
    Companies,       \* which partners and companies there are
    Ranges           \* pairs of months

VARIABLES
    report,          \* "sales", "aws" or "purchase"
    found,           \* the moves of the company
    company,         \* [usd, my, sg]: the companies that are looked for
    range,           \* form_month and to_month
    next,            \* the section, and then the month, to write next
    line,            \* the row that is written next
    sheet,           \* what each row of the sheet shows
    total,           \* total[s]: the sums below section s
    sum,             \* sum[s]: the sums of its columns in the summary
    amountPEI,       \* pei_amount, once it has been assigned
    status

reportVars == <<report, found, company, range, next, line, sheet, total, sum,
                amountPEI, status>>

-----------------------------------------------------------------------------
(* Moves: [amount, partner, country, trading, taxed, credit, refund, month].*)
(* A move is worth the amount before tax, and as much in tax if it is taxed.*)

ASSUME MonthlyReportsAssumption ==
    /\ \A M \in Finds : M \subseteq Moves /\ IsFiniteSet(M)
    /\ \A m \in Moves : m.month \in 1..12 /\ m.amount \in Nat
    /\ Ranges \subseteq (1..12) \X (1..12)

\* amount_untaxed_signed and amount_tax_signed: bills count below zero.
Signed(m, x) ==
    IF m.refund = (report = "purchase") THEN x ELSE -x

Abs(x) == IF x < 0 THEN -x ELSE x

Untaxed(m) ==
    LET s == Signed(m, m.amount) IN
    IF m.refund THEN -Abs(s) ELSE IF report = "purchase" THEN Abs(s) ELSE s

Tax(m) ==
    LET s == Signed(m, IF m.taxed THEN m.amount ELSE 0) IN
    IF m.refund THEN -Abs(s) ELSE s

Amounts(M) ==
    [untaxed |-> MapThenSumSet(Untaxed, M), tax |-> MapThenSumSet(Tax, M)]
Zero == [untaxed |-> 0, tax |-> 0]
Plus(a, b) == [untaxed |-> a.untaxed + b.untaxed, tax |-> a.tax + b.tax]

\* other_company_partners
OtherPartners == {"my", "sg", "other"} \cup IF company.usd THEN {"usd"} ELSE {}

InRange(m, from, to) == from <= m.month /\ m.month <= to
Found(from, to) == {m \in found : InRange(m, from, to)}

-----------------------------------------------------------------------------
(* Sections.  title and totalAt are distances from the current row, after   *)
(* is what is added to it below the total, gap what is added in any case.   *)

NoTitle == -1
Section(name, M, title, totalAt, after, gap) ==
    [name |-> name, moves |-> M, title |-> title, totalAt |-> totalAt,
     after |-> after, gap |-> gap]

SalesLocal(M) ==
    Section("local", {m \in M : m.partner \notin OtherPartners /\ m.taxed}, NoTitle, 1, 2, 0)
SalesExport(M) ==
    Section("export", {m \in M : m.partner \notin OtherPartners /\ ~m.taxed}, 1, 1, 3, 0)
SalesPM(M) ==
    Section("pm", {m \in M : /\ company.my /\ company.usd
                             /\ m.partner = "usd" /\ ~m.taxed /\ ~m.credit}, 0, 0, 3, 0)
SalesAWS(M) ==
    Section("aws", {m \in M : /\ company.sg
                              /\ m.partner = "sg" /\ m.taxed /\ ~m.credit}, 0, 0, 2, 0)

SalesDebit(M) ==
    Section("debit", {m \in M : /\ company.my
                                /\ m.partner \in OtherPartners /\ ~m.taxed /\ m.credit}, 0, 0, 1, 2)

AwsPEI(M) == Section("pei", {m \in M : m.country = "SG"}, NoTitle, 1, 4, 0)
AwsPKS(M) == Section("pks", {m \in M : m.country # "SG"}, 0, 1, 3, 0)

Trader(m) == m.partner \notin OtherPartners /\ m.trading = "traders"
PurchaseLocal(M) ==
    Section("local", {m \in M : Trader(m) /\ m.taxed}, NoTitle, 1, 2, 0)

PurchaseImport(M) ==
    Section("export", {m \in M : Trader(m) /\ ~m.taxed}, 1, 1, 3, 0)
PurchasePM(M) ==
    Section("pm", {m \in M : /\ company.my /\ company.usd
                             /\ m.partner = "usd" /\ ~m.taxed}, 0, 0, 3, 0)
PurchaseAWS(M) ==
    Section("aws", {m \in M : company.sg /\ m.partner = "sg" /\ m.taxed}, 0, 0, 2, 0)
TaxableExpenses(M) ==
    Section("expenses", {m \in M : m.trading = "non_traders" /\ ~m.taxed}, 0, 0, 1, 2)
Freighters(M) ==
    Section("freight", {m \in M : m.trading = "transport" /\ ~m.taxed}, 0, 0, 1, 2)

Sections(M) ==
    CASE report = "sales" -> <<SalesLocal(M), SalesExport(M), SalesPM(M),
                               SalesAWS(M), SalesDebit(M)>>
      [] report = "aws" -> <<AwsPEI(M), AwsPKS(M)>>
      [] report = "purchase" -> <<PurchaseLocal(M), PurchaseImport(M), PurchasePM(M),
                                  PurchaseAWS(M), TaxableExpenses(M), Freighters(M)>>
Names == {"local", "export", "pm", "aws", "debit", "pei", "pks", "expenses", "freight"}

NoColumns == [s \in Names \cup {"all"} |-> Zero]
All(c, S) ==
    [c EXCEPT !["all"] = [untaxed |-> MapThenSumSet(LAMBDA s : c[s].untaxed, S),
                          tax |-> MapThenSumSet(LAMBDA s : c[s].tax, S)]]

\* The columns of the summary for the moves M of a month.  It has none for
\* debit notes and freight, and does not look for the company of Malaysia.
USD(M) ==
    {m \in M : company.usd /\ m.partner = "usd" /\ ~m.taxed
               /\ (m.credit => report = "purchase")}

\* Mutant of SalesMonth: credit notes count for the other company.
SalesMonth_Credit(M) ==
    All([NoColumns EXCEPT
            !["local"] = Amounts(SalesLocal(M).moves),
            !["export"] = Amounts(SalesExport(M).moves),
            !["pm"] = Amounts(USD(M)),
            !["aws"] = Amounts({m \in M : company.sg /\ m.partner = "sg" /\ m.taxed})],
        {"local", "export", "pm", "aws"})

SalesMonth(M) ==
    All([NoColumns EXCEPT
            !["local"] = Amounts(SalesLocal(M).moves),
            !["export"] = Amounts(SalesExport(M).moves),
            !["pm"] = Amounts(USD(M)),
            !["aws"] = Amounts(SalesAWS(M).moves)],
        {"local", "export", "pm", "aws"})

\* What other companies bought from it is not in the sum of all purchases.
PurchaseMonth(M) ==
    All([NoColumns EXCEPT
            !["local"] = Amounts(PurchaseLocal(M).moves),
            !["export"] = Amounts(PurchaseImport(M).moves),
            !["pm"] = Amounts(USD(M)),
            !["aws"] = Amounts(PurchaseAWS(M).moves),
            !["expenses"] = Amounts(TaxableExpenses(M).moves)],
        {"local", "export", "aws"})

\* The column PKS is counted with the amount of PEI, p, the last one there was.
AwsMonth(M, p) ==
    LET pks == IF AwsPKS(M).moves = {} THEN Zero
               ELSE [untaxed |-> CHOOSE x \in p : TRUE, tax |-> 0]
    IN
    All([NoColumns EXCEPT !["pei"] = Amounts(AwsPEI(M).moves), !["pks"] = pks],
        {"pei", "pks"})

-----------------------------------------------------------------------------
(* Writing *)

\* pei_amount, a local variable of a loop: the set of the value it has.
Unassigned == {}

ReportInit ==
    /\ report \in {"sales", "aws", "purchase"}
    /\ found \in Finds /\ company \in Companies /\ range \in Ranges
    /\ next = 1 /\ line = 3 /\ sheet = <<>>
    /\ total = [s \in Names |-> Zero] /\ sum = NoColumns
    /\ amountPEI = Unassigned /\ status = "asked"

Listed == Sections(Found(range[1], range[2]))

RowAt(r, x) == [k \in {r} |-> x]
Over(f, g) == [r \in DOMAIN f \cup DOMAIN g |-> IF r \in DOMAIN f THEN f[r] ELSE g[r]]

\* The report of the AWS company fails without partners of both kinds.
CheckMonths ==
    /\ status = "asked"
    /\ status' = IF range[2] < range[1] THEN "refused"
                 ELSE IF report = "aws" /\ \E s \in Range(Listed) : s.moves = {} THEN "failed"
                 ELSE "listing"
    /\ UNCHANGED <<report, found, company, range, next, line, sheet, total, sum, amountPEI>>

WriteSection ==
    LET s == Listed[next]
        n == Cardinality(s.moves)
        first == line + s.title + 1
        row == IF n = 0 THEN line ELSE first + n
    IN
    /\ status = "listing" /\ next <= Len(Listed)
    /\ sheet' = IF n = 0 THEN sheet ELSE
           LET moves == Over([r \in first .. (row - 1) |-> <<s.name, r - first>>], sheet)
               titled == IF s.title = NoTitle THEN moves
                         ELSE Over(RowAt(line + s.title, <<s.name, "title">>), moves)
           IN Over(RowAt(row + s.totalAt, <<s.name, "total">>), titled)
    /\ total' = [total EXCEPT ![s.name] = Amounts(s.moves)]
    /\ line' = row + (IF n = 0 THEN 0 ELSE s.after) + s.gap
    /\ next' = next + 1
    /\ UNCHANGED <<report, found, company, range, sum, amountPEI, status>>

WriteHeads ==
    /\ status = "listing" /\ next > Len(Listed)
    /\ sheet' = Over(RowAt(line, <<"summary", "title">>),
                     Over(RowAt(line + 1, <<"summary", "heads">>), sheet))
    /\ line' = line + 2 /\ next' = range[1] /\ status' = "summary"
    /\ UNCHANGED <<report, found, company, range, total, sum, amountPEI>>

\* pei_amount or singapore_amount is used before it is assigned.
Unbound ==
    LET M == Found(next, next) IN
    \/ report = "purchase" /\ ~company.sg
    \/ /\ report = "aws" /\ AwsPKS(M).moves # {}
       /\ AwsPEI(M).moves = {} /\ amountPEI = Unassigned

MonthFails ==
    /\ status = "summary" /\ next <= range[2] /\ Unbound
    /\ status' = "failed"
    /\ UNCHANGED <<report, found, company, range, next, line, sheet, total, sum, amountPEI>>

WriteMonth ==
    LET M == Found(next, next)
        pei == IF report = "aws" /\ AwsPEI(M).moves # {}
               THEN {Amounts(AwsPEI(M).moves).untaxed} ELSE amountPEI
        columns == CASE report = "sales" -> SalesMonth(M)
                     [] report = "aws" -> AwsMonth(M, pei)
                     [] report = "purchase" -> PurchaseMonth(M)
    IN
    /\ status = "summary" /\ next <= range[2] /\ ~Unbound
    /\ sheet' = Over(RowAt(line, <<"month", next>>), sheet)
    /\ sum' = [s \in DOMAIN sum |-> Plus(sum[s], columns[s])]
    /\ amountPEI' = pei
    /\ line' = line + 1 /\ next' = next + 1
    /\ UNCHANGED <<report, found, company, range, total, status>>

WriteTotal ==
    /\ status = "summary" /\ next > range[2]
    /\ sheet' = Over(RowAt(line, <<"summary", "total">>), sheet)
    /\ status' = "done"
    /\ UNCHANGED <<report, found, company, range, next, line, total, sum, amountPEI>>

ReportNext ==
    \/ CheckMonths \/ WriteSection \/ WriteHeads \/ MonthFails \/ WriteMonth \/ WriteTotal

ReportSpec == ReportInit /\ [][ReportNext]_reportVars

-----------------------------------------------------------------------------
(* Properties *)

ReportTypeOK ==
    /\ status \in {"asked", "refused", "failed", "listing", "summary", "done"}
    /\ next \in 1..13 /\ line \in Nat /\ DOMAIN sheet \subseteq Nat
    /\ total \in [Names -> [untaxed : Int, tax : Int]]
    /\ sum \in [Names \cup {"all"} -> [untaxed : Int, tax : Int]]
    /\ \A x \in amountPEI : x \in Int

\* Nothing is written over a row that shows something: the distances between
\* titles, moves, totals and the next section fit, whatever sections are empty.
NoRowRewritten == [][\A r \in DOMAIN sheet : sheet'[r] = sheet[r]]_reportVars

\* The sum of the months in the summary is the total below the section, and
\* no move counts in two sections.  Left out are the column PKS, which the
\* code fills with the amounts of PEI; the section PM without a company of
\* Malaysia; and purchases from a company of the group that is a carrier or
\* sells expenses.
SummaryAgrees ==
    status = "done" =>
        /\ \A s \in {"local", "export", "aws", "pei", "expenses"} : sum[s] = total[s]
        /\ company.my => sum["pm"] = total["pm"]
        /\ \A i, j \in DOMAIN Listed : \A m \in Listed[i].moves :
               /\ i # j /\ m \in Listed[j].moves
               => report = "purchase" /\ m.partner \in OtherPartners /\ m.trading # "traders"

\* The sheet is written once, and its two views of the moves agree.
SheetIsRight == NoRowRewritten /\ [][SummaryAgrees']_reportVars
=============================================================================
