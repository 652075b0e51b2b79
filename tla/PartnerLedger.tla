--------------------------- MODULE PartnerLedger ---------------------------
(* The partner ledger: the items of each partner, and of nobody, in the      *)
(* period.  An item without a partner that is reconciled with one of a       *)
(* partner is shown there, too, and taken back where nobody's items are.     *)
(* Entries are posted and reconciled while a section is read page by page.   *)
EXTENDS Integers, Sequences, SequencesExt, FiniteSets, FiniteSetsExt

CONSTANTS
    Partners,
    Nobody,          \* the partner of an item that has none
    ItemsToPost,     \* records with date, partner and balance
    MaxItems,        \* bound: how many items are posted
    DateFrom, DateTo,
    LoadMoreLimit    \* the lines of a page

VARIABLES
    items,           \* account.move.line, in the order of their ids
    partials,        \* account.partial.reconcile: debit, credit, amount
    reading          \* the section that is unfolded

ledgerVars == <<items, partials, reading>>

Everybody == Partners \cup {Nobody}
NotReading == [partner |-> "", lines |-> <<>>, progress |-> 0, more |-> FALSE,
               changed |-> FALSE]

ASSUME PartnerLedgerAssumption ==
    /\ Nobody \notin Partners /\ DateFrom <= DateTo /\ LoadMoreLimit \in Nat \ {0}

LedgerInit == items = <<>> /\ partials = {} /\ reading = NotReading

-----------------------------------------------------------------------------
(* Queries *)

InPeriod(d) == DateFrom <= d /\ d <= DateTo
Earlier(i, k) == \/ items[i].date < items[k].date
                 \/ items[i].date = items[k].date /\ i < k
MaxDate(r) == Max({items[r.debit].date, items[r.credit].date})
SumBalances(S) == FoldSet(LAMBDA i, s : items[i].balance + s, 0, S)

\* _get_query_sums: from the beginning.
QuerySums(p) ==
    SumBalances({i \in DOMAIN items : items[i].partner = p /\ items[i].date <= DateTo})

Debit(n) == IF n > 0 THEN n ELSE 0
LedgerRow(i, p, debit, credit, balance, key) ==
    [id |-> i, partner |-> p, debit |-> debit, credit |-> credit,
     balance |-> balance, key |-> key]

DirectRows(ps) ==
    LET S == {i \in DOMAIN items : InPeriod(items[i].date) /\ items[i].partner \in ps}
        ids == SetToSortSeq(S, Earlier)
    IN [n \in DOMAIN ids |->
           LET i == ids[n] IN
           LedgerRow(i, items[i].partner, Debit(items[i].balance), Debit(-items[i].balance),
               items[i].balance, "direct")]

\* Items of nobody in the period, reconciled in the period with one of the
\* partners; of any partner, if only nobody's items are asked for.
IndirectRows(ps) ==
    LET known == IF ps \ {Nobody} = {} THEN Partners ELSE ps \ {Nobody}
        found == {<<i, r, k>> \in (DOMAIN items) \X partials \X (DOMAIN items) :
                    /\ {i, k} = {r.debit, r.credit}
                    /\ items[i].partner = Nobody /\ items[k].partner \in known
                    /\ InPeriod(items[i].date) /\ InPeriod(MaxDate(r))}
        rows == SetToSortSeq(found, LAMBDA f, g : Earlier(f[1], g[1]) \/
                                        (f[1] = g[1] /\ f[3] < g[3]))
    IN [n \in DOMAIN rows |->
           LET amount == rows[n][2].amount
               k == items[rows[n][3]]
           IN LedgerRow(rows[n][1], k.partner, IF k.balance > 0 THEN 0 ELSE amount,
                  IF k.balance < 0 THEN 0 ELSE amount,
                  IF k.balance > 0 THEN -amount ELSE amount, "indirect")]

Page(rows, offset, limit) == SubSeq(rows, offset + 1, Min({offset + limit, Len(rows)}))

\* Mutant of Mirror: the balance is not reversed.
Mirror_Same(r) == [r EXCEPT !.partner = Nobody, !.debit = r.credit, !.credit = r.debit]

Mirror(r) ==
    [r EXCEPT !.partner = Nobody, !.debit = r.credit, !.credit = r.debit,
              !.balance = -r.balance]

\* _get_aml_values: the page is taken before rows are given to partners.
AmlValues(ps, offset, limit) ==
    LET rows == Page(DirectRows(ps) \o IndirectRows(ps), offset, limit) IN
    [p \in ps |->
        LET its == SelectSeq(rows, LAMBDA r :
                       r.partner = p \/ (p = Nobody /\ r.key = "indirect"))
        IN [n \in DOMAIN its |->
               IF p = Nobody /\ its[n].key = "indirect" THEN Mirror(its[n]) ELSE its[n]]]

WholeSections(ps) == AmlValues(ps, 0, Len(items) + 2 * Cardinality(partials))

-----------------------------------------------------------------------------
(* Reading a section *)

\* _get_report_line_move_line
MoveLine(r, init) == [row |-> r, balance |-> r.balance + init]

InitialBalance(p) ==
    SumBalances({i \in DOMAIN items : items[i].partner = p /\ items[i].date < DateFrom})

\* One line more than are shown is asked for.
Read(p, lines, progress, changed) ==
    LET values == AmlValues({p}, Len(lines), LoadMoreLimit + 1)[p]
        shown == SubSeq(values, 1, Min({LoadMoreLimit, Len(values)}))
        Sum[n \in 0..Len(shown)] ==
            IF n = 0 THEN progress ELSE MoveLine(shown[n], Sum[n - 1]).balance
    IN reading' = [partner |-> p,
                   lines |-> lines \o [n \in DOMAIN shown |-> MoveLine(shown[n], Sum[n - 1])],
                   progress |-> Sum[Len(shown)], more |-> Len(values) > LoadMoreLimit,
                   changed |-> changed]

Unfold(p) == Read(p, <<>>, InitialBalance(p), FALSE) /\ UNCHANGED <<items, partials>>

LoadMore ==
    /\ reading.more
    /\ Read(reading.partner, reading.lines, reading.progress, reading.changed)
    /\ UNCHANGED <<items, partials>>

-----------------------------------------------------------------------------
(* Entries *)

WhileReading ==
    reading' = IF reading.more THEN [reading EXCEPT !.changed = TRUE] ELSE NotReading

PostItem(item) ==
    /\ Len(items) < MaxItems /\ items' = Append(items, item)
    /\ UNCHANGED partials /\ WhileReading

Residual(i) ==
    Debit(items[i].balance) + Debit(-items[i].balance) - FoldSet(LAMBDA r, s : r.amount + s, 0,
                                    {r \in partials : i \in {r.debit, r.credit}})

Reconcile(d, c) ==
    LET amount == Min({Residual(d), Residual(c)}) IN
    /\ items[d].balance > 0 /\ items[c].balance < 0 /\ amount > 0
    /\ partials' = partials \cup {[debit |-> d, credit |-> c, amount |-> amount]}
    /\ UNCHANGED items /\ WhileReading

Unreconcile(r) ==
    /\ partials' = partials \ {r} /\ UNCHANGED items /\ WhileReading

LedgerNext ==
    \/ \E p \in Everybody : Unfold(p)
    \/ LoadMore
    \/ \E item \in ItemsToPost : PostItem(item)
    \/ \E d, c \in DOMAIN items : Reconcile(d, c)
    \/ \E r \in partials : Unreconcile(r)

-----------------------------------------------------------------------------
(* Properties *)

LedgerTypeOK ==
    /\ items \in Seq(ItemsToPost)
    /\ \A r \in partials : r.amount > 0 /\ items[r.debit].balance > 0
    /\ reading.partner \in Everybody \cup {""}

SumOver(s) == FoldSeq(LAMBDA r, t : r.balance + t, 0, s)

\* What reconciliations give to partners is taken from nobody: all sections
\* together show what was posted in the period, each line with a debit and a
\* credit that make its balance, and a section is the same when it is unfolded
\* alone.
SectionsBalance ==
    LET all == WholeSections(Everybody) IN
    /\ FoldSet(LAMBDA p, s : SumOver(all[p]) + s, 0, Everybody)
          = SumBalances({i \in DOMAIN items : InPeriod(items[i].date)})
    /\ \A p \in Everybody :
          /\ \A n \in DOMAIN all[p] :
                all[p][n].balance = all[p][n].debit - all[p][n].credit
          /\ WholeSections({p})[p] = all[p]

\* Page after page a section is shown as a whole, if nothing changes meanwhile,
\* and its last balance is the sum of the partner with what reconciliations
\* give to him.
PagesAreWhole ==
    LET p == reading.partner
        whole == WholeSections({p})[p]
    IN p # "" /\ ~reading.changed /\ ~reading.more =>
        /\ reading.lines = [n \in DOMAIN whole |->
               MoveLine(whole[n], reading.progress
                   - SumOver(SubSeq(whole, n, Len(whole))))]
        /\ reading.progress = QuerySums(p)
               + SumOver(SelectSeq(whole, LAMBDA r : r.key = "indirect"))

\* Sections, pages and running balances come from different queries and say
\* the same.
LedgerAddsUp == SectionsBalance /\ PagesAreWhole
=============================================================================
