------------------------------ MODULE MCAddons ------------------------------
(* The modules beside queue_job: audit rules and trails, monthly reports,   *)
(* reports of bills, deliveries and invoices, the partner ledger, and stock *)
(* promised to procurements.  They share no state here: one moves, the      *)
(* others stay as they began.                                               *)
EXTENDS AuditRules, AuditTrail, MonthlyReports, BomReports, Deliveries,
        PartnerLedger, MtsMto

VARIABLE focus

vars == <<focus, auditVars, trailVars, reportVars, bomVars, deliveryVars, ledgerVars,
          splitVars>>

(* Moves of one customer, of a carrier and of the two own companies: local and *)
(* foreign, taxed or not, credited, in two months.                             *)
P(p, c, t, x, cr) ==
    [amount : {10, 100}, partner : {p}, country : {c}, trading : {t}, taxed : x,
     credit : cr, refund : BOOLEAN, month : 1..2]
MCMoves == {m \in P("customer", "SG", "traders", BOOLEAN, {FALSE})
                  \cup P("carrier", "MY", "non_traders", {TRUE}, {FALSE})
                  \cup P("usd", "MY", "traders", {TRUE}, BOOLEAN)
                  \cup P("sg", "SG", "transport", BOOLEAN, BOOLEAN) : m.refund = (m.amount = 100)}
MCFinds == {{}} \cup {{a, b} : a \in {m \in MCMoves : m.amount = 10},
                             b \in {m \in MCMoves : m.amount = 100}}
C(u, m, s) == [usd |-> u, my |-> m, sg |-> s]
MCCompanies == {C(TRUE, TRUE, TRUE), C(FALSE, TRUE, TRUE), C(TRUE, FALSE, TRUE),
                C(TRUE, TRUE, FALSE)}
MCRanges == {<<1, 2>>, <<2, 2>>, <<2, 1>>}

(* A bill of one line; one with a bill twice, which holds a third one; one    *)
(* with by-products, variants and bills of another company.                   *)
L(p, s) == [product |-> p, skip |-> s]
B(m, s, o, c, ls) == [makes |-> m, share |-> s, ops |-> o, owner |-> c, lines |-> ls]
MCStructures == {
    "top" :> B(1, 100, 0, "c1", <<L("nut", FALSE)>>),
    "top" :> B(1, 100, 2, "c1", <<L("sub", FALSE), L("nut", FALSE), L("sub", FALSE)>>)
    @@ "sub" :> B(1, 100, 0, "c1", <<L("low", FALSE), L("nut", FALSE)>>)
    @@ "low" :> B(1, 100, 1, "c1", <<L("nut", FALSE), L("bolt", FALSE)>>),
    "top" :> B(2, 50, 0, NoOwner, <<L("sub", TRUE), L("nut", FALSE), L("sub", FALSE)>>)
    @@ "sub" :> B(2, 50, 1, "c2", <<L("bolt", FALSE), L("nut", TRUE)>>)}

(* An order of two lines, by what is ordered or by what is delivered. *)
MCOrdered == "a" :> 2 @@ "b" :> 1
MCOnHand == "a" :> 2 @@ "b" :> 2
MCPolicies == {"a" :> p @@ "b" :> q : p \in {"delivery"}, q \in {"order", "delivery"}}
              \cup {[l \in OrderLines |-> "order"]}
MCSettings == {[excess |-> FALSE, negative |-> TRUE], [excess |-> TRUE, negative |-> FALSE]}

(* Items of two partners and of nobody, before, in and after the period. *)
I(p, d, b) == [partner |-> p, date |-> d, balance |-> b]
MCItems == {I("p", 1, 2), I("p", 2, 2), I("p", 2, -1), I("q", 2, -1), I("nobody", 2, -1),
            I("nobody", 1, -1), I("nobody", 2, 2), I("nobody", 3, -1)}

(* Procurements run together, of one or two orders, in units and in threes. *)
A(q, u, g) == [qty |-> q, uom |-> u, group |-> g]
MCCalls == {<<A(3, 1, "o1")>>, <<A(2, 1, "o1"), A(2, 1, "o1")>>,
            <<A(2, 3, "none"), A(1, 1, "none")>>, <<A(1, 3, "o2"), A(3, 1, "o2")>>}

Init ==
    /\ focus \in {"audit rules", "audit trail", "monthly reports", "bills", "deliveries",
                  "ledger", "split"}
    /\ AuditInit /\ LedgerInit /\ SplitInit
    /\ TrailInit
    /\ focus # "audit trail" => logType = "full" /\ captureRecord /\ logCreate
    /\ BomInit
    /\ focus # "bills" => DOMAIN boms = {"top"}
    /\ DeliveryInit
    /\ focus # "deliveries" => restrictions.excess /\ policy["b"] = "order"
                              /\ policy["a"] = "order"
    /\ IF focus = "monthly reports" THEN ReportInit
       ELSE ReportInit /\ report = "sales" /\ found = {} /\ range = <<1, 2>>
                       /\ company = C(TRUE, TRUE, TRUE)

Next ==
    \/ /\ focus = "audit rules" /\ AuditNext
       /\ UNCHANGED <<focus, trailVars, reportVars, bomVars, deliveryVars,
                      ledgerVars, splitVars>>
    \/ /\ focus = "audit trail" /\ TrailNext
       /\ UNCHANGED <<focus, auditVars, reportVars, bomVars, deliveryVars,
                      ledgerVars, splitVars>>
    \/ /\ focus = "monthly reports" /\ ReportNext
       /\ UNCHANGED <<focus, auditVars, trailVars, bomVars, deliveryVars,
                      ledgerVars, splitVars>>
    \/ /\ focus = "bills" /\ BomNext
       /\ UNCHANGED <<focus, auditVars, trailVars, reportVars, deliveryVars,
                      ledgerVars, splitVars>>
    \/ /\ focus = "deliveries" /\ DeliveryNext
       /\ UNCHANGED <<focus, auditVars, trailVars, reportVars, bomVars,
                      ledgerVars, splitVars>>
    \/ /\ focus = "ledger" /\ LedgerNext
       /\ UNCHANGED <<focus, auditVars, trailVars, reportVars, bomVars,
                      deliveryVars, splitVars>>
    \/ /\ focus = "split" /\ SplitNext
       /\ UNCHANGED <<focus, auditVars, trailVars, reportVars, bomVars,
                      deliveryVars, ledgerVars>>

Spec == Init /\ [][Next]_vars

TypeOK ==
    /\ AuditTypeOK /\ TrailTypeOK /\ ReportTypeOK /\ BomTypeOK /\ DeliveryTypeOK
    /\ LedgerTypeOK /\ MtsMtoTypeOK
=============================================================================
