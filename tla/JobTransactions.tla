-------------------------- MODULE JobTransactions --------------------------
(* The rows of a graph of jobs under the transactions of workers, users and *)
(* the cron.  PostgreSQL runs them at repeatable read: a transaction reads  *)
(* the rows as they were when it began, waits for the transaction that has  *)
(* written a row it wants to write, and fails if that one, or any other     *)
(* since it began, has committed the row.                                   *)
EXTENDS Naturals, FiniteSets

CONSTANTS
    Jobs,            \* the jobs of the graph
    Parents,         \* Parents[j]: the jobs j depends on
    Slots,           \* transactions that may be open at a time
    MaxBegun,        \* bound: how many transactions users open
    MaxBroken        \* bound: how many jobs fail when they are committed

VARIABLES
    row,             \* row[j]: the committed row
    tx,              \* tx[t]: the transaction in a slot
    begun, broken,   \* counters for the bounds
    gone,            \* jobs that were done when autovacuum deleted them
    brokenJobs,      \* jobs that failed after set_done()
    overlapped,      \* a user's transaction has overlapped with another one
    lost             \* a release of dependents has failed or was killed

jobTxVars == <<row, tx, begun, broken, gone, brokenJobs, overlapped, lost>>
ghosts == <<gone, brokenJobs, overlapped, lost>>

-----------------------------------------------------------------------------
States == {"wait_dependencies", "pending", "started", "done", "failed",
           "cancelled", "deleted"}
Dates == {"none", "recent", "old"}
Row == [state: States, doneAt: Dates, cancelledAt: Dates]

Ops == {"idle", "perform", "hung", "toRelease", "release", "done", "doneWritten",
        "cancelled", "pending"}
UserOps == {"done", "doneWritten", "cancelled", "pending"}
Idle == [op |-> "idle"]

ASSUME JobTransactionsAssumption ==
    /\ Parents \in [Jobs -> SUBSET Jobs]
    /\ MaxBegun \in Nat /\ MaxBroken \in Nat

JobTxInit ==
    /\ row = [j \in Jobs |->
           [state |-> IF Parents[j] = {} THEN "pending" ELSE "wait_dependencies",
            doneAt |-> "none", cancelledAt |-> "none"]]
    /\ tx = [t \in Slots |-> Idle]
    /\ begun = 0 /\ broken = 0
    /\ gone = {} /\ brokenJobs = {} /\ overlapped = FALSE /\ lost = FALSE

-----------------------------------------------------------------------------
(* PostgreSQL *)

\* One row, and the rows with those that were written in their place.
Single(j, r) == [k \in {j} |-> r]
Updated(rows, w) ==
    [j \in DOMAIN rows \cup DOMAIN w |-> IF j \in DOMAIN w THEN w[j] ELSE rows[j]]

Others(t) == {u \in Slots \ {t} : tx[u].op # "idle"}
Locked(t, j) == \E u \in Others(t) : j \in DOMAIN tx[u].new
Conflict(t, J) == J \cap tx[t].stale # {}

New(op, j, rows) ==
    [op |-> op, job |-> j, snap |-> rows, new |-> <<>>, stale |-> {}]

\* Slot t becomes rec and the rows w are committed; the transactions that are
\* open were begun before.
CommitRows(t, w, rec) ==
    /\ row' = Updated(row, w)
    /\ tx' = [u \in Slots |->
           IF u = t THEN rec
           ELSE IF tx[u].op = "idle" THEN Idle
           ELSE [tx[u] EXCEPT !.stale = @ \cup DOMAIN w]]

Overlap(t, op) ==
    overlapped' = (overlapped
        \/ (op \in UserOps /\ Others(t) # {})
        \/ \E u \in Others(t) : tx[u].op \in UserOps)

-----------------------------------------------------------------------------
(* Job *)

\* depends_on loads the parents that still exist.
ParentsDone(j, rows) ==
    \A p \in Parents[j] : rows[p].state \in {"done", "deleted"}

\* Mutant of SetPending: the dates stay.
SetPending_KeepDates(r, j, rows) ==
    [r EXCEPT !.state = IF ParentsDone(j, rows) THEN "pending" ELSE "wait_dependencies"]

SetPending(r, j, rows) ==
    [state |-> IF ParentsDone(j, rows) THEN "pending" ELSE "wait_dependencies",
     doneAt |-> "none", cancelledAt |-> "none"]

SetDone(r) == [r EXCEPT !.state = "done", !.doneAt = "recent"]
SetCancelled(r) == [r EXCEPT !.state = "cancelled", !.cancelledAt = "recent"]

\* enqueue_waiting: the waiting children of j whose parents in the table are
\* all done.
Children(j, rows) ==
    {c \in Jobs : /\ j \in Parents[c]
                  /\ rows[c].state = "wait_dependencies"
                  /\ ParentsDone(c, rows)}

Pending(C, rows) == [c \in C |-> [rows[c] EXCEPT !.state = "pending"]]

-----------------------------------------------------------------------------
(* Workers *)

\* SELECT ... FOR UPDATE, set_started, commit; then the transaction in which
\* the job is performed begins.
Start(t, j) ==
    LET r == [row[j] EXCEPT !.state = "started"] IN
    /\ tx[t].op = "idle" /\ row[j].state = "pending" /\ ~Locked(t, j)
    /\ CommitRows(t, Single(j, r), New("perform", j, Updated(row, Single(j, r))))
    /\ Overlap(t, "perform")
    /\ UNCHANGED <<begun, broken, gone, brokenJobs, lost>>

\* Mutant of PerformDone: dependents are released in the same transaction.
PerformDone_Release(t) ==
    LET j == tx[t].job
        r == Single(j, SetDone(tx[t].snap[j]))
        after == Updated(tx[t].snap, r)
    IN
    /\ tx[t].op = "perform"
    /\ ~Locked(t, j) /\ ~Conflict(t, {j})
    /\ CommitRows(t, Updated(Pending(Children(j, after), after), r), Idle)
    /\ UNCHANGED <<begun, broken, ghosts>>

PerformDone(t) ==
    LET j == tx[t].job IN
    /\ tx[t].op = "perform"
    /\ ~Locked(t, j) /\ ~Conflict(t, {j})
    /\ CommitRows(t, Single(j, SetDone(tx[t].snap[j])), New("toRelease", j, row))
    /\ UNCHANGED <<begun, broken, ghosts>>

\* The job raised, or the row was changed meanwhile: retry_postpone stores it
\* in a transaction of its own, whatever the row is by then.
PerformRetry(t) ==
    LET j == tx[t].job IN
    /\ tx[t].op = "perform" /\ ~Locked(t, j)
    /\ CommitRows(t, Single(j, SetPending(tx[t].snap[j], j, row)), Idle)
    /\ UNCHANGED <<begun, broken, ghosts>>

PerformFails(t) ==
    LET j == tx[t].job IN
    /\ tx[t].op = "perform" /\ ~Locked(t, j)
    /\ CommitRows(t, Single(j, [tx[t].snap[j] EXCEPT !.state = "failed"]), Idle)
    /\ UNCHANGED <<begun, broken, ghosts>>

\* flush_all() or commit() raises after set_done(): set_failed() keeps the
\* date.  If the row had been written the second cursor waits for the first
\* one of the same thread.
CommitFails(t) ==
    LET j == tx[t].job
        r == SetDone(tx[t].snap[j])
    IN
    /\ tx[t].op = "perform" /\ ~Locked(t, j)
    /\ broken < MaxBroken /\ broken' = broken + 1
    /\ \/ /\ CommitRows(t, Single(j, [r EXCEPT !.state = "failed"]), Idle)
          /\ brokenJobs' = brokenJobs \cup {j}
       \/ /\ ~Conflict(t, {j})
          /\ tx' = [tx EXCEPT ![t].op = "hung", ![t].new = Single(j, r)]
          /\ UNCHANGED <<row, brokenJobs>>
    /\ UNCHANGED <<begun, gone, overlapped, lost>>

\* The server ends the worker.
Kill(t) ==
    /\ tx[t].op \in {"perform", "hung", "toRelease", "release"}
    /\ broken < MaxBroken \/ tx[t].op = "hung"
    /\ broken' = IF tx[t].op = "hung" THEN broken ELSE broken + 1
    /\ lost' = (lost \/ tx[t].op \in {"toRelease", "release"})
    /\ tx' = [tx EXCEPT ![t] = Idle]
    /\ UNCHANGED <<row, begun, gone, brokenJobs, overlapped>>

EnqueueDependentJobs(t) ==
    /\ tx[t].op = "toRelease"
    /\ tx' = [tx EXCEPT ![t] = New("release", tx[t].job, row)]
    /\ Overlap(t, "release")
    /\ UNCHANGED <<row, begun, broken, gone, brokenJobs, lost>>

\* The tries after a serialization failure run in the transaction it has
\* aborted, and fail with another error.
Released(t) ==
    LET C == Children(tx[t].job, tx[t].snap) IN
    /\ tx[t].op = "release"
    /\ \A c \in C : ~Locked(t, c)
    /\ IF Conflict(t, C)
       THEN /\ tx' = [tx EXCEPT ![t] = Idle]
            /\ lost' = TRUE
            /\ UNCHANGED row
       ELSE CommitRows(t, Pending(C, tx[t].snap), Idle) /\ UNCHANGED lost
    /\ UNCHANGED <<begun, broken, gone, brokenJobs, overlapped>>

-----------------------------------------------------------------------------
(* Users and the cron *)

MayDo(op, s) ==
    CASE op = "done" -> s \in {"wait_dependencies", "pending", "failed"}
      [] op = "cancelled" -> s \in {"pending", "failed"}
      [] op = "pending" -> s \in {"failed", "cancelled", "done"}

\* A button or a wizard opens a transaction and loads the job.
ChangeJobState(t, j, op) ==
    /\ tx[t].op = "idle" /\ MayDo(op, row[j].state)
    /\ begun < MaxBegun /\ begun' = begun + 1
    /\ tx' = [tx EXCEPT ![t] = New(op, j, row)]
    /\ Overlap(t, op)
    /\ UNCHANGED <<row, broken, gone, brokenJobs, lost>>

\* The request fails, and is tried again from its beginning.
UserConflict(t) ==
    LET J == IF tx[t].op = "doneWritten" THEN Children(tx[t].job, Updated(tx[t].snap, tx[t].new))
             ELSE {tx[t].job}
    IN
    /\ tx[t].op \in UserOps
    /\ \A c \in J : ~Locked(t, c)
    /\ Conflict(t, J)
    /\ tx' = [tx EXCEPT ![t] = Idle]
    /\ UNCHANGED <<row, begun, broken, ghosts>>

StoreChanged(t) ==
    LET j == tx[t].job
        r == tx[t].snap[j]
    IN
    /\ tx[t].op \in {"cancelled", "pending"}
    /\ ~Locked(t, j) /\ ~Conflict(t, {j})
    /\ CommitRows(t, Single(j, IF tx[t].op = "cancelled" THEN SetCancelled(r)
                               ELSE SetPending(r, j, tx[t].snap)), Idle)
    /\ UNCHANGED <<begun, broken, ghosts>>

\* button_done writes the job ...
StoreDone(t) ==
    LET j == tx[t].job IN
    /\ tx[t].op = "done"
    /\ ~Locked(t, j) /\ ~Conflict(t, {j})
    /\ tx' = [tx EXCEPT ![t].op = "doneWritten", ![t].new = Single(j, SetDone(tx[t].snap[j]))]
    /\ UNCHANGED <<row, begun, broken, ghosts>>

\* ... and its dependents, and commits both.
ReleaseDone(t) ==
    LET seen == Updated(tx[t].snap, tx[t].new)
        C == Children(tx[t].job, seen)
    IN
    /\ tx[t].op = "doneWritten"
    /\ \A c \in C : ~Locked(t, c)
    /\ ~Conflict(t, C)
    /\ CommitRows(t, Updated(tx[t].new, Pending(C, seen)), Idle)
    /\ UNCHANGED <<begun, broken, ghosts>>

Vacuumable(r) ==
    r.state # "deleted" /\ (r.doneAt = "old" \/ r.cancelledAt = "old")

JobAutovacuum ==
    LET V == {j \in Jobs : Vacuumable(row[j])}
        d == [j \in V |-> [state |-> "deleted", doneAt |-> "none", cancelledAt |-> "none"]]
    IN
    /\ V # {}
    /\ \A t \in Slots : tx[t].op # "idle" => V \cap DOMAIN tx[t].new = {}
    /\ row' = Updated(row, d)
    /\ tx' = [t \in Slots |->
           IF tx[t].op = "idle" THEN Idle ELSE [tx[t] EXCEPT !.stale = @ \cup V]]
    /\ gone' = gone \cup {j \in V : row[j].state = "done"}
    /\ UNCHANGED <<begun, broken, brokenJobs, overlapped, lost>>

\* The removal interval passes.
MonthPasses ==
    LET age(d) == IF d = "none" THEN d ELSE "old" IN
    /\ row' = [j \in Jobs |->
           [row[j] EXCEPT !.doneAt = age(@), !.cancelledAt = age(@)]]
    /\ row' # row
    /\ UNCHANGED <<tx, begun, broken, ghosts>>

JobTxNext ==
    \/ \E t \in Slots :
        \/ \E j \in Jobs :
            \/ Start(t, j)
            \/ \E op \in {"done", "cancelled", "pending"} : ChangeJobState(t, j, op)
        \/ PerformDone(t) \/ PerformRetry(t) \/ PerformFails(t) \/ CommitFails(t)
        \/ Kill(t) \/ EnqueueDependentJobs(t) \/ Released(t)
        \/ UserConflict(t) \/ StoreChanged(t) \/ StoreDone(t) \/ ReleaseDone(t)
    \/ JobAutovacuum \/ MonthPasses

JobTxSpec == JobTxInit /\ [][JobTxNext]_jobTxVars

-----------------------------------------------------------------------------
(* Properties *)

JobTxTypeOK ==
    /\ row \in [Jobs -> Row]
    /\ \A t \in Slots :
        /\ tx[t].op \in Ops
        /\ tx[t].op # "idle" =>
            /\ tx[t].job \in Jobs
            /\ tx[t].snap \in [Jobs -> Row]
            /\ DOMAIN tx[t].new \subseteq Jobs
            /\ tx[t].stale \subseteq Jobs
    /\ gone \subseteq Jobs /\ brokenJobs \subseteq Jobs
    /\ overlapped \in BOOLEAN /\ lost \in BOOLEAN

\* A job whose parents have all been done waits only while a worker is about
\* to release it: any order of workers that end at the same time, failures,
\* retries, requeues, cancellations and deletions of parents leaves no job
\* behind (enqueue_waiting, set_pending).  Two cases are left out since the
\* code does forget jobs then: a transaction of a user that overlaps with
\* another one, and a release that fails or is killed.
NoneForgotten ==
    ~overlapped /\ ~lost =>
        \A c \in Jobs :
            /\ row[c].state = "wait_dependencies"
            /\ \A p \in Parents[c] : row[p].state = "done" \/ p \in gone
            => \E t \in Slots : tx[t].op \in {"toRelease", "release"} /\ tx[t].job \in Parents[c]

\* autovacuum deletes only jobs that are over: dates of an earlier life of a
\* job that was requeued, postponed or cancelled do not remain.  A job whose
\* commit failed is left out: it keeps date_done and is deleted though failed.
OnlyOverVacuumed ==
    [][\A j \in Jobs \ brokenJobs :
        row'[j].state = "deleted" => row[j].state \in {"done", "cancelled", "deleted"}]_jobTxVars
=============================================================================
