----------------------------- MODULE JobStorage -----------------------------
(* One job as a Job object in the process that runs it and as a row of       *)
(* queue_job: what each store writes, what each load forgets, the recordset  *)
(* that is encoded with its user and context, and the form of the managers   *)
(* who change the row while the job is performed.                            *)
EXTENDS Naturals, FiniteSets

CONSTANTS
    Users,           \* who delays jobs and who manages them
    Contexts,        \* contexts of requests: functions from keys to values
    KeptKeys,        \* _job_prepare_context_before_enqueue_keys
    JobChannels,
    DefaultMaxRetries,
    MaxTries,        \* bound: the count of tries at which no job is started
    MaxEdits         \* bound: how often managers write on the form

VARIABLES
    autoKey,         \* the context_key of the patched method, "" for none
    jobRow,          \* the row, NoRow before the job is delayed
    jobObject,       \* the job in the worker, NoRow when there is none
    overtaken,       \* the row was written since the worker's snapshot
    again,           \* ghost: the job has delayed its own method once more
    wanted,          \* ghost: channel, user and context that were asked for
    edits

storageVars == <<autoKey, jobRow, jobObject, overtaken, again, wanted, edits>>

NoRow == [state |-> "none"]

ASSUME JobStorageAssumption ==
    /\ MaxTries \in Nat /\ MaxEdits \in Nat /\ DefaultMaxRetries \in Nat \ {0}

StorageInit ==
    /\ autoKey \in {"", "auto_delay"}
    /\ jobRow = NoRow /\ jobObject = NoRow
    /\ overtaken = FALSE /\ again = FALSE
    /\ wanted = NoRow /\ edits = 0

-----------------------------------------------------------------------------
(* The recordset as JSON *)

\* JobEncoder keeps the user, the mode and the safe keys of the context.
Encode(env) ==
    [env EXCEPT !.context = [k \in DOMAIN @ \cap KeptKeys |-> @[k]]]

\* A context, and what another one has beside it.
With(context, other) ==
    [k \in DOMAIN context \cup DOMAIN other |->
        IF k \in DOMAIN context THEN context[k] ELSE other[k]]

\* JobDecoder: with_context adds to the context of the reader.
Decode(records, reader) == [records EXCEPT !.context = With(@, reader)]

\* with_user also leaves the superuser mode.
WithUser(env, u) == [env EXCEPT !.uid = u, !.su = FALSE]

-----------------------------------------------------------------------------
(* Job: __init__, load, store *)

NewJob(env, channel, max_retries) ==
    [state |-> "pending", retry |-> 0, max_retries |-> max_retries,
     exc_name |-> FALSE, exc_message |-> FALSE, exc_info |-> FALSE,
     dates |-> {}, eta |-> FALSE, channel |-> channel, env |-> env]

\* Mutant of Load: the name and the message of an exception are restored, too.
Load_Exceptions(r, reader) ==
    [NewJob(Decode(r.records, reader), r.channel, r.max_retries) EXCEPT
        !.state = r.state, !.retry = r.retry, !.dates = r.dates, !.eta = r.eta,
        !.exc_name = r.exc_name, !.exc_message = r.exc_message, !.exc_info = r.exc_info]

\* The constructor sets exc_name and exc_message to None, only exc_info is
\* read back.
Load(r, reader) ==
    [NewJob(Decode(r.records, reader), r.channel, r.max_retries) EXCEPT
        !.state = r.state, !.retry = r.retry, !.dates = r.dates, !.eta = r.eta,
        !.exc_info = r.exc_info]

\* _store_values of a job that exists.
Stored(r, j) ==
    [r EXCEPT !.state = j.state, !.retry = j.retry, !.max_retries = j.max_retries,
              !.dates = j.dates, !.eta = j.eta, !.exc_name = j.exc_name,
              !.exc_message = j.exc_message, !.exc_info = j.exc_info]

\* _store_values(create=True).
CreatedRow(j) ==
    [state |-> j.state, retry |-> j.retry, max_retries |-> j.max_retries,
     exc_name |-> j.exc_name, exc_message |-> j.exc_message, exc_info |-> j.exc_info,
     dates |-> j.dates, eta |-> j.eta, channel |-> j.channel,
     user_id |-> j.env.uid, records |-> Encode(j.env)]

-----------------------------------------------------------------------------
(* Job: states *)

SetStatePending(j, reset) ==
    [j EXCEPT !.state = "pending", !.dates = {}, !.retry = IF reset THEN 0 ELSE @]

SetStateStarted(j) == [j EXCEPT !.state = "started", !.dates = @ \cup {"started"}]

SetStateDone(j) ==
    [j EXCEPT !.state = "done", !.dates = @ \cup {"done"},
              !.exc_name = FALSE, !.exc_info = FALSE]

SetStateCancelled(j) == [j EXCEPT !.state = "cancelled", !.dates = @ \cup {"cancelled"}]

SetStateFailed(j) ==
    [j EXCEPT !.state = "failed",
              !.exc_name = TRUE, !.exc_message = TRUE, !.exc_info = TRUE]

PostponeEta(j) == [j EXCEPT !.eta = TRUE, !.exc_name = FALSE, !.exc_info = FALSE]

-----------------------------------------------------------------------------
(* Delaying *)

\* auto_delay_wrapper
RunsNow(context) ==
    \/ "job_uuid" \in DOMAIN context
    \/ autoKey # "" /\ autoKey \notin DOMAIN context
    \/ "queue_job__no_delay" \in DOMAIN context

CallPatched(env, channel, max_retries) ==
    /\ jobRow = NoRow /\ ~RunsNow(env.context)
    /\ jobRow' = CreatedRow(NewJob(env, channel, max_retries))
    /\ wanted' = [channel |-> channel, user_id |-> env.uid,
                  context |-> Encode(env).context]
    /\ UNCHANGED <<autoKey, jobObject, overtaken, again, edits>>

-----------------------------------------------------------------------------
(* The runner and a worker *)

\* set_job_enqueued
EnqueueRow ==
    /\ jobRow # NoRow /\ jobRow.state = "pending"
    /\ jobRow' = [jobRow EXCEPT !.state = "enqueued", !.dates = @ \cup {"enqueued"}]
    /\ overtaken' = (jobObject # NoRow)
    /\ UNCHANGED <<autoKey, jobObject, again, wanted, edits>>

\* The job is loaded, stored as started and committed; its method, with
\* job_uuid in the context, begins.
StartRow ==
    LET j == SetStateStarted(Load(jobRow, <<>>)) IN
    /\ jobRow # NoRow /\ jobRow.state = "enqueued" /\ jobObject = NoRow
    /\ jobRow.retry < MaxTries
    /\ jobRow' = Stored(jobRow, j)
    /\ jobObject' = [j EXCEPT !.retry = @ + 1]
    /\ overtaken' = FALSE
    /\ again' = (again \/ ~RunsNow(With([k \in {"job_uuid"} |-> "1"], j.env.context)))
    /\ UNCHANGED <<autoKey, wanted, edits>>

LeaveJob(r) ==
    /\ jobRow' = r /\ jobObject' = NoRow /\ overtaken' = FALSE
    /\ UNCHANGED <<autoKey, again, wanted, edits>>

\* retry_postpone stores through a cursor of its own, over what is there.
RetryPostpone(j) == LeaveJob(Stored(jobRow, SetStatePending(PostponeEta(j), FALSE)))
StoreFailed(j) == LeaveJob(Stored(jobRow, SetStateFailed(j)))

\* Its store conflicts with what others have committed since the start.
PerformEnds ==
    /\ jobObject # NoRow
    /\ IF overtaken THEN RetryPostpone(SetStateDone(jobObject))
       ELSE LeaveJob(Stored(jobRow, SetStateDone(jobObject)))

\* Not a conflict that is retried: the request ends, the row stays.
PerformNothingToDo ==
    /\ jobObject # NoRow
    /\ IF overtaken THEN LeaveJob(jobRow)
       ELSE LeaveJob(Stored(jobRow, SetStateDone(jobObject)))

\* RetryableJobError
PerformAgain(ignore_retry) ==
    LET j == IF ignore_retry THEN [jobObject EXCEPT !.retry = @ - 1] ELSE jobObject IN
    /\ jobObject # NoRow
    /\ IF ~ignore_retry /\ j.max_retries # 0 /\ j.retry >= j.max_retries
       THEN StoreFailed(j)
       ELSE RetryPostpone(j)

PerformRaises(committing) ==
    /\ jobObject # NoRow
    /\ StoreFailed(IF committing THEN SetStateDone(jobObject) ELSE jobObject)

WorkerDies == jobObject # NoRow /\ LeaveJob(jobRow)

-----------------------------------------------------------------------------
(* Managers *)

Edit(r) ==
    /\ jobRow # NoRow /\ edits < MaxEdits /\ edits' = edits + 1
    /\ jobRow' = r /\ overtaken' = (jobObject # NoRow)
    /\ UNCHANGED <<autoKey, jobObject, again>>

\* The user of the recordset follows the field, unless the manager is that
\* user: it is the manager's id which write compares.
WriteUser(manager, context, u) ==
    /\ Edit([jobRow EXCEPT
             !.user_id = u,
             !.records = IF manager = u THEN @
                         ELSE Encode(WithUser(Decode(@, context), u))])
    /\ wanted' = [wanted EXCEPT !.user_id = u]

WriteChannel(c) ==
    Edit([jobRow EXCEPT !.channel = c]) /\ wanted' = [wanted EXCEPT !.channel = c]

WriteMaxRetries(n) == Edit([jobRow EXCEPT !.max_retries = n]) /\ UNCHANGED wanted

\* _change_job_state: requeue and "set to done" take every selected job, "set
\* to cancelled" those that neither run nor ended.
ToState(j, state) ==
    CASE state = "done"      -> SetStateDone(j)
      [] state = "pending"   -> SetStatePending(j, TRUE)
      [] state = "cancelled" -> SetStateCancelled(j)

ByWizard(state) ==
    IF state = "cancelled" THEN {"pending", "failed", "enqueued"}
    ELSE {"pending", "enqueued", "started", "failed", "done", "cancelled"}

ChangeState(state) ==
    /\ jobRow # NoRow /\ jobRow.state \in ByWizard(state)
    /\ Edit(Stored(jobRow, ToState(Load(jobRow, <<>>), state))) /\ UNCHANGED wanted

StorageNext ==
    \/ \E u \in Users, su \in BOOLEAN, context \in Contexts, c \in JobChannels,
          n \in {0, DefaultMaxRetries} :
          CallPatched([uid |-> u, su |-> su, context |-> context], c, n)
    \/ EnqueueRow \/ StartRow
    \/ PerformEnds \/ PerformNothingToDo \/ WorkerDies
    \/ \E b \in BOOLEAN : PerformAgain(b) \/ PerformRaises(b)
    \/ \E m, u \in Users, context \in Contexts : WriteUser(m, context, u)
    \/ \E c \in JobChannels : WriteChannel(c)
    \/ \E n \in {0, DefaultMaxRetries} : WriteMaxRetries(n)
    \/ \E s \in {"done", "pending", "cancelled"} : ChangeState(s)

StorageSpec == StorageInit /\ [][StorageNext]_storageVars

-----------------------------------------------------------------------------
(* Properties *)

StorageTypeOK ==
    /\ jobRow # NoRow => /\ jobRow.retry \in 0..MaxTries
                         /\ jobRow.channel \in JobChannels
                         /\ jobRow.user_id \in Users /\ jobRow.records.uid \in Users
                         /\ DOMAIN jobRow.records.context \subseteq KeptKeys
    /\ jobObject # NoRow => jobObject.state = "started"

\* The exceptions and the dates of a row are those of its state, after any
\* sequence of failures, retries, conflicts and what managers do: a load
\* forgets some of them, set_done clears others, a store writes them all.
RowTellsOutcome ==
    jobRow # NoRow =>
        /\ jobRow.state \in {"pending", "enqueued", "started", "done"} =>
              ~jobRow.exc_name /\ ~jobRow.exc_message
        /\ jobRow.state = "done" => ~jobRow.exc_info /\ "done" \in jobRow.dates
        /\ jobRow.state = "failed" =>
              jobRow.exc_name /\ jobRow.exc_message /\ jobRow.exc_info
        /\ jobRow.state = "pending" => jobRow.dates = {}
        /\ jobRow.state \in {"pending", "enqueued", "started"} =>
              jobRow.dates \cap {"done", "cancelled"} = {}

\* The channel and the user managers gave a job stay, whatever a worker stores
\* that loaded it before; so does the context its recordset was delayed with.
EditsAreKept ==
    jobRow # NoRow =>
        /\ jobRow.channel = wanted.channel /\ jobRow.user_id = wanted.user_id
        /\ \A k \in DOMAIN wanted.context : jobRow.records.context[k] = wanted.context[k]

\* The job of a patched method runs it and delays it no more.
DelaysOnce == ~again

\* The field that is there to search and group by has the user of the recordset.
UserIsSynchronized == jobRow # NoRow => jobRow.user_id = jobRow.records.uid

\* What a row tells is what happened and what was asked, whoever loads and
\* stores it; and no job asks for itself.
RowIsTrue == RowTellsOutcome /\ EditsAreKept /\ DelaysOnce
=============================================================================
