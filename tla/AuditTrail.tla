---------------------------- MODULE AuditTrail ----------------------------
(* What the two audit modules log about one record: auditlog the values of  *)
(* fields, with the HTTP request and session an operation came from, and    *)
(* smile_audit the old and new values from which it shows an earlier        *)
(* revision of the record.  Requests run in transactions that may be rolled *)
(* back and tried again; a cron removes the old logs of auditlog.           *)
EXTENDS Naturals, FiniteSets, FiniteSetsExt

CONSTANTS
    Fields,            \* stored fields of the record
    Computed,          \* those computed from the others, all from Source
    Source,
    FieldsToExclude,   \* those the rule of auditlog excludes
    Values,            \* values of fields; Falsy is the empty one
    Falsy,
    LogType,           \* types of the rule
    Days,              \* how many days the cron keeps logs
    MaxDay,            \* bound on the days, one transaction a day
    MaxOps,            \* bound on the operations of a transaction
    MaxWork            \* bound on logged operations, also those rolled back

VARIABLES
    logType, captureRecord, logCreate,  \* flags of the two rules
    record,            \* the record's values, or Absent
    logs, requests, sessions,   \* rows of auditlog
    audits,            \* rows of smile_audit
    saved,             \* what a rollback restores
    http,              \* the request that runs
    day, lastId,
    hidden,            \* a user the rule excludes changed the record
    born,              \* the record was created; it has one life only
    past               \* past[d]: the record at the end of day d

content == <<record, logs, requests, sessions, audits, hidden, born>>
rules == <<logType, captureRecord, logCreate>>
trailVars == <<rules, content, saved, http, day, lastId, past>>

Absent == [f \in {} |-> Falsy]
Row == 1..(3 * MaxWork)
None == 0
Lines == UNION {[S -> [old: Values, new: Values]] : S \in SUBSET Fields}
Log == [id: Row, method: {"create", "read", "write", "unlink"}, lines: Lines,
        day: 1..MaxDay, request: Row \cup {None}, session: Row \cup {None}]

ASSUME AuditTrailAssumption ==
    /\ Computed \subseteq Fields /\ Source \in Fields \ Computed
    /\ FieldsToExclude \subseteq Fields \ {Source}
    /\ Falsy \in Values /\ LogType \subseteq {"full", "fast"}
    /\ {Days, MaxDay, MaxOps, MaxWork} \subseteq Nat

Nothing == <<>>
NoHttp == [kind |-> "none", user |-> "none", cached |-> None, ops |-> 0, tries |-> 0]

TrailTypeOK ==
    /\ logType \in LogType /\ captureRecord \in BOOLEAN /\ logCreate \in BOOLEAN
    /\ record = Absent \/ record \in [Fields -> Values]
    /\ logs \subseteq Log
    /\ requests \subseteq [id: Row, day: 1..MaxDay]
    /\ sessions \subseteq [id: Row, user: {"user", "excluded"}, day: 1..MaxDay]
    /\ http.kind \in {"none", "http", "cron"} /\ http.ops \in 0..MaxOps
    /\ day \in 0..MaxDay
    /\ DOMAIN past = 0..day

TrailInit ==
    /\ logType \in LogType /\ captureRecord \in BOOLEAN /\ logCreate \in BOOLEAN
    /\ record = Absent
    /\ logs = {} /\ requests = {} /\ sessions = {} /\ audits = {}
    /\ hidden = FALSE /\ born = FALSE
    /\ saved = Nothing
    /\ http = NoHttp
    /\ day = 0 /\ lastId = 0
    /\ past = [d \in {0} |-> Absent]

-----------------------------------------------------------------------------
(* Lines *)

Recompute(r) ==
    [f \in Fields |-> IF f \in Computed THEN r[Source] ELSE r[f]]

\* DictDiffer: fields of new that past lacks, and fields with another value.
Added(new, old) == DOMAIN new \ DOMAIN old
Changed(new, old) == {f \in DOMAIN new \cap DOMAIN old : new[f] # old[f]}

\* A line for each field of S that is not excluded.
MakeLines(S, old, new) ==
    LET v(f, r) == IF f \in DOMAIN r THEN r[f] ELSE Falsy
    IN  [f \in S \ FieldsToExclude |-> [old |-> v(f, old), new |-> v(f, new)]]

\* Mutant of OldValues: what the write stored is read, not what was there.
OldValues_After(vals, before, after) == after

\* The fast log takes every value it is given for a change of an empty one.
OldValues(vals, before, after) ==
    IF logType = "full" THEN before ELSE [f \in DOMAIN vals |-> Falsy]

NewValues(vals, after) == IF logType = "full" THEN after ELSE vals

LinesOnCreate(vals, after) ==
    LET new == NewValues(vals, after) IN MakeLines(Added(new, Absent), Absent, new)

LinesOnWrite(vals, before, after) ==
    LET new == NewValues(vals, after)
        old == OldValues(vals, before, after)
    IN  MakeLines(Changed(new, old), old, new)

LinesOnRead(S, before) == MakeLines(S, before, Absent)

LinesOnUnlink(before) ==
    IF captureRecord /\ logType = "full" THEN LinesOnRead(Fields, before)
    ELSE [f \in {} |-> Falsy]

-----------------------------------------------------------------------------
(* Rows *)

\* The session is searched by its name and user.
FoundSession == {s \in sessions : s.user = http.user}

\* The request remembers its row, which a rollback may have removed.
FoundRequest == {r \in requests : r.id = http.cached}

\* create_logs: a log with the rows of its request and session, which are
\* created when they are not found.  Only a log without lines is left out.
CreateLog(method, lines) ==
    LET session == IF FoundSession # {} THEN (CHOOSE s \in FoundSession : TRUE).id
                                        ELSE lastId + 1
        request == IF FoundRequest # {} THEN (CHOOSE r \in FoundRequest : TRUE).id
                                        ELSE lastId + 2
        byHttp == http.kind = "http"
    IN
    IF http.user = "excluded"
    THEN /\ hidden' = (hidden \/ method # "read")
         /\ UNCHANGED <<logs, requests, sessions, lastId>>
         /\ http' = [http EXCEPT !.ops = @ + 1]
    ELSE /\ http' = [http EXCEPT !.ops = @ + 1,
                                 !.cached = IF byHttp THEN request ELSE @]
         /\ sessions' = IF byHttp /\ FoundSession = {}
                        THEN sessions \cup {[id |-> session, user |-> http.user,
                                             day |-> day]}
                        ELSE sessions
         /\ requests' = IF byHttp /\ FoundRequest = {}
                        THEN requests \cup {[id |-> request, day |-> day]}
                        ELSE requests
         /\ logs' = IF method = "unlink" \/ DOMAIN lines # {}
                    THEN logs \cup {[id |-> lastId + 3, method |-> method,
                                     lines |-> lines, day |-> day,
                                     request |-> IF byHttp THEN request ELSE None,
                                     session |-> IF byHttp THEN session ELSE None]}
                    ELSE logs
         /\ lastId' = lastId + 3
         /\ UNCHANGED hidden

\* _format_data_to_log: fields that have the same value before and after go.
KeptOld(old, new) ==
    [f \in {g \in DOMAIN old : g \notin DOMAIN new \/ old[g] # new[g]} |-> old[f]]

\* smile_audit logs a method its rule names, if anything differs.
AuditLog(method, old, new) ==
    audits' = IF (method = "create" => logCreate) /\ old # new
              THEN audits \cup {[method |-> method, day |-> day, op |-> http.ops,
                                 old |-> KeptOld(old, new)]}
              ELSE audits

-----------------------------------------------------------------------------
(* Requests and crons, each in one transaction. *)

Running == http.kind # "none" /\ http.ops < MaxOps /\ lastId < 3 * MaxWork

StartRequest(kind, user) ==
    /\ http = NoHttp /\ day < MaxDay
    /\ http' = [NoHttp EXCEPT !.kind = kind, !.user = user]
    /\ day' = day + 1
    /\ past' = [d \in 0..(day + 1) |-> IF d \in DOMAIN past THEN past[d] ELSE record]
    /\ saved' = content
    /\ UNCHANGED <<rules, content, lastId>>

StoreRecord(r) ==
    /\ record' = r
    /\ past' = [past EXCEPT ![day] = r]

CreateRecord(vals) ==
    LET r == Recompute([f \in Fields |-> IF f \in DOMAIN vals THEN vals[f] ELSE Falsy])
    IN  /\ Running /\ http.ops = 0
        /\ ~born /\ born' = TRUE
        /\ StoreRecord(r)
        /\ CreateLog("create", LinesOnCreate(vals, r))
        /\ AuditLog("create", Absent, r)
        /\ UNCHANGED <<rules, saved, day>>

ReadRecord(S) ==
    /\ Running /\ record # Absent
    /\ CreateLog("read", LinesOnRead(S, record))
    /\ UNCHANGED <<rules, record, born, audits, saved, day, past>>

WriteRecord(vals) ==
    LET r == Recompute([f \in Fields |-> IF f \in DOMAIN vals THEN vals[f]
                                                              ELSE record[f]])
    IN  /\ Running /\ record # Absent
        /\ StoreRecord(r)
        /\ CreateLog("write", LinesOnWrite(vals, record, r))
        /\ AuditLog("write", record, r)
        /\ UNCHANGED <<rules, born, saved, day>>

UnlinkRecord ==
    /\ Running /\ record # Absent
    /\ StoreRecord(Absent)
    /\ CreateLog("unlink", LinesOnUnlink(record))
    /\ AuditLog("unlink", record, Absent)
    /\ UNCHANGED <<rules, born, saved, day>>

Commit ==
    /\ http.kind # "none"
    /\ http' = NoHttp /\ saved' = Nothing
    /\ UNCHANGED <<rules, content, day, lastId, past>>

Restore ==
    /\ record' = saved[1] /\ logs' = saved[2] /\ requests' = saved[3]
    /\ sessions' = saved[4] /\ audits' = saved[5]
    /\ hidden' = saved[6] /\ born' = saved[7]
    /\ past' = [past EXCEPT ![day] = saved[1]]

\* After a conflict the same request is tried again in a new transaction;
\* identifiers are not used again.
Retry ==
    /\ http.kind = "http" /\ http.tries = 0 /\ http.ops > 0
    /\ Restore
    /\ http' = [http EXCEPT !.tries = 1, !.ops = 0]
    /\ UNCHANGED <<rules, saved, day, lastId>>

Fail ==
    /\ http.kind # "none" /\ http.ops > 0
    /\ Restore
    /\ http' = NoHttp /\ saved' = Nothing
    /\ UNCHANGED <<rules, day, lastId>>

Old(R) == {r \in R : r.day + Days <= day}

\* The chunks the cron may remove: all old rows, or some of the oldest.
Vacuumed(R) ==
    {S \in SUBSET Old(R) : \A r \in S : \A q \in Old(R) \ S : r.day <= q.day}

\* Logs are removed first, then requests, then sessions, each by its own
\* age; a log whose request or session is removed has none any more.
AutoVacuum ==
    /\ http = NoHttp
    /\ \E L \in Vacuumed(logs), R \in Vacuumed(requests), S \in Vacuumed(sessions) :
       /\ L \cup R \cup S # {}
       /\ requests' = requests \ R /\ sessions' = sessions \ S
       /\ LET gone(x, T) == \E t \in T : t.id = x IN
          logs' = {[l EXCEPT !.request = IF gone(@, R) THEN None ELSE @,
                             !.session = IF gone(@, S) THEN None ELSE @]
                      : l \in logs \ L}
    /\ UNCHANGED <<rules, record, born, audits, hidden, saved, http, day, lastId, past>>

\* History revision of smile_audit: the values of the logs after the chosen
\* one, or from it on if creations are not logged, are put back, newest first;
\* the logs of one transaction have one date and come in any order.
Undone(d) == {a \in audits : IF logCreate THEN a.day > d ELSE a.day >= d}

Revision(d, f) ==
    LET A == {a \in Undone(d) : f \in DOMAIN a.old}
        first == Min({a.day : a \in A})
    IN  IF A = {} THEN {record[f]} ELSE {a.old[f] : a \in {b \in A : b.day = first}}

Vals == UNION {[S -> Values] : S \in SUBSET (Fields \ Computed) \ {{}}}

TrailNext ==
    \/ \E user \in {"user", "excluded"} : StartRequest("http", user)
    \/ StartRequest("cron", "user")
    \/ \E vals \in Vals : CreateRecord(vals) \/ WriteRecord(vals)
    \/ ReadRecord({Source})
    \/ UnlinkRecord
    \/ Commit \/ Retry \/ Fail \/ AutoVacuum

TrailSpec == TrailInit /\ [][TrailNext]_trailVars

-----------------------------------------------------------------------------
(* Properties *)

\* The logged changes of a field, in order.
About(f) == {l \in logs : l.method \in {"create", "write"} /\ f \in DOMAIN l.lines}
Newest(f) == CHOOSE l \in About(f) : \A k \in About(f) : k.id <= l.id

Unbroken ==
    record # Absent /\ ~hidden /\ \E d \in 1..day : d + Days > day /\ past[d - 1] = Absent

\* The full log of a record created within the days that are kept tells the
\* value of every field that is not excluded, computed ones too, and each
\* change starts from the value the one before it ended with; the fast log
\* tells the values users gave unless they are empty: after rollbacks, retries
\* and removals.  (Removed in chunks, old logs of one date go in any order.)
TrailIsWhole ==
    Unbroken =>
        \A f \in Fields \ FieldsToExclude :
            IF logType = "full"
            THEN /\ About(f) # {} /\ Newest(f).lines[f].new = record[f]
                 /\ \A l \in About(f) \ {Newest(f)} : \E k \in About(f) :
                        k.id > l.id /\ k.lines[f].old = l.lines[f].new
            ELSE f \notin Computed /\ record[f] # Falsy =>
                     About(f) # {} /\ Newest(f).lines[f].new = record[f]

\* No log names a request that does not exist, also when a retried request
\* remembers a row of the transaction that was rolled back
\* (current_http_request), and all logs of one transaction name one request.
RequestExists ==
    /\ \A l \in logs : l.request # None => \E r \in requests : r.id = l.request
    /\ \A l, k \in logs :
           l.day = k.day /\ l.request # None /\ k.request # None => l.request = k.request

\* A log that is young enough to be kept keeps its request: the removal looks
\* at the ages of logs and requests separately.  The session may go, as its
\* row is as old as its first log.
LogsKeepRequest ==
    [][\A l \in logs : l.day + Days > day =>
           \A k \in logs' : k.id = l.id => k.request = l.request]_trailVars

\* The revision shown for a log is the record as it was after the log's
\* transaction, or before it where creations are not logged, if no
\* transaction after it changed a field twice.
RevisionIsPast ==
    record # Absent =>
        \A a \in audits : \A f \in Fields :
            LET then == past[IF logCreate THEN a.day ELSE a.day - 1] IN
            then # Absent /\ Cardinality(Revision(a.day, f)) = 1
                => Revision(a.day, f) = {then[f]}

\* What the logs tell, of values, of requests and of revisions, is true now
\* and stays so while it is kept.
TrailIsTrue ==
    [][TrailIsWhole' /\ RequestExists' /\ RevisionIsPast']_trailVars /\ LogsKeepRequest
=============================================================================
