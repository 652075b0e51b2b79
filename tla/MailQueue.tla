----------------------------- MODULE MailQueue -----------------------------
(* Mails that the scheduled job and users send at the same time: MailMail.  *)
(* _send writes each mail before it is given to the mail server, so that    *)
(* two transactions cannot both send it.  A transaction reads the snapshot  *)
(* it began with and cannot write what another one committed since then.    *)
EXTENDS Integers, Sequences, SequencesExt, FiniteSets

CONSTANTS
    Mails,
    Recipients,
    Senders,
    AutoCommit,      \* the senders that commit after each mail
    RaiseException,  \* the senders that raise when a mail fails
    MaxRuns          \* bound: how often mails are taken up

VARIABLES
    mailState,       \* mailState[m], committed
    notification,    \* notification[m][r], committed
    written,         \* written[s][m]: what s wrote and did not commit
    snapshot,        \* snapshot[s]: mailState when its transaction began
    behind,          \* behind[s]: mails committed by others since then
    todo,            \* the mails s still has to send, the current one first
    sending,         \* TRUE while the current mail is being sent
    left,            \* recipients of the current mail that are left
    success,         \* success_pids
    failure,         \* failure_type, "" for none
    delivered,       \* delivered[m][r]: how often r got m
    undone,          \* ghost: transactions that were undone after m was sent
    runs

mailVars == <<mailState, notification, written, snapshot, behind, todo, sending,
              left, success, failure, delivered, undone, runs>>

\* An e-mail to each recipient, in the order _prepare_outgoing_list has them.
OneOf(S) == CHOOSE r \in S : TRUE
NotWritten == [state |-> "unchanged"]
Unsent == [r \in Recipients |-> "ready"]

ASSUME MailQueueAssumption ==
    /\ IsFiniteSet(Mails)
    /\ AutoCommit \cup RaiseException \subseteq Senders

MailInit ==
    /\ mailState = [m \in Mails |-> "outgoing"]
    /\ notification = [m \in Mails |-> Unsent]
    /\ written = [s \in Senders |-> [m \in Mails |-> NotWritten]]
    /\ snapshot = [s \in Senders |-> mailState] /\ behind = [s \in Senders |-> {}]
    /\ todo = [s \in Senders |-> <<>>] /\ sending = [s \in Senders |-> FALSE]
    /\ left = [s \in Senders |-> {}] /\ success = left
    /\ failure = [s \in Senders |-> ""]
    /\ delivered = [m \in Mails |-> [r \in Recipients |-> 0]]
    /\ undone = [m \in Mails |-> 0] /\ runs = 0

-----------------------------------------------------------------------------
(* Transactions *)

Dirty(s) == {m \in Mails : written[s][m] # NotWritten}

CommitMails(w, s) ==
    LET S == {m \in Mails : w[m] # NotWritten} IN
    /\ mailState' = [m \in Mails |-> IF m \in S THEN w[m].state ELSE mailState[m]]
    /\ notification' = [m \in Mails |-> IF m \in S THEN w[m].notif ELSE notification[m]]
    /\ written' = [written EXCEPT ![s] = [m \in Mails |-> NotWritten]]
    /\ snapshot' = [snapshot EXCEPT ![s] = mailState']
    /\ behind' = [t \in Senders |-> IF t = s THEN {} ELSE behind[t] \cup S]

\* What was sent before the transaction is undone will be sent again.
Undo(s, gone) ==
    /\ written' = [written EXCEPT ![s] = [m \in Mails |-> NotWritten]]
    /\ undone' = [m \in Mails |-> undone[m] + IF m \in gone THEN 1 ELSE 0]
    /\ todo' = [todo EXCEPT ![s] = <<>>] /\ sending' = [sending EXCEPT ![s] = FALSE]
    /\ left' = [left EXCEPT ![s] = {}] /\ success' = [success EXCEPT ![s] = {}]
    /\ failure' = [failure EXCEPT ![s] = ""]
    /\ UNCHANGED <<mailState, notification, snapshot, behind, delivered, runs>>

\* The queue is searched, or a user sends.
Send(s, ms) ==
    /\ todo[s] = <<>> /\ Dirty(s) = {} /\ runs < MaxRuns /\ runs' = runs + 1
    /\ todo' = [todo EXCEPT ![s] = ms]
    /\ snapshot' = [snapshot EXCEPT ![s] = mailState]
    /\ behind' = [behind EXCEPT ![s] = {}]
    /\ UNCHANGED <<mailState, notification, written, sending, left, success, failure,
                   delivered, undone>>

Seen(s, m) == IF written[s][m] = NotWritten THEN snapshot[s][m] ELSE written[s][m].state

-----------------------------------------------------------------------------
(* _send *)

Current(s) == Head(todo[s])
NextMail(s) == todo' = [todo EXCEPT ![s] = Tail(@)]

SkipMail(s) ==
    /\ todo[s] # <<>> /\ ~sending[s] /\ Seen(s, Current(s)) # "outgoing"
    /\ NextMail(s)
    /\ UNCHANGED <<mailState, notification, written, snapshot, behind, sending, left,
                   success, failure, delivered, undone, runs>>

\* Not sent yet, as long as nothing else is known.
Provisional(m) ==
    [state |-> "exception",
     notif |-> [r \in Recipients |->
                   IF notification[m][r] = "sent" THEN "sent" ELSE "exception"]]

\* Mutant of WriteEarly: the mail is written when it has been sent.
WriteEarly_Not(s, m) == UNCHANGED written

\* The write waits for the transaction that holds the row.
WriteEarly(s, m) ==
    /\ \A t \in Senders \ {s} : written[t][m] = NotWritten
    /\ m \notin behind[s]
    /\ written' = [written EXCEPT ![s][m] = Provisional(m)]

BeginMail(s) ==
    LET m == Current(s) IN
    /\ todo[s] # <<>> /\ ~sending[s] /\ Seen(s, m) = "outgoing"
    /\ WriteEarly(s, m)
    /\ sending' = [sending EXCEPT ![s] = TRUE]
    /\ left' = [left EXCEPT ![s] = Recipients] /\ success' = [success EXCEPT ![s] = {}]
    /\ failure' = [failure EXCEPT ![s] = ""]
    /\ UNCHANGED <<mailState, notification, snapshot, behind, todo, delivered, undone, runs>>

\* A psycopg2.Error: what this transaction had sent before is undone.
WriteConflicts(s) ==
    /\ todo[s] # <<>> /\ ~sending[s] /\ Seen(s, Current(s)) = "outgoing"
    /\ Current(s) \in behind[s]
    /\ Undo(s, Dirty(s))

SendEmail(s) ==
    LET r == OneOf(left[s]) IN
    /\ sending[s] /\ left[s] # {}
    /\ delivered' = [delivered EXCEPT ![Current(s)][r] = @ + 1]
    /\ success' = [success EXCEPT ![s] = @ \cup {r}]
    /\ left' = [left EXCEPT ![s] = @ \ {r}]
    /\ UNCHANGED <<mailState, notification, written, snapshot, behind, todo, sending,
                   failure, undone, runs>>

NoValidRecipient(s) ==
    /\ sending[s] /\ left[s] # {}
    /\ left' = [left EXCEPT ![s] = @ \ {OneOf(@)}]
    /\ failure' = [failure EXCEPT ![s] = "mail_email_invalid"]
    /\ UNCHANGED <<mailState, notification, written, snapshot, behind, todo, sending,
                   success, delivered, undone, runs>>

\* SMTPServerDisconnected, a MemoryError, or the end of the process.
SendBreaks(s) ==
    /\ sending[s] \/ Dirty(s) # {}
    /\ Undo(s, Dirty(s) \cup IF success[s] = {} THEN {} ELSE {Current(s)})

\* _postprocess_sent_message
Postprocess(m, got, type) ==
    [r \in Recipients |->
        IF notification[m][r] = "sent" \/ type = "" \/ r \in got
        THEN "sent" ELSE "exception"]

\* The state of the mail, then the notifications, then perhaps the commit.
Done(s, state, type) ==
    LET m == Current(s)
        w == [written[s] EXCEPT
                 ![m] = [state |-> state, notif |-> Postprocess(m, success[s], type)]]
    IN
    /\ IF s \in AutoCommit THEN CommitMails(w, s)
       ELSE /\ written' = [written EXCEPT ![s] = w]
            /\ UNCHANGED <<mailState, notification, snapshot, behind>>
    /\ NextMail(s) /\ sending' = [sending EXCEPT ![s] = FALSE]
    /\ left' = [left EXCEPT ![s] = {}] /\ success' = [success EXCEPT ![s] = {}]
    /\ failure' = [failure EXCEPT ![s] = ""]
    /\ UNCHANGED <<delivered, undone, runs>>

MailSent(s) ==
    /\ sending[s] /\ left[s] = {}
    /\ Done(s, IF success[s] = {} THEN "exception" ELSE "sent", failure[s])

SendFails(s) ==
    /\ sending[s] /\ left[s] # {}
    /\ IF s \in RaiseException
       THEN Undo(s, Dirty(s) \cup IF success[s] = {} THEN {} ELSE {Current(s)})
       ELSE Done(s, "exception", IF failure[s] = "" THEN "unknown" ELSE failure[s])

EndRequest(s) ==
    /\ todo[s] = <<>> /\ Dirty(s) # {}
    /\ CommitMails(written[s], s)
    /\ UNCHANGED <<todo, sending, left, success, failure, delivered, undone, runs>>

MailNext ==
    \E s \in Senders :
        \/ \E S \in SUBSET Mails \ {{}} : \E ms \in SetToSeqs(S) : Send(s, ms)
        \/ SkipMail(s) \/ BeginMail(s) \/ WriteConflicts(s)
        \/ SendEmail(s) \/ NoValidRecipient(s) \/ SendBreaks(s)
        \/ MailSent(s) \/ SendFails(s) \/ EndRequest(s)

MailSpec == MailInit /\ [][MailNext]_mailVars

-----------------------------------------------------------------------------
(* Properties *)

MailStates == {"outgoing", "sent", "exception"}

MailTypeOK ==
    /\ mailState \in [Mails -> MailStates] /\ snapshot \in [Senders -> [Mails -> MailStates]]
    /\ notification \in [Mails -> [Recipients -> {"ready", "sent", "exception"}]]
    /\ \A m \in Mails : Cardinality({s \in Senders : written[s][m] # NotWritten}) <= 1
    /\ \A s \in Senders : left[s] \cup success[s] \subseteq Recipients

\* Nobody gets a mail twice, whoever sends it at the same time, but for mails
\* that were sent by a transaction which was undone later.
HeardOnce ==
    \A m \in Mails, r \in Recipients : delivered[m][r] <= 1 + undone[m]

\* A notification that is sent was delivered, and the other way round for a
\* mail that is not to be sent again.
NotificationsAreTrue ==
    \A m \in Mails, r \in Recipients :
        /\ notification[m][r] = "sent" => delivered[m][r] > 0
        /\ mailState[m] # "outgoing" /\ delivered[m][r] > 0 /\ undone[m] = 0 =>
               \/ notification[m][r] = "sent"
               \/ \E s \in Senders : written[s][m] # NotWritten

\* Who got a mail got it once, and the notifications tell who did.
MailIsTold == HeardOnce /\ NotificationsAreTrue
=============================================================================
