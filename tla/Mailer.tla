------------------------------- MODULE Mailer -------------------------------
(***************************************************************************)
(* Notifications and their delivery (modules/notification): the row that   *)
(* notify writes in the transaction of the thing it announces, and the     *)
(* replicas of the worker that send what is PENDING on the channels the    *)
(* tenant has turned on.  A row is its own queue entry and nobody claims   *)
(* it: PENDING is the whole claim.                                         *)
(***************************************************************************)
EXTENDS Naturals, FiniteSets

CONSTANTS
    Notes,          \* notification ids, numbered in the order of created_at
    Senders,        \* one delivery worker per replica
    Others,         \* outbound channels this build has no sender for
    MailBatch,      \* BATCH: rows one pass takes
    MaxMailFaults,  \* bound: workers that stop or statements that fail
    MaxEdits        \* bound: changes of the tenant's channels

MailerConstantsOK ==
    /\ Notes \subseteq Nat
    /\ IsFiniteSet(Senders)
    /\ MailBatch \in Nat \ {0}
    /\ "EMAIL" \notin Others

VARIABLES
    action,     \* the transaction each notification announces
    status,     \* notifications.status; written with the action, seen once it commits
    channels,   \* the enabled outbound channels of the tenant
    removed,    \* whether the account of the recipient, the same for all, is deleted
    sender,     \* each worker's pass
    copies,     \* ghost: the emails the relay took, per notification
    logs,       \* notification_logs: <<notification, status>>, of any channel
    quiet,      \* ghost: those a worker found no channel for
    mailFaults, edits

mailerVars == <<action, status, channels, removed, sender, copies, logs, quiet,
                mailFaults, edits>>

Channels == {"EMAIL"} \cup Others
Asleep == [at |-> "idle", batch |-> {}, addressed |-> FALSE, todo |-> {},
           worked |-> TRUE, tried |-> "none", outcome |-> "none"]

MailerInit ==
    /\ action = [n \in Notes |-> "none"]
    /\ status = [n \in Notes |-> "none"]
    /\ channels \in SUBSET Channels
    /\ removed = FALSE
    /\ sender = [w \in Senders |-> Asleep]
    /\ copies = [n \in Notes |-> 0]
    /\ logs = {}
    /\ quiet = {}
    /\ mailFaults = 0 /\ edits = 0

-----------------------------------------------------------------------------
(* The action, the tenant's settings and the account                       *)

WorkersOnly == UNCHANGED <<action, channels, removed, edits>>
ActionsOnly == UNCHANGED <<channels, removed, sender, copies, logs, quiet, mailFaults, edits>>

NotifyOnThePool(n) ==  \* the row commits by itself, whatever becomes of the action
    /\ action[n] = "none"
    /\ action' = [action EXCEPT ![n] = "open, told"]
    /\ status' = [status EXCEPT ![n] = "PENDING"]
    /\ ActionsOnly

\* notify: the row is written in the transaction of the action.
Notify(n) ==
    /\ action[n] = "none"
    /\ action' = [action EXCEPT ![n] = "open"]
    /\ status' = [status EXCEPT ![n] = "PENDING"]
    /\ ActionsOnly

CommitAction(n) ==
    /\ action[n] = "open"
    /\ action' = [action EXCEPT ![n] = "committed"]
    /\ UNCHANGED status /\ ActionsOnly

\* A later step of the action fails, and its row goes with it.
RollBackAction(n) ==
    /\ action[n] = "open"
    /\ action' = [action EXCEPT ![n] = "none"]
    /\ status' = [status EXCEPT ![n] = "none"]
    /\ ActionsOnly

SetChannels ==
    /\ edits < MaxEdits
    /\ edits' = edits + 1
    /\ channels' \in SUBSET Channels
    /\ UNCHANGED <<action, status, removed, sender, copies, logs, quiet, mailFaults>>

RemoveRecipient ==
    /\ ~removed
    /\ removed' = TRUE
    /\ UNCHANGED <<action, status, channels, sender, copies, logs, quiet, mailFaults, edits>>

-----------------------------------------------------------------------------
(* A pass                                                                  *)

Visible(n) == action[n] # "open"

PendingOrFailed == {n \in Notes : Visible(n) /\ status[n] \in {"PENDING", "FAILED"}}

PendingDeliveries == {n \in Notes : Visible(n) /\ status[n] = "PENDING"}

\* ORDER BY created_at LIMIT BATCH
OldestNotes(D) == {n \in D : Cardinality({m \in D : m < n}) < MailBatch}

FirstNote(w) == CHOOSE n \in sender[w].batch : \A m \in sender[w].batch : n <= m

\* The channel of the next attempt: ORDER BY channel_type puts EMAIL first.
NextChannel(todo) == IF "EMAIL" \in todo THEN "EMAIL" ELSE CHOOSE c \in todo : TRUE

\* pending_deliveries: the address is read with the row.
TakeDeliveries(w) ==
    /\ sender[w].at = "idle" /\ PendingDeliveries # {}
    /\ sender' = [sender EXCEPT ![w] = [Asleep EXCEPT !.at = "channels",
                    !.batch = OldestNotes(PendingDeliveries), !.addressed = ~removed]]
    /\ WorkersOnly /\ UNCHANGED <<status, copies, logs, quiet, mailFaults>>

\* deliver_one: with no channel the row is SENT, and nothing is logged.
ReadChannels(w) ==
    /\ sender[w].at = "channels"
    /\ sender' = [sender EXCEPT ![w].at = IF channels = {} THEN "mark" ELSE "attempt",
                    ![w].todo = channels, ![w].worked = TRUE]
    /\ quiet' = IF channels = {} THEN quiet \cup {FirstNote(w)} ELSE quiet
    /\ WorkersOnly /\ UNCHANGED <<status, copies, logs, mailFaults>>

\* send_email, or a channel nothing sends on.  A relay that took the message
\* and whose answer was lost counts as a failure.
Attempt(w) ==
    /\ sender[w].at = "attempt"
    /\ LET c == NextChannel(sender[w].todo)
           mailed == c = "EMAIL" /\ sender[w].addressed
       IN \E taken \in (IF mailed THEN BOOLEAN ELSE {FALSE}) :
          \E ok \in (IF taken THEN BOOLEAN ELSE {FALSE}) :
            /\ copies' = [copies EXCEPT ![FirstNote(w)] = IF taken THEN @ + 1 ELSE @]
            /\ sender' = [sender EXCEPT ![w].at = "log", ![w].tried = c,
                            ![w].outcome = IF ok THEN "SENT" ELSE "FAILED"]
    /\ WorkersOnly /\ UNCHANGED <<status, logs, quiet, mailFaults>>

\* record_attempt, and on to the next channel or to the row.
RecordAttempt(w) ==
    /\ sender[w].at = "log"
    /\ logs' = logs \cup {<<FirstNote(w), sender[w].outcome>>}
    /\ LET rest == sender[w].todo \ {sender[w].tried}
       IN sender' = [sender EXCEPT ![w].at = IF rest = {} THEN "mark" ELSE "attempt",
                       ![w].todo = rest, ![w].tried = "none", ![w].outcome = "none",
                       ![w].worked = @ /\ sender[w].outcome = "SENT"]
    /\ WorkersOnly /\ UNCHANGED <<status, copies, quiet, mailFaults>>

NextNote(w) ==
    LET rest == sender[w].batch \ {FirstNote(w)}
    IN [sender EXCEPT ![w] =
          IF rest = {} THEN Asleep
          ELSE [Asleep EXCEPT !.at = "channels", !.batch = rest,
                                  !.addressed = sender[w].addressed]]

MarkSuccess(w) ==  \* a failure stays PENDING, to be tried again
    /\ sender[w].at = "mark"
    /\ status' = [status EXCEPT ![FirstNote(w)] =
                    IF @ = "PENDING" /\ sender[w].worked THEN "SENT" ELSE @]
    /\ sender' = NextNote(w)
    /\ WorkersOnly /\ UNCHANGED <<copies, logs, quiet, mailFaults>>

MarkRegardless(w) ==  \* the attempts' outcome is not looked at
    /\ sender[w].at = "mark"
    /\ status' = [status EXCEPT ![FirstNote(w)] = IF @ = "PENDING" THEN "SENT" ELSE @]
    /\ sender' = NextNote(w)
    /\ WorkersOnly /\ UNCHANGED <<copies, logs, quiet, mailFaults>>

\* mark_delivered: over PENDING only.
MarkDelivered(w) ==
    /\ sender[w].at = "mark"
    /\ status' = [status EXCEPT ![FirstNote(w)] =
                    IF @ # "PENDING" THEN @
                    ELSE IF sender[w].worked THEN "SENT" ELSE "FAILED"]
    /\ sender' = NextNote(w)
    /\ WorkersOnly /\ UNCHANGED <<copies, logs, quiet, mailFaults>>

\* The process dies, or a statement fails and ends the pass: what is left of
\* the batch stays PENDING, the notification under way as well.
Abandon(w) ==
    /\ sender[w].at # "idle" /\ mailFaults < MaxMailFaults
    /\ mailFaults' = mailFaults + 1
    /\ sender' = [sender EXCEPT ![w] = Asleep]
    /\ WorkersOnly /\ UNCHANGED <<status, copies, logs, quiet>>

Pass(w) ==
    \/ TakeDeliveries(w) \/ ReadChannels(w) \/ Attempt(w) \/ RecordAttempt(w)
    \/ MarkDelivered(w)

-----------------------------------------------------------------------------
MailerNext ==
    \/ \E n \in Notes : Notify(n) \/ CommitAction(n) \/ RollBackAction(n)
    \/ SetChannels
    \/ RemoveRecipient
    \/ \E w \in Senders : Pass(w) \/ Abandon(w)

MailerSpec == MailerInit /\ [][MailerNext]_mailerVars

\* The worker's loop never ends: an error is logged and the next pass comes.
MailerFairSpec == MailerSpec /\ \A w \in Senders : WF_mailerVars(Pass(w))

-----------------------------------------------------------------------------
(* Properties                                                              *)

MailerTypeOK ==
    /\ action \in [Notes -> {"none", "open", "committed"}]
    /\ status \in [Notes -> {"none", "PENDING", "SENT", "FAILED"}]
    /\ channels \subseteq Channels
    /\ removed \in BOOLEAN
    /\ sender \in [Senders -> [at : {"idle", "channels", "attempt", "log", "mark"},
                     batch : SUBSET Notes, addressed : BOOLEAN, todo : SUBSET Channels,
                     worked : BOOLEAN, tried : Channels \cup {"none"},
                     outcome : {"none", "SENT", "FAILED"}]]
    /\ copies \in [Notes -> Nat]
    /\ logs \subseteq (Notes \X {"SENT", "FAILED"})
    /\ quiet \subseteq Notes
    /\ mailFaults \in Nat /\ edits \in Nat

\* No email tells of an action that did not commit, whenever the worker looks
\* (notify joins the caller's transaction).
NobodyHearsOfARollback == \A n \in Notes : copies[n] > 0 => action[n] = "committed"

\* SENT means that the relay took the email, or that no channel was enabled;
\* FAILED that some attempt failed and the log says so (deliver_one).
StatusTellsTheAttempts ==
    \A n \in Notes :
        /\ status[n] = "SENT" => copies[n] > 0 \/ n \in quiet
        /\ status[n] = "FAILED" => <<n, "FAILED">> \in logs

\* No mail of what was rolled back, and a status that says what was tried.
MailTellsTheTruth == NobodyHearsOfARollback /\ StatusTellsTheAttempts

\* "One attempt": a message leaves once for every replica that may hold the row
\* at once, and once more for every pass that was cut short; neither a failure
\* nor a success is ever tried again (pending_deliveries, mark_delivered).
CopiesArePaidFor == \A n \in Notes : copies[n] <= Cardinality(Senders) + mailFaults

\* Every notification of a committed action is delivered or marked failed: one
\* that cannot be sent does not hold up those behind it.
EveryNotificationIsSettled ==
    \A n \in Notes : action[n] = "committed" ~> status[n] \in {"SENT", "FAILED"}
=============================================================================
