---------------------------- MODULE MCBackground ----------------------------
(* Instances of Attachments, Mailer and Outbox for TLC: the three workers    *)
(* of the process, which share nothing.  `part` says which of them a         *)
(* behaviour is about, while the others stay in their first state, and which *)
(* end of the instance it uses: two replicas over fewer rows (a race), or    *)
(* one replica over all of them (a queue).  Outbox is here for its liveness, *)
(* and MCWorkflow checks its safety.                                         *)
EXTENDS Attachments, Mailer

CONSTANTS s1, s2, r1, None

VARIABLES
    part,
    event, now, pc, batch, current, started, outcome, holder, settled, logged,
    outboxFaults, slow

\* The first file cannot be read back, the second is longer than a part and
\* infected, the fourth is long and of a type not allowed.
MCContent == [f \in Files |-> IF f = 2 THEN "INFECTED" ELSE "CLEAN"]

\* No consumer of this build knows the second event; a lease is longer than the
\* first retry delay, as LEASE (300 s) is longer than 30 s.
O == INSTANCE Outbox WITH
       Events <- 1..2, Unknown <- {2}, Aggregate <- [e \in 1..2 |-> e],
       CreatedAt <- [e \in 1..2 |-> 0], Workers <- Scanners, Batch <- 1, Lease <- 2,
       MaxAttempts <- 2, Backoff <- <<1, 2>>, None <- None, MaxFaults <- 2, MaxSlow <- 1,
       row <- event, faults <- outboxFaults

ASSUME AttachmentsConstants == ConstantsOK
ASSUME MailerConstants == MailerConstantsOK

outboxVars == <<event, now, pc, batch, current, started, outcome, holder, settled,
                logged, outboxFaults, slow>>
allVars == <<part, vars, mailerVars, outboxVars>>

\* One upload at a time: two of them share nothing.
OneUpload == Cardinality({f \in Files : upload'[f] \notin {"none", "ended"}}) <= 1

Attaching ==
    /\ \/ part = "scan race" /\ \A f \in Files : f # reader[r1].file => upload'[f] = "none"
       \/ part = "scan queue" /\ scanner'[s2] = scanner[s2] /\ reader' = reader
                              /\ upload'[4] = "none"
       \/ part = "refusal" /\ \A f \in 1..3 : upload'[f] = "none"
    /\ OneUpload
    /\ UNCHANGED <<part, mailerVars, outboxVars>>
Mailing ==
    /\ \/ part = "mail race" /\ action'[2] = "none"
       \/ part = "mail queue" /\ sender'[s2] = sender[s2]
    /\ UNCHANGED <<part, vars, outboxVars>>
Delivering ==
    /\ part = "outbox"
    /\ UNCHANGED <<part, vars, mailerVars>>

BackgroundInit ==
    /\ part \in {"scan race", "scan queue", "refusal", "mail race", "mail queue", "outbox"}
    /\ Init /\ MailerInit /\ O!Init
    /\ reader[r1].file # 1
    /\ part = "scan queue" => reader[r1].file = 2
    /\ part \notin {"mail race", "mail queue"} => channels = {}
    /\ part \notin {"scan race", "scan queue", "refusal"} => reader[r1].file = 2
BackgroundNext ==
    \/ part \in {"scan race", "scan queue", "refusal"} /\ Next /\ Attaching
    \/ part \in {"mail race", "mail queue"} /\ MailerNext /\ Mailing
    \/ part = "outbox" /\ O!Next /\ Delivering

\* One replica of the scanner and of the mailer that keeps running is enough.
BackgroundSpec ==
    /\ BackgroundInit /\ [][BackgroundNext]_allVars
    /\ WF_allVars(Scan(s1) /\ Attaching)
    /\ WF_allVars(Pass(s1) /\ Mailing)
    /\ WF_allVars(O!Tick /\ Delivering)
    /\ \A w \in Scanners : WF_allVars(O!Deliver(w) /\ Delivering)

\* Every file is decided, every notification and every event settled, in the end.
EverythingIsSettled ==
    EveryFileIsDecided /\ EveryNotificationIsSettled /\ O!EveryEventIsSettled
=============================================================================
