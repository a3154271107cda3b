----------------------------- MODULE AfterHooks -----------------------------
(***************************************************************************)
(* The circuit breaker of an after-hook (modules/hook: run_after_chain and *)
(* report_if_opened, called by workflow/service/after_hooks in the outbox  *)
(* worker's transaction).  Nothing is stored but the log of executions:    *)
(* whether a handler is paused, and whether its last failure is the one    *)
(* to report, are read from the newest rows each time.                     *)
(*                                                                         *)
(* One hook and one handler: the log is read per handler, so chains of     *)
(* several handlers are several such logs.  Every statement reads what is  *)
(* committed, and its own transaction's row.                               *)
(***************************************************************************)
EXTENDS Naturals, FiniteSets

CONSTANTS
    Workers,    \* replicas that deliver Workflow.Transitioned
    Threshold,  \* BREAKER_THRESHOLD
    CoolDown,   \* BREAKER_COOL_DOWN
    MaxNow,     \* bound: the clock
    MaxRuns     \* bound: rows recorded

HooksConstantsOK ==
    /\ IsFiniteSet(Workers)
    /\ {Threshold, CoolDown} \subseteq Nat \ {0} /\ {MaxNow, MaxRuns} \subseteq Nat

VARIABLES
    now,        \* the database's clock
    kind,       \* what the handler serves: "after", or only "before"
    log,        \* document_hook_executions, the committed rows
    worker,     \* each replica's delivery
    told,       \* committed reports to the administrators
    issued,     \* ids given to rows: uuid v7, in the order of the inserts
    overlapped  \* history: two deliveries' transactions have overlapped

hookVars == <<now, kind, log, worker, told, issued, overlapped>>

NoDelivery == [at |-> "idle", began |-> 0, wrote |-> {}, tells |-> FALSE]

HooksInit ==
    /\ now = 0 /\ kind \in {"after", "before"}
    /\ log = {} /\ told = 0 /\ issued = 0 /\ overlapped = FALSE
    /\ worker = [w \in Workers |-> NoDelivery]

-----------------------------------------------------------------------------
(* The log, as one transaction reads it                                    *)

Older(a, b) == a.at < b.at \/ (a.at = b.at /\ a.id < b.id)

\* recent_executions: ORDER BY executed_at DESC, id DESC LIMIT n.
Recent(w, n) ==
    LET seen == log \cup worker[w].wrote
    IN  {a \in seen : Cardinality({b \in seen : Older(a, b)}) < n}

AllFailed(rows) == Cardinality(rows) = Threshold /\ \A a \in rows : a.error

Newest(rows) == CHOOSE a \in rows : \A b \in rows : b = a \/ Older(b, a)

\* now() is the start of the transaction, on both sides of the comparison.
Cooled(w, a) == a.at + CoolDown <= worker[w].began

BreakerIsOpenOneLate(w) ==  \* recent.len() > BREAKER_THRESHOLD
    LET last == Recent(w, Threshold)
    IN  /\ Cardinality(Recent(w, Threshold + 1)) > Threshold
        /\ AllFailed(last) /\ ~Cooled(w, Newest(last))

BreakerIsOpen(w) ==
    LET last == Recent(w, Threshold)
    IN  AllFailed(last) /\ ~Cooled(w, Newest(last))

OpenedByAny(w) == AllFailed(Recent(w, Threshold))  \* every failed trial reports

\* breaker_opened_by_latest: and the one before them, if any, did not fail.
OpenedByLatest(w) ==
    /\ AllFailed(Recent(w, Threshold))
    /\ \A a \in Recent(w, Threshold + 1) \ Recent(w, Threshold) : ~a.error

-----------------------------------------------------------------------------
(* A delivery                                                              *)

Move(w, to) == worker' = [worker EXCEPT ![w] = to]
Busy == {w \in Workers : worker[w].at # "idle"}

\* The worker's transaction begins.
Begin(w) ==
    /\ worker[w].at = "idle"
    /\ Move(w, [NoDelivery EXCEPT !.at = "chain", !.began = now])
    /\ overlapped' = (overlapped \/ Busy # {})
    /\ UNCHANGED <<now, kind, log, told, issued>>

\* Paused: nothing runs, no row, and the delivery is retried later.
Pause(w) ==
    /\ worker[w].at = "chain" /\ kind = "after" /\ BreakerIsOpen(w)
    /\ Move(w, [worker[w] EXCEPT !.at = "done"])
    /\ UNCHANGED <<now, kind, log, told, issued, overlapped>>

\* Closed, or cooled: the handler runs.
Run(w) ==
    /\ worker[w].at = "chain" /\ kind = "after" /\ ~BreakerIsOpen(w)
    /\ Move(w, [worker[w] EXCEPT !.at = "ran"])
    /\ UNCHANGED <<now, kind, log, told, issued, overlapped>>

\* The row: CONTINUE, or ERROR for a failure or an overrun.  A before-only
\* handler is an ERROR that never ran, whatever the breaker says.
Record(w) ==
    /\ worker[w].at = IF kind = "after" THEN "ran" ELSE "chain"
    /\ issued < MaxRuns /\ issued' = issued + 1
    /\ \E error \in IF kind = "after" THEN BOOLEAN ELSE {TRUE} :
         Move(w, [worker[w] EXCEPT
                    !.at = IF error THEN "failed" ELSE "done",
                    !.wrote = {[at |-> worker[w].began, id |-> issued, error |-> error]}])
    /\ UNCHANGED <<now, kind, log, told, overlapped>>

\* report_if_opened, which reads the log again.
Report(w) ==
    /\ worker[w].at = "failed"
    /\ Move(w, [worker[w] EXCEPT !.at = "done", !.tells = OpenedByLatest(w)])
    /\ UNCHANGED <<now, kind, log, told, issued, overlapped>>

\* Rows and reports commit with the event's settlement: also on a retry.
Commit(w) ==
    /\ worker[w].at = "done"
    /\ log' = log \cup worker[w].wrote
    /\ told' = told + (IF worker[w].tells THEN 1 ELSE 0)
    /\ Move(w, NoDelivery)
    /\ UNCHANGED <<now, kind, issued, overlapped>>

\* The claim is lost, or the replica dies: row and report are gone together.
LoseDelivery(w) ==
    /\ worker[w].at # "idle"
    /\ Move(w, NoDelivery)
    /\ UNCHANGED <<now, kind, log, told, issued, overlapped>>

Tick ==
    /\ now < MaxNow /\ now' = now + 1
    /\ UNCHANGED <<kind, log, worker, told, issued, overlapped>>

HooksNext ==
    \/ Tick
    \/ \E w \in Workers : \/ Begin(w) \/ Pause(w) \/ Run(w) \/ Record(w)
                          \/ Report(w) \/ Commit(w) \/ LoseDelivery(w)

HooksSpec == HooksInit /\ [][HooksNext]_hookVars

-----------------------------------------------------------------------------
(* Properties                                                              *)

HooksTypeOK ==
    /\ now \in 0..MaxNow /\ kind \in {"after", "before"} /\ overlapped \in BOOLEAN
    /\ log \subseteq [at : 0..MaxNow, id : 0..MaxRuns, error : BOOLEAN]
    /\ told \in Nat /\ issued \in 0..MaxRuns

(* A handler that keeps failing is left alone: however the replicas'       *)
(* deliveries interleave, within one cool-down it is run at most as often  *)
(* as opens the breaker, and once more by each other replica, which had    *)
(* read the log before (breaker_is_open, ADR-0041).                        *)
FailingHandlerIsLeftAlone ==
    \A t \in 0..MaxNow :
        kind = "after" /\ (\A a \in log : a.at >= t => a.error) =>
            Cardinality({a \in log : t <= a.at /\ a.at < t + CoolDown})
              <= Threshold + Cardinality(Workers) - 1

\* The rows that complete a first Threshold failures in a row.
Openings ==
    {a \in log :
        LET upTo == {b \in log : b = a \/ Older(b, a)}
            after == {b \in upTo : \A c \in upTo : Older(b, c) \/ b = c => c.error}
        IN  Cardinality(after) = Threshold}

(* While deliveries follow one another, the administrators are told of     *)
(* each opening exactly once, whatever trials fail after it and whatever   *)
(* is rolled back (breaker_opened_by_latest: "notified once, by the        *)
(* execution that opened it").  Deliveries that overlap can tell them      *)
(* twice, or never.                                                        *)
ReportedOncePerOpening ==
    ~overlapped => told = Cardinality(Openings)

\* A failing handler is left alone, and its owners are told once per opening.
FailuresAreContained == FailingHandlerIsLeftAlone /\ ReportedOncePerOpening
=============================================================================
