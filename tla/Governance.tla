----------------------------- MODULE Governance -----------------------------
(***************************************************************************)
(* Governed changes of master data (modules/master_data/service/governance,*)
(* record_status, party and facility): a document proposes a change to a   *)
(* record, its submission parks the record, and the process that decides   *)
(* the document applies the change or puts the record back.  Beside it the *)
(* direct routes to a record: update, status transition, deletion.         *)
(*                                                                         *)
(* A submission and a step of a process lock the document, the change and  *)
(* the record, so each is one step.  A direct write reads the record on    *)
(* the pool first (`writer`); a deletion locks it.                         *)
(***************************************************************************)
EXTENDS Naturals, FiniteSets

CONSTANTS
    Docs,       \* documents of a type that governs records
    Routed,     \* those whose type is bound to a workflow
    Records,    \* parties and facilities
    Changes,    \* form data that reads as a change
    Underway,   \* by document: what the states of its definition that are not final
                \* map to (mapsToDocumentStatus)
    Ends,       \* by document: what the final ones map to
    Writers,    \* direct updates and transitions in flight
    MaxStrays   \* bound: records moved by none of this code while parked

VARIABLES
    doc,        \* documents: status, form data, linked record, process, and the
                \* first status of that process that settles (its verdict)
    record,     \* record_status, deleted_at, and the record's own fields
    change,     \* mdm_change_requests, by document
    writer,     \* what each direct write read on the pool
    strays

governanceVars == <<doc, record, change, writer, strays>>

Statuses == {"DRAFT", "SUBMITTED", "IN_REVIEW", "PENDING_APPROVAL", "APPROVED",
             "REJECTED", "RETURNED", "COMPLETED", "ARCHIVED", "CANCELLED"}
Editable == {"DRAFT", "RETURNED"}
Approving == {"APPROVED", "COMPLETED"}
Refusing == {"REJECTED", "CANCELLED"}
Settling == Approving \cup Refusing

\* A definition may map any state, final or not, to any status: what is
\* accepted has some state that maps to COMPLETED or CANCELLED (S9), no more.
GovernanceConstantsOK ==
    /\ Routed \subseteq Docs
    /\ {"unreadable", "first", "direct"} \cap Changes = {}
    /\ Underway \in [Routed -> SUBSET Statuses] /\ Ends \in [Routed -> SUBSET Statuses]

RecordStatuses == {"DRAFT", "PENDING_APPROVAL", "ACTIVE", "SUSPENDED", "INACTIVE",
                   "ARCHIVED"}

FormData == Changes \cup {"unreadable"}
NoChange == [state |-> "none"]
ChangeRows == [state : {"open", "APPLIED", "REFUSED"}, record : Records,
               previous : RecordStatuses]
NoWrite == [at |-> "idle"]
Direct == [at : {"update"}, record : Records]
            \cup [at : {"transition"}, record : Records, status : RecordStatuses]

GovernanceInit ==
    /\ doc \in [Docs -> [status : {"DRAFT"}, data : FormData, link : Records,
                         process : {"none"}, verdict : {"none"}]]
    /\ record = [r \in Records |-> [status |-> "DRAFT", value |-> "first", deleted |-> FALSE]]
    /\ change = [d \in Docs |-> NoChange]
    /\ writer = [w \in Writers |-> NoWrite]
    /\ strays = 0

-----------------------------------------------------------------------------
(* The record                                                              *)

\* RecordStatus::may_move_to
RecordMayMoveTo(status) ==
    CASE status = "DRAFT" -> {"PENDING_APPROVAL", "ACTIVE", "INACTIVE"}
      [] status = "PENDING_APPROVAL" -> {"ACTIVE", "DRAFT"}
      [] status = "ACTIVE" -> {"PENDING_APPROVAL", "SUSPENDED", "INACTIVE"}
      [] status = "SUSPENDED" -> {"ACTIVE", "INACTIVE"}
      [] status = "INACTIVE" -> {"ACTIVE", "ARCHIVED"}
      [] OTHER -> {}

Parked(r) == record[r].status = "PENDING_APPROVAL" /\ ~record[r].deleted

WritersOnly == UNCHANGED <<doc, change, strays>>

\* update_party, update_facility: the record and whether it is parked.
ReadForUpdate(w, r) ==
    /\ writer[w] = NoWrite
    /\ ~record[r].deleted /\ ~Parked(r)
    /\ writer' = [writer EXCEPT ![w] = [at |-> "update", record |-> r]]
    /\ UNCHANGED record /\ WritersOnly

\* Their statement asks for a live record and no more.
UpdateRecord(w) ==
    /\ writer[w].at = "update"
    /\ LET r == writer[w].record
       IN record' = [record EXCEPT ![r].value = IF record[r].deleted THEN @ ELSE "direct"]
    /\ writer' = [writer EXCEPT ![w] = NoWrite]
    /\ WritersOnly

\* transition, up to its statement: the status, and not a parked one.
ReadForTransition(w, r) ==
    /\ writer[w] = NoWrite
    /\ ~record[r].deleted /\ ~Parked(r)
    /\ RecordMayMoveTo(record[r].status) # {}
    /\ writer' = [writer EXCEPT ![w] =
                    [at |-> "transition", record |-> r, status |-> record[r].status]]
    /\ UNCHANGED record /\ WritersOnly

\* A compare-and-swap from what was read, to a status that is not parked.
TransitionRecord(w) ==
    /\ writer[w].at = "transition"
    /\ LET r == writer[w].record
       IN IF record[r].status = writer[w].status /\ ~record[r].deleted
            THEN \E to \in RecordMayMoveTo(record[r].status) \ {"PENDING_APPROVAL"} :
                   record' = [record EXCEPT ![r].status = to]
            ELSE UNCHANGED record
    /\ writer' = [writer EXCEPT ![w] = NoWrite]
    /\ WritersOnly

\* A direct write that ends before its statement: refused, or its process died.
Refuse(w) ==
    /\ writer[w] # NoWrite
    /\ writer' = [writer EXCEPT ![w] = NoWrite]
    /\ UNCHANGED record /\ WritersOnly

\* delete_party, delete_facility
DeleteRecord(r) ==
    /\ ~record[r].deleted /\ ~Parked(r)
    /\ record' = [record EXCEPT ![r].deleted = TRUE]
    /\ UNCHANGED <<doc, change, writer, strays>>

\* "An out-of-band write, a later release or a plugin": moved_on is for this.
Stray(r) ==
    /\ strays < MaxStrays /\ Parked(r)
    /\ strays' = strays + 1
    /\ \/ \E to \in RecordMayMoveTo("PENDING_APPROVAL") :
            record' = [record EXCEPT ![r].status = to]
       \/ record' = [record EXCEPT ![r].deleted = TRUE]
    /\ UNCHANGED <<doc, change, writer>>

-----------------------------------------------------------------------------
(* The change                                                              *)

SettleBlindly(K, R, d, D) ==  \* an approval settles a record that has moved on
    LET r == K[d].record
        here == R[r].status = "PENDING_APPROVAL" /\ ~R[r].deleted
    IN  IF D.status \notin Settling \/ K[d].state # "open"
          THEN change' = K /\ record' = R
          ELSE /\ change' = [K EXCEPT ![d].state =
                               IF D.status \in Approving /\ here THEN "APPLIED" ELSE "REFUSED"]
               /\ record' = IF ~here THEN R
                            ELSE IF D.status \in Approving
                              THEN [R EXCEPT ![r].status = "ACTIVE", ![r].value = D.data]
                              ELSE [R EXCEPT ![r].status = K[d].previous]

(* project_from_workflow and settle: document d, now D, has the status its *)
(* process gave it; the change it carries, if it is still open, is applied *)
(* to the record it parked or refused.  K and R are the changes and the    *)
(* records as the transaction has them.                                    *)
Settle(K, R, d, D) ==
    LET r == K[d].record
        parked == R[r].status = "PENDING_APPROVAL" /\ ~R[r].deleted
    IN  \/ /\ D.status \notin Settling \/ K[d].state # "open"
           /\ change' = K /\ record' = R
        \/ /\ D.status \in Approving /\ K[d].state = "open"
           /\ parked /\ D.data \in Changes
           /\ change' = [K EXCEPT ![d].state = "APPLIED"]
           /\ record' = [R EXCEPT ![r].status = "ACTIVE", ![r].value = D.data]
        \/ /\ D.status \in Refusing /\ K[d].state = "open"
           /\ change' = [K EXCEPT ![d].state = "REFUSED"]
           /\ record' = IF parked THEN [R EXCEPT ![r].status = K[d].previous] ELSE R

AtRest(D, ended, s, first) ==
    [D EXCEPT !.status = s, !.process = IF ended THEN "ended" ELSE "running",
              !.verdict = IF D.verdict = "none" /\ first \in Settling THEN first ELSE D.verdict]

(* enter, as far as the document goes: the process of d, now D, goes on by *)
(* itself and comes to rest in a state, final or not.  Each state it comes *)
(* to projects its status; `first` is the first of them that settles, or   *)
(* the last one, s, and those after it find nothing open.                  *)
Enter(K, R, d, D) ==
    \E ended \in BOOLEAN : \E s \in IF ended THEN Ends[d] ELSE Underway[d] :
    \E first \in (Underway[d] \cap Settling) \cup {s} :
        /\ Settle(K, R, d, [D EXCEPT !.status = first])
        /\ doc' = [doc EXCEPT ![d] = AtRest(D, ended, s, first)]

RaiseUnlocked(d) ==  \* only this document's own change is looked at
    /\ change[d].state = "none" /\ doc[d].data \in Changes
    /\ ~record[doc[d].link].deleted

\* raise, inside the submission: no other change awaits approval, and the
\* record is one that may be parked.
MayRaise(d) ==
    LET r == doc[d].link
    IN  /\ doc[d].data \in Changes
        /\ ~record[r].deleted
        /\ "PENDING_APPROVAL" \in RecordMayMoveTo(record[r].status)
        /\ change[d] = NoChange
        /\ \A e \in Docs : change[e].state = "open" => change[e].record # r

-----------------------------------------------------------------------------
(* The document                                                            *)

DocumentsOnly == UNCHANGED <<record, change, writer, strays>>

\* update_document: a draft is not read as a change.
UpdateDocument(d) ==
    /\ doc[d].status \in Editable
    /\ \E data \in FormData, r \in Records :
         doc' = [doc EXCEPT ![d].data = data, ![d].link = r]
    /\ DocumentsOnly

\* submit_document, first or again: the record is parked, and the process, if
\* the type has one, starts or goes on.
Submit(d) ==
    /\ doc[d].status \in Editable
    /\ MayRaise(d)
    /\ LET r == doc[d].link
           K == [change EXCEPT ![d] =
                   [state |-> "open", record |-> r, previous |-> record[r].status]]
           R == [record EXCEPT ![r].status = "PENDING_APPROVAL"]
       IN IF d \in Routed
            THEN Enter(K, R, d, doc[d])
            ELSE /\ doc' = [doc EXCEPT ![d].status = "SUBMITTED"]
                 /\ change' = K /\ record' = R
    /\ UNCHANGED <<writer, strays>>

\* A decision, or any other step of the process.
MoveProcess(d) ==
    /\ doc[d].process = "running"
    /\ Enter(change, record, d, doc[d])
    /\ UNCHANGED <<writer, strays>>

\* DocumentStatus::may_move_to
MayMoveTo(status) ==
    CASE status = "SUBMITTED" -> {"IN_REVIEW", "APPROVED", "REJECTED", "RETURNED", "CANCELLED"}
      [] status = "IN_REVIEW" -> {"APPROVED", "REJECTED", "RETURNED", "CANCELLED"}
      [] status = "RETURNED" -> {"SUBMITTED", "CANCELLED"}
      [] status = "APPROVED" -> {"COMPLETED", "CANCELLED"}
      [] status = "REJECTED" -> {"CANCELLED"}
      [] OTHER -> {}

\* transition, by hand: not while a process decides, and nothing is settled.
MoveByHand(d) ==
    /\ doc[d].process # "running"
    /\ \E to \in MayMoveTo(doc[d].status) : doc' = [doc EXCEPT ![d].status = to]
    /\ DocumentsOnly

-----------------------------------------------------------------------------
GovernanceNext ==
    \/ \E d \in Docs : UpdateDocument(d) \/ Submit(d) \/ MoveProcess(d) \/ MoveByHand(d)
    \/ \E r \in Records :
         \/ DeleteRecord(r) \/ Stray(r)
         \/ \E w \in Writers : ReadForUpdate(w, r) \/ ReadForTransition(w, r)
    \/ \E w \in Writers : UpdateRecord(w) \/ TransitionRecord(w) \/ Refuse(w)

GovernanceSpec == GovernanceInit /\ [][GovernanceNext]_governanceVars

-----------------------------------------------------------------------------
(* Properties                                                              *)

GovernanceTypeOK ==
    /\ doc \in [Docs -> [status : Statuses, data : FormData, link : Records,
                         process : {"none", "running", "ended"},
                         verdict : {"none"} \cup Settling]]
    /\ record \in [Records -> [status : RecordStatuses, deleted : BOOLEAN,
                               value : Changes \cup {"first", "direct"}]]
    /\ change \in [Docs -> {NoChange} \cup ChangeRows]
    /\ writer \in [Writers -> {NoWrite} \cup Direct]
    /\ strays \in Nat

(* A parked record waits for exactly one change, and that change for a     *)
(* process that can still decide it, unless its type has none or a         *)
(* definition one of whose ends settles nothing; and where nothing         *)
(* strayed, an open change has its record parked and present.              *)
(* (raise and settle in the transactions of submit and enter, D-60.)       *)
ParkedForOneChange ==
    /\ \A r \in Records : Parked(r) =>
         Cardinality({d \in Docs : change[d].state = "open" /\ change[d].record = r}) = 1
    /\ \A d \in Docs : change[d].state = "open" =>
         /\ d \in Routed => \/ doc[d].process = "running"
                            \/ doc[d].process = "ended" /\ ~(Ends[d] \subseteq Settling)
         /\ strays = 0 => Parked(change[d].record)

(* What becomes of a change is the first verdict of its process and stays  *)
(* so, whatever statuses follow it, and until there is one the change is   *)
(* open: none is approved with its record untouched.  And no record        *)
(* carries a change nobody approved, whatever the document links by then   *)
(* (settle and moved_on).                                                  *)
DecisionIsSettled ==
    /\ \A d \in Docs :
         /\ change[d].state = "APPLIED" <=> doc[d].verdict \in Approving
         /\ change[d].state = "REFUSED" <=> doc[d].verdict \in Refusing
    /\ \A r \in Records : record[r].value \in Changes =>
         \E d \in Routed : change[d].state = "APPLIED" /\ change[d].record = r

\* A record is parked for one change, which its decision settles.
ChangesAreSettled == ParkedForOneChange /\ DecisionIsSettled

(* master_data/service/party.rs:275: "A governed change that could be      *)
(* overtaken by a direct edit would be a governance nobody has to use":    *)
(* the fields of a parked record stay as they are (refuted: the refusal    *)
(* reads the pool, and the update lands after the record was parked).      *)
NothingOvertakesTheChange ==
    [][\A r \in Records : Parked(r) /\ record'[r].status = "PENDING_APPROVAL" =>
        record'[r].value = record[r].value]_governanceVars
=============================================================================
