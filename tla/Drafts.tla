------------------------------- MODULE Drafts -------------------------------
(***************************************************************************)
(* Document types, the revisions of the form they bind, and the drafts     *)
(* created from them (modules/document_type/service, rad/service/form,     *)
(* document/service/document and form): a draft pins the revision its type *)
(* binds, and one that pinned none is held to whatever the type binds.     *)
(*                                                                         *)
(* A request is a transaction of several statements under READ COMMITTED,  *)
(* which reads rows with FOR UPDATE (`locks`) or FOR SHARE (`shares`) and  *)
(* writes at its commit; a statement that needs a row waits for whoever    *)
(* holds it.  A request ends, refused or dead, wherever it stands.         *)
(***************************************************************************)
EXTENDS Naturals, FiniteSets

CONSTANTS
    Types,
    Forms,        \* rows of rad_forms under one form_key
    Texts,        \* definitions that a save accepts
    Publishable,  \* those that a publication accepts, too
    Documents,
    Parties,      \* what a document may be linked to
    Flows,        \* workflow definitions
    Requests,
    None

DraftsConstantsOK ==
    /\ Publishable \subseteq Texts
    /\ None \notin Forms \cup Texts \cup Parties \cup Types \cup Documents
    /\ "counter" \notin Forms \cup Parties \cup Types \cup Documents \cup {None}
    /\ Forms \cap (Parties \cup Types \cup Documents) = {}  \* ids are UUIDs
    /\ Types \cap Documents = {} /\ Parties \cap (Types \cup Documents) = {}

VARIABLES
    type,       \* document_types: form_id, deleted_at, and the workflow bindings
    form,       \* rad_forms
    doc,        \* documents
    counter,    \* document_ref_sequences.next_sequence, as committed
    retired,    \* parties that are deleted
    request

draftVars == <<type, form, doc, counter, retired, request>>

Absent == [state |-> "absent"]

\* Rows that are absent are alike: an insert takes the same one of them.
HasFresh(rows) == \E x \in DOMAIN rows : rows[x] = Absent
Fresh(rows) == CHOOSE x \in DOMAIN rows : rows[x] = Absent
TypeRows == [state : {"live", "deleted"}, form : Forms \cup {None}, flows : SUBSET Flows]
FormRows == [state : {"live", "deleted"}, status : {"DRAFT", "PUBLISHED"}, text : Texts,
             revision : Nat \ {0}]

\* `filled` is a ghost: the definition its data was last evaluated against.
DocRows == [state : {"live", "deleted"}, type : Types, form : Forms \cup {None},
            ref : Nat \ {0}, party : Parties \cup {None}, filled : Texts \cup {None}]

Places == {"idle",
           "typed", "opened", "checked", "governed", "numbered",   \* of a draft
           "binding", "read", "compared", "bound", "retiring",     \* of a type
           "revising", "saving", "publishing"}                     \* of a form

NoRequest == [at |-> "idle", on |-> None, locks |-> {}, shares |-> {}, form |-> None,
              text |-> None, party |-> None, flows |-> {}, number |-> 0]

DraftsInit ==
    /\ type = [t \in Types |-> Absent]
    /\ form = [f \in Forms |-> Absent]
    /\ doc = [d \in Documents |-> Absent]
    /\ counter = 1
    /\ retired = {}
    /\ request = [r \in Requests |-> NoRequest]

LiveDocs == {d \in Documents : doc[d].state = "live"}
Of(t) == {d \in LiveDocs : doc[d].type = t}

\* The row may be locked, or written; the row may be shared.
Free(x) == \A r \in Requests : x \notin request[r].locks \cup request[r].shares
Sharable(x) == \A r \in Requests : x \notin request[r].locks

EndRequest(r) == request' = [request EXCEPT ![r] = NoRequest]
RequestsOnly == UNCHANGED <<type, form, doc, counter, retired>>

\* An error path, a lost connection, a process that dies: nothing was written.
Fail(r) ==
    /\ request[r].at # "idle"
    /\ EndRequest(r)
    /\ RequestsOnly

-----------------------------------------------------------------------------
(* Drafts                                                                  *)

\* definition_of: a deleted revision is read, too.
DefinitionOf(f) == IF f = None THEN None ELSE form[f].text

LockPinnedFormBare(r, t) ==  \* the row is read and not held
    /\ request[r].at = "idle"
    /\ type[t].state = "live"
    /\ request' = [request EXCEPT ![r] =
                     [NoRequest EXCEPT !.at = "typed", !.on = t,
                                       !.form = type[t].form, !.text = DefinitionOf(type[t].form)]]
    /\ RequestsOnly

\* lock_pinned_form, of a creation.
LockPinnedForm(r, t) ==
    /\ request[r].at = "idle"
    /\ type[t].state = "live" /\ Free(t)
    /\ request' = [request EXCEPT ![r] =
                     [NoRequest EXCEPT !.at = "typed", !.on = t, !.locks = {t},
                                       !.form = type[t].form, !.text = DefinitionOf(type[t].form)]]
    /\ RequestsOnly

\* lock_document, of an update.
OpenDraft(r, d) ==
    /\ request[r].at = "idle"
    /\ d \in LiveDocs /\ Free(d)
    /\ request' = [request EXCEPT ![r] =
                     [NoRequest EXCEPT !.at = "opened", !.on = d, !.locks = {d},
                                       !.party = doc[d].party]]
    /\ RequestsOnly

LinkEntityBare(r, p) ==  \* the party is read and not held
    /\ request[r].at \in {"typed", "opened"}
    /\ p \notin retired
    /\ request' = [request EXCEPT ![r].at = "checked", ![r].party = p]
    /\ RequestsOnly

\* check_entity: the party is live, and held until the commit.
LinkEntity(r, p) ==
    /\ request[r].at \in {"typed", "opened"}
    /\ p \notin retired /\ Sharable(p)
    /\ request' = [request EXCEPT ![r].at = "checked", ![r].party = p, ![r].shares = {p}]
    /\ RequestsOnly

\* No link is sent, which an update leaves as it is, or a null one.
LinkNothing(r, cleared) ==
    /\ request[r].at \in {"typed", "opened"}
    /\ request' = [request EXCEPT ![r].at = "checked",
                                  ![r].party = IF cleared THEN None ELSE @]
    /\ RequestsOnly

AllocateBare(r) ==  \* the number is read, and written at the commit
    /\ request[r].at = "checked" /\ request[r].on \in Types
    /\ request' = [request EXCEPT ![r].at = "numbered", ![r].number = counter]
    /\ RequestsOnly

\* allocate_reference: the upsert waits for whoever took the last reference.
AllocateReference(r) ==
    /\ request[r].at = "checked" /\ request[r].on \in Types
    /\ Free("counter")
    /\ request' = [request EXCEPT ![r].at = "numbered", ![r].number = counter,
                                  ![r].locks = @ \cup {"counter"}]
    /\ RequestsOnly

\* insert_document and the commit.
CreateDocument(r) ==
    /\ request[r].at = "numbered"
    /\ HasFresh(doc)
    /\ LET q == request[r]
       IN  /\ doc' = [doc EXCEPT ![Fresh(doc)] =
                        [state |-> "live", type |-> q.on, form |-> q.form, ref |-> q.number,
                         party |-> q.party, filled |-> q.text]]
           /\ counter' = q.number + 1
    /\ EndRequest(r)
    /\ UNCHANGED <<type, form, retired>>

FormOfTheType(r) ==  \* whatever the type binds by now
    /\ request[r].at = "checked" /\ request[r].on \in Documents
    /\ LET t == doc[request[r].on].type
       IN  /\ Free(t)
           /\ request' = [request EXCEPT ![r].at = "governed", ![r].locks = @ \cup {t},
                                         ![r].text = DefinitionOf(type[t].form)]
    /\ RequestsOnly

\* pinned_form_of, of an update: what the draft pinned, or what its type binds.
PinnedFormOf(r) ==
    /\ request[r].at = "checked" /\ request[r].on \in Documents
    /\ LET d == doc[request[r].on]
       IN  IF d.form # None
           THEN request' = [request EXCEPT ![r].at = "governed",
                                           ![r].text = DefinitionOf(d.form)]
           ELSE /\ Free(d.type)
                /\ request' = [request EXCEPT
                     ![r].at = "governed",
                     ![r].locks = @ \cup {d.type},
                     ![r].text = IF type[d.type].state = "live"
                                 THEN DefinitionOf(type[d.type].form) ELSE None]
    /\ RequestsOnly

\* update_document and the commit; without form data nothing is evaluated.
UpdateDocument(r) ==
    /\ request[r].at \in {"checked", "governed"} /\ request[r].on \in Documents
    /\ doc' = [doc EXCEPT ![request[r].on].party = request[r].party,
                          ![request[r].on].filled =
                              IF request[r].at = "governed" THEN request[r].text ELSE @]
    /\ EndRequest(r)
    /\ UNCHANGED <<type, form, counter, retired>>

\* delete_document, of a draft that no process decides.
DeleteDocument(d) ==
    /\ d \in LiveDocs /\ Free(d)
    /\ doc' = [doc EXCEPT ![d].state = "deleted"]
    /\ UNCHANGED <<type, form, counter, retired, request>>

\* delete_party, under FOR UPDATE.
DeleteParty(p) ==
    /\ p \notin retired /\ Free(p)
    /\ retired' = retired \cup {p}
    /\ UNCHANGED <<type, form, doc, counter, request>>

-----------------------------------------------------------------------------
(* Types                                                                   *)

\* lock_bindable_form: live and published, and held until the commit.
Bindable(f) == form[f].state = "live" /\ form[f].status = "PUBLISHED" /\ Sharable(f)

CreateType(r, f, flows) ==
    /\ request[r].at = "idle"
    /\ f # None => Bindable(f)
    /\ request' = [request EXCEPT ![r] =
                     [NoRequest EXCEPT !.at = "binding", !.shares = {f} \ {None}, !.form = f,
                                       !.flows = flows]]
    /\ RequestsOnly

InsertType(r) ==
    /\ request[r].at = "binding"
    /\ HasFresh(type)
    /\ type' = [type EXCEPT ![Fresh(type)] =
                   [state |-> "live", form |-> request[r].form, flows |-> request[r].flows]]
    /\ EndRequest(r)
    /\ UNCHANGED <<form, doc, counter, retired>>

\* An administrator reads the type, for a later update.
ReadType(r, t) ==
    /\ request[r].at = "idle"
    /\ type[t].state = "live"
    /\ request' = [request EXCEPT ![r] = [NoRequest EXCEPT !.at = "read", !.on = t,
                                                           !.flows = type[t].flows]]
    /\ RequestsOnly

CompareUnlocked(r, stated) ==  \* the row is read and not held
    /\ request[r].at = "read"
    /\ LET t == request[r].on
       IN  /\ type[t].state = "live"
           /\ stated => request[r].flows = type[t].flows
           /\ request' = [request EXCEPT ![r].at = "compared",
                                         ![r].flows = IF stated THEN {@} ELSE {}]
    /\ RequestsOnly

\* lock_type_binding, and same_bindings of what the caller says it read and
\* what is stored; a caller that says nothing is not compared.
LockType(r, stated) ==
    /\ request[r].at = "read"
    /\ LET t == request[r].on
       IN  /\ type[t].state = "live" /\ Free(t)
           /\ stated => request[r].flows = type[t].flows
           /\ request' = [request EXCEPT ![r].at = "compared", ![r].locks = {t},
                                         ![r].flows = IF stated THEN {@} ELSE {}]
    /\ RequestsOnly

RebindUnguarded(r, f) ==  \* drafts that pinned nothing are not counted
    /\ request[r].at = "compared"
    /\ f \notin {None, type[request[r].on].form} => Bindable(f)
    /\ request' = [request EXCEPT ![r].at = "bound", ![r].form = f,
                     ![r].shares = IF f # type[request[r].on].form THEN {f} \ {None} ELSE {}]
    /\ RequestsOnly

\* guard_rebinding: no document renders by whatever the type binds.
MayRebind(t) == \A d \in Of(t) : doc[d].form # None

\* check_bindings and the guard, of a form that differs from the stored.
CheckBindings(r, f) ==
    /\ request[r].at = "compared"
    /\ LET t == request[r].on
       IN  f # type[t].form =>
             /\ f # None => Bindable(f)
             /\ MayRebind(t)
    /\ request' = [request EXCEPT ![r].at = "bound", ![r].form = f,
                     ![r].shares = IF f # type[request[r].on].form THEN {f} \ {None} ELSE {}]
    /\ RequestsOnly

\* update_type, replace_workflows and the commit.
UpdateType(r, flows) ==
    /\ request[r].at = "bound"
    /\ type' = [type EXCEPT ![request[r].on].form = request[r].form,
                            ![request[r].on].flows = flows]
    /\ EndRequest(r)
    /\ UNCHANGED <<form, doc, counter, retired>>

LockRetiringType(r, t) ==
    /\ request[r].at = "idle"
    /\ type[t].state = "live" /\ Free(t)
    /\ request' = [request EXCEPT ![r] = [NoRequest EXCEPT !.at = "retiring", !.on = t,
                                                           !.locks = {t}]]
    /\ RequestsOnly

\* has_documents, soft_delete and the commit.
DeleteType(r) ==
    /\ request[r].at = "retiring"
    /\ Of(request[r].on) = {}
    /\ type' = [type EXCEPT ![request[r].on].state = "deleted"]
    /\ EndRequest(r)
    /\ UNCHANGED <<form, doc, counter, retired>>

-----------------------------------------------------------------------------
(* Forms                                                                   *)

\* create_form and create_revision read on the pool the highest revision,
\* deleted ones included.
HighestRevision ==
    LET taken == {form[f].revision : f \in {g \in Forms : form[g] # Absent}}
    IN  IF taken = {} THEN 0 ELSE CHOOSE n \in taken : \A m \in taken : m <= n

ReadHighest(r, text) ==
    /\ request[r].at = "idle"
    /\ HighestRevision # 0 => \E f \in Forms : form[f].state = "live"
    /\ request' = [request EXCEPT ![r] = [NoRequest EXCEPT !.at = "revising", !.text = text,
                                                           !.number = HighestRevision + 1]]
    /\ RequestsOnly

\* insert_form: a live row of that revision refuses it.
InsertForm(r) ==
    /\ request[r].at = "revising"
    /\ HasFresh(form)
    /\ \A g \in Forms : form[g].state = "live" => form[g].revision # request[r].number
    /\ form' = [form EXCEPT ![Fresh(form)] =
                   [state |-> "live", status |-> "DRAFT", text |-> request[r].text,
                    revision |-> request[r].number]]
    /\ EndRequest(r)
    /\ UNCHANGED <<type, doc, counter, retired>>

IsDraft(f) == form[f].state = "live" /\ form[f].status = "DRAFT"

\* update_form, on the pool.
ReadForm(r, f, text) ==
    /\ request[r].at = "idle"
    /\ IsDraft(f)
    /\ request' = [request EXCEPT ![r] = [NoRequest EXCEPT !.at = "saving", !.on = f,
                                                           !.text = text]]
    /\ RequestsOnly

UpdateWhatWasRead(r) ==  \* the statement does not ask for a draft
    /\ request[r].at = "saving"
    /\ form[request[r].on].state = "live" /\ Free(request[r].on)
    /\ form' = [form EXCEPT ![request[r].on].text = request[r].text]
    /\ EndRequest(r)
    /\ UNCHANGED <<type, doc, counter, retired>>

\* update_draft writes a row that is a draft still.
UpdateDraft(r) ==
    /\ request[r].at = "saving"
    /\ IsDraft(request[r].on) /\ Free(request[r].on)
    /\ form' = [form EXCEPT ![request[r].on].text = request[r].text]
    /\ EndRequest(r)
    /\ UNCHANGED <<type, doc, counter, retired>>

CheckForPublish(r, f) ==  \* the definition is read on the pool
    /\ request[r].at = "idle"
    /\ IsDraft(f)
    /\ form[f].text \in Publishable
    /\ request' = [request EXCEPT ![r] = [NoRequest EXCEPT !.at = "publishing", !.on = f]]
    /\ RequestsOnly

\* lock_for_publish, and the checks of the definition that is read under it.
LockForPublish(r, f) ==
    /\ request[r].at = "idle"
    /\ IsDraft(f) /\ Free(f)
    /\ form[f].text \in Publishable
    /\ request' = [request EXCEPT ![r] = [NoRequest EXCEPT !.at = "publishing", !.on = f,
                                                           !.locks = {f}]]
    /\ RequestsOnly

PublishForm(r) ==
    /\ request[r].at = "publishing"
    /\ IsDraft(request[r].on)
    /\ form' = [form EXCEPT ![request[r].on].status = "PUBLISHED"]
    /\ EndRequest(r)
    /\ UNCHANGED <<type, doc, counter, retired>>

\* delete_form: bound and pinned revisions, too.
DeleteForm(f) ==
    /\ form[f].state = "live" /\ Free(f)
    /\ form' = [form EXCEPT ![f].state = "deleted"]
    /\ UNCHANGED <<type, doc, counter, retired, request>>

DraftsNext ==
    \/ \E r \in Requests :
        \/ Fail(r)
        \/ \E t \in Types : LockPinnedForm(r, t) \/ ReadType(r, t) \/ LockRetiringType(r, t)
        \/ \E d \in Documents : OpenDraft(r, d)
        \/ \E p \in Parties : LinkEntity(r, p)
        \/ \E cleared \in BOOLEAN : LinkNothing(r, cleared)
        \/ AllocateReference(r) \/ CreateDocument(r) \/ PinnedFormOf(r) \/ UpdateDocument(r)
        \/ \E flows \in SUBSET Flows :
            \/ UpdateType(r, flows)
            \/ \E f \in Forms \cup {None} : CreateType(r, f, flows)
        \/ \E stated \in BOOLEAN : LockType(r, stated)
        \/ InsertType(r) \/ DeleteType(r)
        \/ \E f \in Forms \cup {None} : CheckBindings(r, f)
        \/ \E text \in Texts : ReadHighest(r, text)
        \/ \E f \in Forms : LockForPublish(r, f)
        \/ \E f \in Forms, text \in Texts : ReadForm(r, f, text)
        \/ InsertForm(r) \/ UpdateDraft(r) \/ PublishForm(r)
    \/ \E d \in Documents : DeleteDocument(d)
    \/ \E p \in Parties : DeleteParty(p)
    \/ \E f \in Forms : DeleteForm(f)

DraftsSpec == DraftsInit /\ [][DraftsNext]_draftVars

-----------------------------------------------------------------------------
DraftsTypeOK ==
    /\ type \in [Types -> {Absent} \cup TypeRows]
    /\ form \in [Forms -> {Absent} \cup FormRows]
    /\ doc \in [Documents -> {Absent} \cup DocRows]
    /\ counter \in Nat \ {0}
    /\ retired \subseteq Parties
    /\ \A r \in Requests : request[r].at \in Places

\* What a draft is shown with, and its submission evaluated against.
HeldTo(d) ==
    IF doc[d].form # None THEN DefinitionOf(doc[d].form)
    ELSE DefinitionOf(type[doc[d].type].form)

(* D-30, guard_rebinding: no save, publication, rebinding or deletion, in   *)
(* any order with a creation or an update, moves a draft to a definition    *)
(* its data was not evaluated against.                                      *)
DataFitsItsForm == \A d \in LiveDocs : doc[d].filled = HeldTo(d)

(* delete_type: "retiring one under live documents leaves those documents   *)
(* pointing at something no read returns"; and a type binds, so a draft     *)
(* pins, only what was published, and that only after it was checked.       *)
DraftsHaveTheirRecords ==
    /\ \A d \in LiveDocs : type[doc[d].type].state = "live"
    /\ \A t \in Types : type[t].state = "live" /\ type[t].form # None =>
                           form[type[t].form].status = "PUBLISHED"
    /\ \A f \in Forms : form[f] # Absent /\ form[f].status = "PUBLISHED" =>
                           form[f].text \in Publishable

(* allocate_reference: no reference is given twice, and a creation that     *)
(* fails leaves no gap.                                                     *)
ReferencesAreGapless ==
    LET made == {d \in Documents : doc[d] # Absent}
    IN  /\ {doc[d].ref : d \in made} = 1..(counter - 1)
        /\ Cardinality(made) = counter - 1

(* lock_linked_entity, the only constraint on a link: a draft is linked to  *)
(* a party while that is live, though it may be deleted later.              *)
LinkedToTheLive ==
    [][\A d \in Documents :
         LET linked == doc'[d].state = "live" /\ doc'[d].party # None
             before == IF d \in LiveDocs THEN doc[d].party ELSE None
         IN  linked /\ doc'[d].party # before => doc'[d].party \notin retired]_draftVars

(* #728: an update that says which workflow bindings it was made from       *)
(* replaces those and no others.                                            *)
ReplacesWhatWasRead ==
    [][\A r \in Requests :
         request[r].at = "bound" /\ type' # type /\ request'[r] # request[r] =>
           \A flows \in request[r].flows : type[request[r].on].flows = flows]_draftVars

\* A draft is held to what its data was evaluated against, has its type and its
\* reference, and binds what was published.
DraftsAreWhole ==
    DraftsTypeOK /\ DataFitsItsForm /\ DraftsHaveTheirRecords /\ ReferencesAreGapless
=============================================================================
