-------------------------------- MODULE Forms -------------------------------
(***************************************************************************)
(* What a document stores of a filled-in form (modules/rad/service/        *)
(* evaluation and domain/engine, called from document/service): the client *)
(* sends a payload, the server computes again what is computed, discards   *)
(* what is hidden, validates, and stores its own answer.  A draft's save   *)
(* does so with the payload sent, a submission with the payload stored.    *)
(*                                                                         *)
(* One record of fields, with the fields of one layout container among     *)
(* them.  A row of a repeater is a record of its own, evaluated by the     *)
(* same walk, and is left out; so are the validation rules but `required`. *)
(***************************************************************************)
EXTENDS Naturals, FiniteSets, SequencesExt

CONSTANTS
    Fields,     \* the record's data components, numbered as declared
    Sent,       \* the values a client may send for a field
    Forms       \* the published definitions

Values == {"null", "no", "yes"}

Expressions == [reads : SUBSET Fields, partial : BOOLEAN]
NoExpression == [reads |-> {}, partial |-> FALSE]
Conditionals == [action : {"show", "hide"}, logic : Expressions]
Always == [action |-> "none", logic |-> NoExpression]

Definitions ==
    [mode : [Fields -> {"entered", "derived", "generated"}],  \* calculateMode
     calculate : [Fields -> Expressions],
     conditional : [Fields -> Conditionals \cup {Always}],
     box : SUBSET Fields,                      \* the container's children
     boxConditional : Conditionals \cup {Always},
     required : SUBSET Fields]

FormsConstantsOK ==
    /\ Fields \subseteq Nat /\ IsFiniteSet(Fields)
    /\ Sent \subseteq Values /\ "null" \in Sent
    /\ Forms \subseteq Definitions

VARIABLES
    form,       \* the definition the document is pinned to
    status,     \* "FILLED" is a stand-alone submission of the form
    stored,     \* form_data_json; a discarded key reads as null
    sent        \* history: the payload stored last, as the client sent it

formVars == <<form, status, stored, sent>>

Payloads == [Fields -> Sent]
NoValues == [f \in Fields |-> "null"]

-----------------------------------------------------------------------------
(* The order of evaluation                                                 *)

\* What f must come after.  A calculation that reads its own field is a loop,
\* a conditional that does is not; a container's conditional orders nothing.
DependsOn(d, f) == d.calculate[f].reads \cup (d.conditional[f].logic.reads \ {f})

\* Mutants, here and below: what the definition they precede would be with a
\* plausible bug in it.
OrderAsDeclared(d) == SetToSortSeq(Fields, <)  \* no graph

\* Kahn's algorithm, the field declared first among those that are ready; it
\* stops short of a loop.
Order(d) ==
    LET placed[n \in 0..Cardinality(Fields)] ==
            IF n = 0 THEN <<>>
            ELSE LET before == placed[n - 1]
                     ready == {f \in Fields \ ToSet(before) : DependsOn(d, f) \subseteq ToSet(before)}
                 IN  IF ready = {} THEN before ELSE Append(before, Min(ready))
    IN  placed[Cardinality(Fields)]

HasCycle(d) == Len(Order(d)) < Cardinality(Fields)

-----------------------------------------------------------------------------
(* The walk                                                                *)

\* A partial expression is a division: it fails unless something is there.
Evaluate(e, p) ==
    IF \E k \in e.reads : p[k] = "yes" THEN "yes"
    ELSE IF e.partial THEN "fails" ELSE "no"

Computed(d, f, p) ==
    d.mode[f] = "derived" \/ (d.mode[f] = "generated" /\ p[f] = "null")

\* One field of the walk.
CalculateField(d, f, pass) ==
    LET result == Evaluate(d.calculate[f], pass.payload)
        fails == result = "fails"
    IN  IF ~Computed(d, f, pass.payload) THEN pass
        ELSE [payload |-> [pass.payload EXCEPT ![f] = IF fails THEN "null" ELSE result],
              failed |-> pass.failed \/ fails]

\* calculate: over whatever the client sent, in the order of the graph.
Calculate(d, p) ==
    LET order == Order(d)
        after[n \in 0..Len(order)] ==
            IF n = 0 THEN [payload |-> p, failed |-> FALSE]
            ELSE CalculateField(d, order[n], after[n - 1])
    IN  after[Len(order)]

\* One that cannot be decided leaves the component visible.
Shows(conditional, p) ==
    CASE conditional.action = "show" -> Evaluate(conditional.logic, p) \in {"yes", "fails"}
      [] conditional.action = "hide" -> Evaluate(conditional.logic, p) # "yes"
      [] OTHER -> TRUE

Visible(d, p) ==
    {f \in Fields : /\ f \in d.box => Shows(d.boxConditional, p)
                    /\ Shows(d.conditional[f], p)}

\* A conditional met by the walk that produces no value; it does not descend
\* into a container that is hidden.
Undecided(d, p) ==
    LET fails(conditional) == conditional.action # "none" /\ Evaluate(conditional.logic, p) = "fails"
    IN  \/ fails(d.boxConditional)
        \/ \E f \in Fields : /\ f \in d.box => Shows(d.boxConditional, p)
                             /\ fails(d.conditional[f])

\* What is missing is not wrong yet, and what cannot be computed may be later;
\* no finishing of the document undoes a loop.
Forgives(strictness, code) ==
    strictness = "Draft" /\ code \in {"REQUIRED", "EVALUATION_FAILED"}

Answer(strictness, fails, kept) ==
    [accepted |-> \A code \in DOMAIN fails : fails[code] => Forgives(strictness, code),
     payload |-> kept]

Missing(d, visible, p) == \E f \in d.required \cap visible : p[f] = "null"

SecureStrippedFirst(d, strictness, p) ==  \* hidden by what the client sent
    LET visible == Visible(d, p)
        pass == Calculate(d, [f \in Fields |-> IF f \in visible THEN p[f] ELSE "null"])
        kept == [f \in Fields |-> IF f \in visible THEN pass.payload[f] ELSE "null"]
    IN  Answer(strictness, [CALCULATION_CYCLE |-> HasCycle(d), EVALUATION_FAILED |-> pass.failed,
                            REQUIRED |-> Missing(d, visible, kept)], kept)

\* secure_payload_as: what may be stored, or a refusal.  What is hidden is
\* decided from the whole payload, after the calculations.
Secure(d, strictness, p) ==
    LET pass == Calculate(d, p)
        visible == Visible(d, pass.payload)
        kept == [f \in Fields |-> IF f \in visible THEN pass.payload[f] ELSE "null"]
    IN  Answer(strictness,
               [CALCULATION_CYCLE |-> HasCycle(d),
                EVALUATION_FAILED |-> pass.failed \/ Undecided(d, pass.payload),
                REQUIRED |-> Missing(d, visible, kept)], kept)

-----------------------------------------------------------------------------
FormsInit ==
    /\ form \in Forms
    /\ status = "none"
    /\ stored = NoValues /\ sent = NoValues

\* create_document and update_document, while the document may be edited.
Save(p) ==
    /\ status \in {"none", "DRAFT", "RETURNED"}
    /\ Secure(form, "Draft", p).accepted
    /\ stored' = Secure(form, "Draft", p).payload
    /\ sent' = p
    /\ status' = IF status = "none" THEN "DRAFT" ELSE status
    /\ UNCHANGED form

\* submit_document: over the locked row's form_data.
SubmitStored ==
    /\ status \in {"DRAFT", "RETURNED"}
    /\ Secure(form, "Submit", stored).accepted
    /\ stored' = Secure(form, "Submit", stored).payload
    /\ status' = "SUBMITTED"
    /\ UNCHANGED <<form, sent>>

\* A decision or the manual route sends it back to be corrected.
Return ==
    /\ status = "SUBMITTED"
    /\ status' = "RETURNED"
    /\ UNCHANGED <<form, stored, sent>>

\* submit_form: a payload stored without a document, in one walk.
SubmitForm(p) ==
    /\ status = "none"
    /\ Secure(form, "Submit", p).accepted
    /\ stored' = Secure(form, "Submit", p).payload
    /\ sent' = p
    /\ status' = "FILLED"
    /\ UNCHANGED form

FormsNext ==
    \/ \E p \in Payloads : Save(p) \/ SubmitForm(p)
    \/ SubmitStored
    \/ Return

FormsSpec == FormsInit /\ [][FormsNext]_formVars

-----------------------------------------------------------------------------
FormsTypeOK ==
    /\ form \in Forms
    /\ status \in {"none", "DRAFT", "SUBMITTED", "RETURNED", "FILLED"}
    /\ stored \in [Fields -> Values]
    /\ sent \in Payloads

(* calculate, evaluation_order: a client computes nothing.  Whatever it     *)
(* sends for the derived fields, the answer is the one for a client that    *)
(* leaves them out: no sent total reaches a field, a condition or a         *)
(* verdict, through any chain of fields, in whatever order they are written. *)
ClientComputesNothing ==
    \A p \in IF status = "none" THEN Payloads ELSE {sent}, strictness \in {"Draft", "Submit"} :
        LET bare == [f \in Fields |-> IF form.mode[f] = "derived" THEN "null" ELSE p[f]]
            answer == Secure(form, strictness, p)
            same == Secure(form, strictness, bare)
        IN  p # bare =>
              answer.accepted = same.accepted /\ (answer.accepted => answer.payload = same.payload)

\* No expression reads a field that can be hidden.
ReadsWhatIsKept(d) ==
    LET hideable == {f \in Fields : \/ d.conditional[f] # Always
                                   \/ (f \in d.box /\ d.boxConditional # Always)}
    IN  /\ \A f \in Fields : DependsOn(d, f) \cap hideable = {}
        /\ d.boxConditional.logic.reads \cap hideable = {}
        /\ \A f \in Fields : f \notin d.conditional[f].logic.reads

(* secure, submit_document: what the person saw saved is what is submitted, *)
(* though a submission evaluates the saved payload once more.  So for forms *)
(* whose expressions read no field that can be hidden; the others are       *)
(* SubmittedFromWhatWasSent's.                                              *)
SubmittedAsSaved ==
    [][ReadsWhatIsKept(form) /\ status # "none" /\ status' = "SUBMITTED" => stored' = stored]_formVars

(* docs/schema/JSON Form Schema.md:318: "Re-evaluate every `conditional`    *)
(* against the **complete** submitted payload" (refuted: a submission       *)
(* evaluates the payload the last save stored, which lacks what the save    *)
(* discarded; a field shown by the value of a hidden one is lost).          *)
SubmittedFromWhatWasSent ==
    status = "SUBMITTED" => stored = Secure(form, "Submit", sent).payload
=============================================================================
