----------------------------- MODULE Numbering -----------------------------
(***************************************************************************)
(* The numbers of one document type (modules/document_type, numbering):    *)
(* the rule an administrator sets, the bucket each scope value counts in,  *)
(* and the submissions that take numbers from the buckets.                 *)
(*                                                                         *)
(* A gapless submission takes its number in its own transaction and keeps  *)
(* the bucket's row locked until that commits or rolls back.  A tolerant   *)
(* one takes it in a transaction that commits at once, before its own.     *)
(* Statements read what is committed when they start.                      *)
(*                                                                         *)
(* A key is the sequence of the parts its string has, ordered as the       *)
(* string is: department ids are v7 UUIDs, which sort before any year.     *)
(***************************************************************************)
EXTENDS Integers, Sequences

CONSTANTS
    Docs,         \* drafts of the type
    Department,   \* the department each is requested for
    Times,        \* months, in order
    YearOf,       \* the year of each
    Scopes,       \* the scopes an administrator may choose
    Admins,       \* edits of the rule in flight
    NoRule,       \* the type has no active rule
    MaxNumber,    \* bound: numbers handed out in a bucket
    MaxEdits      \* bound: times the rule is set or cleared

ASSUME DocsAssumption == Docs # {}
ASSUME ScopesAssumption == Scopes \subseteq {"GLOBAL", "YEAR", "MONTH", "DEPARTMENT_YEAR"}
ASSUME BoundsAssumption == MaxNumber \in Nat /\ MaxEdits \in Nat
ASSUME TimesAssumption == Times \subseteq Nat \ {0} /\ YearOf \in [Times -> Nat]
ASSUME DepartmentAssumption ==
    \A d \in Docs, at \in Times : Department[d] \in Nat /\ Department[d] < YearOf[at]

VARIABLES
    now,      \* the clock, in months
    rule,     \* the active rule: its scope and its gap policy
    bucket,   \* next_sequence of each bucket, as committed; 0 where there is none
    holder,   \* the submission whose transaction has the bucket's row locked
    sub,      \* the submission of each document
    edit,     \* what each edit read before its transaction
    edits,
    lost,     \* ghost: numbers of tolerant submissions that failed
    skipped,  \* ghost: numbers a seed jumped over
    rewound   \* ghost: buckets whose counter was ever lowered

vars == <<now, rule, bucket, holder, sub, edit, edits, lost, skipped, rewound>>

Rules == [scope : Scopes, gaps : BOOLEAN]

\* scope_key
Key(scope, department, at) ==
    CASE scope = "GLOBAL" -> <<>>
      [] scope = "YEAR" -> <<YearOf[at]>>
      [] scope = "MONTH" -> <<YearOf[at], at>>
      [] scope = "DEPARTMENT_YEAR" -> <<department, YearOf[at]>>

Keys == {Key(s, Department[d], at) : s \in Scopes \cup {"GLOBAL"}, d \in Docs, at \in Times}

\* The order of the key strings: lexicographic, and a prefix comes first.
Before(j, k) ==
    \E n \in 0..Len(j) :
        /\ n < Len(k)
        /\ \A i \in 1..n : j[i] = k[i]
        /\ n < Len(j) => j[n + 1] < k[n + 1]

\* comparison_prefix: the buckets one after another of which the key comes.
Succession(scope, department) ==
    {k \in Keys : scope = "DEPARTMENT_YEAR" => Len(k) = 2 /\ k[1] = department}

\* furthest_key: a bucket the type's sequence has already passed.
Closed(scope, department, at) ==
    \E k \in Succession(scope, department) :
        bucket[k] # 0 /\ Before(Key(scope, department, at), k)

-----------------------------------------------------------------------------
Draft == [pc |-> "draft"]
Begun == [pc : {"begun"}, at : Times, tolerant : BOOLEAN]
Judged == [pc : {"judged"}, tolerant : BOOLEAN, key : Keys]
WithNumber == [pc : {"numbered", "submitted"}, tolerant : BOOLEAN, key : Keys,
               number : 1..MaxNumber]

NoEdit == [pc |-> "idle"]
Edit == [pc : {"read"}, rule : Rules, seed : 0..MaxNumber, key : Keys]

Init ==
    /\ now \in Times /\ \A t \in Times : now <= t
    /\ rule = NoRule
    /\ bucket = [k \in Keys |-> 0]
    /\ holder = [k \in Keys |-> {}]
    /\ sub = [d \in Docs |-> Draft]
    /\ edit = [a \in Admins |-> NoEdit]
    /\ edits = 0
    /\ lost = {} /\ skipped = {} /\ rewound = {}

(* submit_document, on the pool: the moment it numbers for, and the gap    *)
(* policy.                                                                 *)
Begin(d) ==
    /\ sub[d].pc = "draft"
    /\ sub' = [sub EXCEPT ![d] = [pc |-> "begun", at |-> now,
                                  tolerant |-> rule # NoRule /\ rule.gaps]]
    /\ UNCHANGED <<now, rule, bucket, holder, edit, edits, lost, skipped, rewound>>

(* allocate_in, up to the bucket: the rule and the furthest key.           *)
Judge(d) ==
    /\ sub[d].pc = "begun"
    /\ rule # NoRule
    /\ LET s == sub[d]
       IN  /\ ~Closed(rule.scope, Department[d], s.at)
           /\ sub' = [sub EXCEPT ![d] = [pc |-> "judged", tolerant |-> s.tolerant,
                                         key |-> Key(rule.scope, Department[d], s.at)]]
    /\ UNCHANGED <<now, rule, bucket, holder, edit, edits, lost, skipped, rewound>>

\* What the upsert of a bucket hands out.
NextOf(k) == IF bucket[k] = 0 THEN 1 ELSE bucket[k]

\* Mutants, here and below: what the definition they precede would be with a
\* plausible bug in it.
TakeUnlocked(d) ==  \* the upsert does not wait for the row's lock
    /\ sub[d].pc = "judged"
    /\ LET s == sub[d]
       IN  /\ NextOf(s.key) <= MaxNumber
           /\ sub' = [sub EXCEPT ![d] = [pc |-> "numbered", tolerant |-> s.tolerant,
                                         key |-> s.key, number |-> NextOf(s.key)]]
           /\ IF s.tolerant
              THEN bucket' = [bucket EXCEPT ![s.key] = NextOf(s.key) + 1] /\ UNCHANGED holder
              ELSE holder' = [holder EXCEPT ![s.key] = {d}] /\ UNCHANGED bucket
    /\ UNCHANGED <<now, rule, edit, edits, lost, skipped, rewound>>

TakeCommitted(d) ==  \* a gapless number is committed when it is taken, too
    /\ sub[d].pc = "judged"
    /\ LET s == sub[d]
       IN  /\ holder[s.key] = {}
           /\ NextOf(s.key) <= MaxNumber
           /\ sub' = [sub EXCEPT ![d] = [pc |-> "numbered", tolerant |-> s.tolerant,
                                         key |-> s.key, number |-> NextOf(s.key)]]
           /\ bucket' = [bucket EXCEPT ![s.key] = NextOf(s.key) + 1]
    /\ UNCHANGED <<now, rule, holder, edit, edits, lost, skipped, rewound>>

(* allocate_bucket: the upsert waits for whoever has the row, then takes   *)
(* its next number.  A tolerant submission commits that; a gapless one     *)
(* keeps the row.                                                          *)
TakeNumber(d) ==
    /\ sub[d].pc = "judged"
    /\ LET s == sub[d]
       IN  /\ holder[s.key] = {}
           /\ NextOf(s.key) <= MaxNumber
           /\ sub' = [sub EXCEPT ![d] = [pc |-> "numbered", tolerant |-> s.tolerant,
                                         key |-> s.key, number |-> NextOf(s.key)]]
           /\ IF s.tolerant
              THEN bucket' = [bucket EXCEPT ![s.key] = NextOf(s.key) + 1] /\ UNCHANGED holder
              ELSE holder' = [holder EXCEPT ![s.key] = {d}] /\ UNCHANGED bucket
    /\ UNCHANGED <<now, rule, edit, edits, lost, skipped, rewound>>

Numbered == {d \in Docs : sub[d].pc \in {"numbered", "submitted"}}
NumberOf(d) == <<sub[d].key, sub[d].number>>

(* mark_submitted and the commit.  Numbers are unique in the tenant, by    *)
(* the index; the template names what the rule counts by, so two buckets   *)
(* never render one string.                                                *)
Commit(d) ==
    /\ sub[d].pc = "numbered"
    /\ \A e \in Docs : sub[e].pc = "submitted" => NumberOf(e) # NumberOf(d)
    /\ LET s == sub[d]
       IN  /\ sub' = [sub EXCEPT ![d].pc = "submitted"]
           /\ IF s.tolerant
              THEN UNCHANGED <<bucket, holder>>
              ELSE /\ bucket' = [bucket EXCEPT ![s.key] = s.number + 1]
                   /\ holder' = [holder EXCEPT ![s.key] = {}]
    /\ UNCHANGED <<now, rule, edit, edits, lost, skipped, rewound>>

(* A submission that is refused, at any point, or whose process dies.  The *)
(* bucket of a gapless one is as it was; a tolerant one loses its number.  *)
RollBack(d) ==
    /\ sub[d].pc \in {"begun", "judged", "numbered"}
    /\ sub' = [sub EXCEPT ![d] = Draft]
    /\ holder' = [k \in Keys |-> holder[k] \ {d}]
    /\ lost' = IF sub[d].pc = "numbered" /\ sub[d].tolerant THEN lost \cup {NumberOf(d)} ELSE lost
    /\ UNCHANGED <<now, rule, bucket, edit, edits, skipped, rewound>>

-----------------------------------------------------------------------------
(* The rule                                                                *)

(* set_rule, on the pool: the counter of the bucket the clock is in, which *)
(* nextSequence may not be lower than.  seed = 0: it was not asked for.    *)
ReadIssued(a, r, seed) ==
    LET key == IF r.scope = "DEPARTMENT_YEAR" THEN <<>> ELSE Key(r.scope, 0, now)
    IN  /\ edit[a].pc = "idle"
        /\ edits < MaxEdits
        /\ seed # 0 => r.scope # "DEPARTMENT_YEAR" /\ seed >= bucket[key]
        /\ edit' = [edit EXCEPT ![a] = [pc |-> "read", rule |-> r, seed |-> seed, key |-> key]]
        /\ UNCHANGED <<now, rule, bucket, holder, sub, edits, lost, skipped, rewound>>

(* replace_rule and seed_bucket, in one transaction; the seed waits for    *)
(* whoever has the bucket.                                                 *)
SetRule(a) ==
    /\ edit[a].pc = "read"
    /\ LET r == edit[a]
       IN  /\ rule' = r.rule
           /\ IF r.seed = 0 THEN UNCHANGED <<bucket, skipped, rewound>>
              ELSE /\ holder[r.key] = {}
                   /\ bucket' = [bucket EXCEPT ![r.key] = r.seed]
                   /\ skipped' = skipped \cup {<<r.key, n>> : n \in NextOf(r.key)..(r.seed - 1)}
                   /\ rewound' = IF r.seed < bucket[r.key] THEN rewound \cup {r.key} ELSE rewound
    /\ edit' = [edit EXCEPT ![a] = NoEdit]
    /\ edits' = edits + 1
    /\ UNCHANGED <<now, holder, sub, lost>>

(* clear_rule: the buckets stay.                                           *)
ClearRule ==
    /\ rule # NoRule
    /\ edits < MaxEdits
    /\ rule' = NoRule
    /\ edits' = edits + 1
    /\ UNCHANGED <<now, bucket, holder, sub, edit, lost, skipped, rewound>>

Tick ==
    /\ now + 1 \in Times
    /\ now' = now + 1
    /\ UNCHANGED <<rule, bucket, holder, sub, edit, edits, lost, skipped, rewound>>

Next ==
    \/ \E d \in Docs : Begin(d) \/ Judge(d) \/ TakeNumber(d) \/ Commit(d) \/ RollBack(d)
    \/ \E a \in Admins :
        \/ \E r \in Rules, seed \in 0..MaxNumber : ReadIssued(a, r, seed)
        \/ SetRule(a)
    \/ ClearRule
    \/ Tick

Spec == Init /\ [][Next]_vars

-----------------------------------------------------------------------------
(* Type correctness.                                                       *)
TypeOK ==
    /\ now \in Times
    /\ rule \in Rules \cup {NoRule}
    /\ bucket \in [Keys -> Nat]
    /\ holder \in [Keys -> SUBSET Docs]
    /\ sub \in [Docs -> {Draft} \cup Begun \cup Judged \cup WithNumber]
    /\ edit \in [Admins -> {NoEdit} \cup Edit]
    /\ edits \in Nat
    /\ lost \subseteq Keys \X Nat /\ skipped \subseteq Keys \X Nat
    /\ rewound \subseteq Keys

(* GapPolicy: a gapless rule loses no number.  Every number a counter has  *)
(* passed is some document's, or was lost by a submission that read a      *)
(* tolerant rule, or was jumped over by nextSequence.                      *)
EveryNumberIsAccountedFor ==
    \A k \in Keys : \A n \in 1..(bucket[k] - 1) :
        \/ \E d \in Numbered : NumberOf(d) = <<k, n>>
        \/ <<k, n>> \in lost \cup skipped

(* "A duplicate. Never acceptable, under any policy" (numbering.rs:21):    *)
(* no two submissions take one number, through any mixture of policies,    *)
(* scopes, failures and retries, but in a bucket that an edit rewound.     *)
(* The index refuses a duplicate; this says that it need not.              *)
NoNumberIsTakenTwice ==
    \A d, e \in Numbered : d # e /\ NumberOf(d) = NumberOf(e) => sub[d].key \in rewound

(* numbering_repository.rs:125: the seed overwrites the counter because    *)
(* "validate_set has already refused a lower one against highest_issued"   *)
(* (refuted: a submission takes a number between the check and the seed).  *)
CounterIsNeverRewound == [][\A k \in Keys : bucket'[k] >= bucket[k]]_vars
=============================================================================
