# Kelir in TLA+

Kelir is a document-based business application: users fill documents, submit
them, and a workflow of human tasks and automatic steps decides them. The
backend is one Rust program (`kelir-backend`, Axum and SQLx) over PostgreSQL; it
can run in several replicas, each with its own background workers. Nothing is
kept in memory between requests, so what can go wrong goes wrong between
*transactions*: in what a request read before its transaction, in the order in
which transactions of several requests commit, and in what a process that dies
leaves behind.

The approval core and what surrounds it are modelled component by component. Each
model is checked by TLC on small instances; one abstract specification says what
the outbox promises; the safety of every component (outbox, workflow, numbering,
sessions, attachments, mailer, governance, the trees, publishing, definitions, the
authority of a task, after-hooks, forms, tenants, integration, drafts and the order of
the locks) is proved with TLAPS for all values of its constants.

    Delivery.tla     what the outbox promises                        (abstract)
    Outbox.tla       the event table, its workers, leases, retries   (implements Delivery)
    Workflow.tla     documents, processes, tasks, the manual route, the revision
    Numbering.tla    numbering rules, buckets, submissions that take numbers
    Sessions.tla     refresh tokens, row locks, password writes, reset links
    Attachments.tla  uploads, the scan workers, downloads, deletions
    Mailer.tla       notifications and the workers that send them
    Governance.tla   master data records parked for a change, and its decision
    Hierarchy.tla    the trees of facilities and of departments
    Publishing.tla   revisions, the roles and departments they name, their deletion
    Definitions.tla  what is accepted as a definition, and the processes it allows
    Authority.tla    delegation windows, hand-overs, on whose authority a task is worked
    AfterHooks.tla   the circuit breaker of an after-hook and its reports
    Forms.tla        what a document stores of a filled-in form
    Drafts.tla       drafts, the types they are of, the form revisions they pin
    Tenants.tla      the first administrator, tenants, the sessions of their users
    Namespaces.tla   the secrets a tenant's code lets it name
    Integration.tla  an external system, its credentials and test calls
    Records.tla      Tenants, Integration and Drafts side by side
    LockOrder.tla    the row locks of every request, and the order they come in
    AuditTrail.tla   the hash chain of a tenant's audit trail
    OutboxProofs, WorkflowProofs, SessionsProofs, LockOrderProofs
                     the proofs about the module of that name
    BackgroundProofs the proofs about Attachments and Mailer
    SupportProofs    the proofs about Authority, Governance, AfterHooks, Hierarchy
                     and Publishing
    RecordsProofs    the proofs about Tenants, Integration, Drafts and Numbering
    DesignProofs     the proofs about Forms and Definitions
    MC*.tla, *.cfg   small instances for TLC

Check a run with `tlc -config MCRecords.cfg MCRecords`, the proofs of a module with
`tlapm OutboxProofs.tla`. `PROJECT.json` lists the runs, the source lines each
definition translates, the hazards and the findings.

Paths below are relative to `src/kelir-backend/src/modules/`.

## Inventory

| Component | State | Operations | What is hard | What makes it correct |
|---|---|---|---|---|
| **Outbox** (`outbox/`) | `outbox_events`: status, attempt count, `next_attempt_at` (which is also the lease) | write with the business transaction; claim a batch; deliver one by one; settle; retry; dead-letter | replicas claiming at once, a worker slower than its lease, crashes between claim and settlement, an error settled by a second statement | every attempt counted once; only the current claim settles; no event lost; effects commit with their settlement |
| **Workflow engine and tasks** (`workflow/service`, `workflow/domain`) | `workflow_instances`, `workflow_tasks`, `workflow_history` | start, fire a transition, advance automatically, create and close tasks, claim, delegate, reassign, decide, resubmit | two decisions of one task, a correction resubmitted while it is decided, reads taken before the lock | one open task where the process waits, one move per task, status follows process, history is one walk |
| **Document life cycle** (`document/`) | `documents`: status, reference, number, pinned form, link, form data, process | create, edit, submit, resubmit, move by hand, discard | the subject, the binding and the gap policy are read before the transaction; a creation beside a rebinding or deletion of its type | a number is unique and kept; the manual route never fights a process; a draft is held to the form its data was evaluated against |
| **Workflow definitions** (`workflow/service/definition.rs`, `workflow/domain/jwss.rs`, bindings in `document_type/`) | revisions and their status; which type routes to which | draft, publish, revise, deprecate, delete, bind | a publish against the deletion of what it names; deletion against a start; a definition that is accepted and gets stuck | a revision outlives its processes; what it names exists; what is accepted can finish |
| **Numbering** (`document_type/numbering*.rs`) | the rule of a type; a counter per bucket (year, month, department and year) | set, clear, allocate in the caller's transaction or committed | gapless allocation holds a row, tolerant allocation loses numbers, an edit overwrites a counter | no duplicate ever, no unexplained gap under a gapless rule |
| **Authentication** (`auth/`, `middleware/rate_limit.rs`) | users' lockout counters, sessions, refresh tokens, reset tokens, attempts per address | sign in, refresh, sign out, change and reset password, sweep | token rotation against replay, lockout read before verification, password change against sign-in | a rotated token is never good twice; a password change ends the other sessions |
| **Attachments** (`attachment/`) | objects in the store, rows with a scan status, timeline events | upload whole or in parts, scan in the background, download, delete | no transaction spans store, scanner and database; replicas scan the same row; objects that can never be read | nothing is served but what was cleared; no row without its object; every scan ends |
| **Notifications** (`notification/`) | one row per user, its status, a log per attempt | notify inside an action, deliver on the tenant's channels, mark read | no claim on a row, a crash between send and mark, actions that roll back | nobody hears of what did not happen; copies are bounded; the status is true |
| **Audit** (`audit/`) | hash-chained entries | record, verify, list | the previous hash is read without a lock | the chain is one chain |
| **Hooks** (`hook/`, `workflow/service/after_hooks.rs`) | registrations, executions | before-chain in the transition, after-chain from the outbox, circuit breaker | the breaker is recomputed from recent rows by concurrent deliveries that may roll back | a failing handler is left alone; each opening is reported once |
| **Master data governance** (`master_data/service/governance.rs`) | records and the document that proposes a change | park a record at submission, settle at decision, direct updates beside it | record and document in one transaction, the direct routes with a read before theirs | a parked record is always some open document's; the decision decides the record |
| **Identity and delegation** (`identity/`) | users, roles, standing delegations | grant, revoke, delegate, end, delete a role | windows and accounts change beside the task; a role is deleted while tasks wait for it | a task is worked in the name of the one it was given to; no task waits for a missing role |
| **Organization** (`organization/`, `auth/bootstrap.rs`) | tenants, the first administrator, the department tree | bootstrap, create, suspend and delete a tenant; create, move and delete a department | replicas that start together, two codes judged at once, a revoke behind its commit; two moves that make a cycle, a deletion against a creation | one first administrator; no tenant names another's secrets; a suspended tenant's sessions end; the tree is a tree |
| **Forms and types** (`rad/`, `document_type/`) | form revisions, the types that bind them, evaluation | save, publish, revise, delete a form; bind a type; evaluate, store | a save or publication of what was read as a draft; a payload evaluated twice, once as sent and once as stored; what is hidden decided before or after what is computed | what is pinned never changes; a client computes nothing; what was saved is what is submitted |
| **Integration** (`integration/`) | external systems, endpoints, credentials, a log of test calls | edit, switch, choose a credential, check an address, send, record | an edit that lands behind a deactivation; a secret that has left when its answer times out | only activation revives a system; the log tells what left |
| **Activity, comments, inbox, reports, HTTP, frontend** | appended rows, queries | read and append | no protocol of their own | - |

How they interact. A submission (`document/service/submit.rs`) reads its
subject, the type's binding and gap policy on the pool, takes a number from
Numbering, evaluates the stored form, and in one transaction moves the document,
parks the record it governs and starts or continues a process in the engine. The
engine writes history, tasks, notifications, the document's status, the record's
settlement and an outbox row in that same transaction. The outbox worker later
runs the after-hooks of the transition. Task decisions enter the engine the same
way. Audit and activity rows are written along the way and read by nobody who
decides anything.

## The models

### Outbox (`Outbox.tla`, `Delivery.tla`)

A row has the status, the attempt count and `next_attempt_at` of
`outbox_events`. Each worker is the loop of `worker.rs`: `ClaimBatch` (one
`UPDATE ... FOR UPDATE SKIP LOCKED`), `BeginDelivery`, `Dispatch` (the
consumer), `Settle` (the fenced statement, which locks the row), `Commit`; after
an error `RecordError`, a statement of its own. `StatementFails` and `Crash` may
come anywhere between. The lease is not looked at before the consumer runs, as
in the code: it is `settle`'s `WHERE` clause that decides (`Holds`).

Time is the database's clock. A `Tick` happens when nobody has work to do, or
while somebody is slow, at most `MaxSlow` times; slow ticks are what makes a
worker outlive its lease. `started` keeps the start of the delivery's
transaction because PostgreSQL's `now()` is that.

`Delivery` knows only absent, waiting, processed, dead and the attempts. The
refinement mapping sends PENDING, PROCESSING and FAILED to waiting.

Not modelled: what consumers do (their outcome is free), the tenant of a row,
`last_error`.

### Workflow (`Workflow.tla`)

A request is a client that reads on the pool and then runs one transaction.
`ReadSubject`, `ReadBinding`, `Submit` are `submit_document`; `ReadTask`,
`Decide` are `decide`; `ReadStatus`, `CheckNoProcess`, `Transition` are the
manual route. What is read on the pool stays in `request` and may be stale.
A transaction is one step, because it locks the instance, the document, the
task or the revision before it looks at them and keeps the locks to its commit.
`Enter`, `Fire`, `Start`, `Resubmit` are the engine's functions of those names;
`Trails` are the walks over service states, bounded by `MAX_AUTOMATIC_STEPS`.

Abstractions. Conditions read the form data and nothing else. A refusal that
depends on data the model has not (permissions, `allowedBy`, guards and
before-hooks, a required comment, a condition that cannot be evaluated, an
assignee that cannot be resolved) is `Refuse`, which any request may take.
Approval decisions, task history, activity, notifications and the outbox row (one
per move, `Outbox!Write`) change nothing that is decided on. A closed task's
holder is dropped. Roles have fixed holders and no window redirects a task, which
is `Authority`. There is one revision, whose life is `Publishing`, and one counter of
document numbers, which `Numbering` details. `ReadTask` takes open tasks, `ReadStatus` statuses with a
manual move: in the other states the request is refused at once. Of a definition only
the structure is assumed that `structural_errors` looks at: any state may map to any
status, DRAFT among them (D-46), and a final state may raise a task, since `enter`
raises the task of a state whether or not anything leaves it.

### Numbering (`Numbering.tla`)

One document type. A submission goes through `Begin` (clock and gap policy, on
the pool), `Judge` (the rule and the furthest bucket), `TakeNumber` (the upsert),
`Commit`, or `RollBack` anywhere. A gapless submission keeps the bucket's row
from `TakeNumber` to its end (`holder`); a tolerant one commits there. An edit is
`ReadIssued` (the counter and the check of `nextSequence`, on the pool) and
`SetRule`. Keys are sequences of the parts of the key string, and `Before` is
the order of the strings. It is assumed that the template names what the scope
counts by, so that two buckets do not render the same string, and that a
department's id (a v7 UUID) sorts before a year, which `DepartmentAssumption`
states. `lost`, `skipped` and `rewound` are ghosts: why a number is missing, and
which counters an edit lowered.

### Sessions (`Sessions.tla`)

One user, the refresh tokens, any number of reset links that are live at once, and
requests that come in any number and of any kind. Here a step is a *statement*, because the code's argument
(ADR-0048) is about row locks under READ COMMITTED: `auth[r].at` is the place
in `sign_in`, `refresh`, `reset_password`, `change_own_password`, `set_password`
or the administrators' writes, and a lock is held from its statement to the
commit.

| Lock | Who holds it | Variable |
|---|---|---|
| the user's row `FOR SHARE` | a sign-in or a rotation that will store a token | `share` |
| the user's row, by an `UPDATE` | a password write, from its hash to its commit | `excl` |
| a token's row | the rotation that spent it | `pending` |
| a reset link's row | the redemption that consumed it | `redeemer` |

`WaitsOn` says for each place whose lock the next statement waits for. What is
not committed is invisible: a rotated token stays live in `token` until
`StoreRotation`, which stores the successor and commits. `revoke_all_for_user` is
two steps, because that is where a token could slip through: `StartRevoke` takes
the statement's snapshot, and `FinishRevoke`, or the commit of the password write
it belongs to, revokes what of the snapshot is still live once its rows are free.
`Abort` is any refusal, failed statement or dead process: a rollback.

`user.hash` counts the hashes stored. `hash`, `past` and `session` of a token are
ghosts: the hash its sign-in verified, whether the account was out of use when it
was stored (and for which time), and the sign-in it goes back to. The order in
which one revoke locks its rows is left out: it is the same scan for all of them.

Not modelled: the lockout and the rate limiter (they only refuse), the tenant's
status (a second status like the user's), expiry of tokens, access tokens, the
audit, `record_successful_login` (one statement, which holds nothing).

### Attachments (`Attachments.tla`)

The files of one document. No transaction spans the object store, the scanner and
the database, so every call to one of them is a step. An upload is `BeginUpload`,
`SendParts` once it outgrows the buffer, `CheckUpload`, `StoreObject`,
`InsertRow`; `DropUpload` is a failed call or a dropped request, whose guard
aborts the open parts, and `LoseUpload` a killed process, which aborts nothing.
A worker takes a batch without claiming it (`TakeBatch`), opens each object, has
the reply (`ReadReply`), and records it over PENDING only (`RecordScanResult`).
`Content` is what the scanner makes of the *whole* file; a reply of FAILED is
always possible. `timeline` and `served` are ghosts. A download opens the object,
commits its event and only then streams.

Not modelled: which category a file has, sizes other than the part, the list.

### Mailer (`Mailer.tla`)

A notification is written in the transaction of the action it announces
(`Notify`, `CommitAction`, `RollBackAction`) and seen by a worker once that
commits. A pass is `TakeBatch`, and for each row `ReadChannels`, `Attempt` and
`RecordAttempt` for each channel, `MarkDelivered`; nobody claims a row. The relay
may take a message and its answer be lost. `Abandon` is a crash or a failed
statement. Channels may be turned off and the recipient's account deleted in
between.

Not modelled: templates, the digest of what a user reads, marking as read.

### Governance (`Governance.tla`)

Documents that propose a change to a record. A submission and a step of a process
lock document, change and record and are one step each (`Submit`, `MoveProcess`);
`Settle` is `settle` with `moved_on`. The direct routes read the record on the
pool first (`ReadForUpdate`, `ReadForTransition`) and write later, by the
condition of their statement. `Stray` is a record moved by none of this code, at
most `MaxStrays` times: `settle` has branches for it, and they are checked.
Of a definition nothing is assumed: `Underway` and `Ends` are, for each document, what the
states of its definition map to that are not final and that are, any statuses at all.
`Enter` takes a process over any number of states by itself; the first status among them
that settles is what the change gets, and the later ones find nothing open. `verdict` is
the ghost of that status. So a document may end APPROVED after a state that maps to
REJECTED, with its change refused; and a definition with an end that settles nothing
(ARCHIVED, say), like a governed type without a workflow, leaves the record parked for good.

Not modelled: discarding a draft, which has no change.

### Hierarchy (`Hierarchy.tla`)

The trees of facilities and of departments, statement by statement: a creation or
a move is resolved on the pool, takes the tenant's hierarchy lock, reads its
parent again, walks up and writes; a deletion of a facility takes that lock and
one of a department only its own row. A statement that writes a parent waits for
whoever has the parent's row, and a deleted row is still a row to a foreign key.
The variable `tree` says which of the two a behaviour is about, and never changes.

### Publishing (`Publishing.tla`)

Revisions of a definition, the processes that run on them, and the deletion of a
role or a department they name, with every lock as what the open transactions
have in `job`. A definition is a path of states with the roles their tasks are
offered to and their edges are allowed by. Publish, start, decision and reassign
hold the roles `FOR KEY SHARE`; a deletion takes its row `FOR UPDATE` and then
asks the two questions of `delete_role` (`CountTasks`, `CountRevisions`).

Not modelled: the number of a revision, the definition's validation (which is
`Definitions`), and the branches of a definition, which `Workflow` has.

### Tenants (`Tenants.tla`, `Namespaces.tla`)

`Bootstrap` is `ensure_administrator` in each replica, a step for each answer it
acts on; `Stop` ends a process anywhere. `Create` is `create_tenant`, with the lock
on the codes held from `LockCodes` to its end. `UpdateTenant` and `DeleteTenant`
commit, and `RevokeSessions` is their second statement, which `LoseRevoke` loses.
One session per followed tenant goes through sign-in and refresh. `Namespaces` is
what `integration/domain/secret.rs` makes of codes and secret names: a code is a
sequence of the parts of its spelling, so that `A-B` and `A_B` collide, and so do `A` and
`A__B`, whose names begin with the names of `A`.

Not modelled: names, locales and time zones of a tenant, the catalogue of
permissions its administrator is given.

### Integration (`Integration.tla`)

One external system with its endpoint and credentials. Edits and switches read on
the pool and write by the condition of their statement (`ReadForUpdate`, `Update`;
`ReadForSwitch`, `Switch`, `RecordSwitch`). A test call reads the system, the
endpoint, the credentials and the tenants' codes one after the other, looks the host
up once (`ResolveAndCheck`), connects to an address that was checked (`Send`) and
writes one row (`Record`), which says what had left by then (`Sent`). `wire` is the
ghost of what left.

Not modelled: deleting a system or an endpoint, which the next read of a call
answers with "not found"; the log's retention; the shapes of URLs and headers.

### LockOrder (`LockOrder.tla`)

The other modules take a transaction's locks as held or leave them out; here they
are all there is. A request chooses a *path* when it begins, the locks its code
takes in order, and takes them one by one (`Take`), or ends anywhere (`EndTransaction`). A
path has what no statement names: a foreign key's `FOR KEY SHARE` on the row it
points at, and an `UPDATE`'s `FOR NO KEY UPDATE`. `Conflict` is PostgreSQL's table
of the four strengths. What a path depends on is a choice (whether the number is a
bucket's first, where the process goes, which party a profile names), but for what
keeps two paths apart: `Stage`, `Pinned` and `InFlight`, the documents whose change
of a party waits to be settled. A party takes one change at a time, which an index
keeps (`uq_mdm_change_requests_open_per_record`) and `LocksConstantsOK` says; a document in
`Closed` has had its change settled by a status that did not end its process.

`EveryCircleIsKnown` says that the requests wait in a circle only through one of
five waits, and all five close one: the submission's below; an edit of a draft
without a form, which holds the party it links and waits for the type, against a
submission that made a bucket's row and waits for its record's party; two
assignments of roles whose profiles name each other's party; two updates of related
parties that each send both lists of relationships; and an update of a party that
waits for the other party of a new relationship. The fifth takes three requests: the
other party is held by the first submission of a change of it, which waits for the
counter of tasks; the counter is held by the decision that settles a change of the
first party, and waits for that. The database ends a circle by failing one of its
requests, which may be sent again.

Not modelled: rows everybody takes in modes that do not conflict (users, tenants),
requests that take one row and wait for nothing after it, advisory locks (the trees
and the tenants, see `Hierarchy` and `Tenants`), sessions (see `Sessions`), and the
integration tables.

### Definitions (`Definitions.tla`)

One definition and one process on it. `Accepted` is the structural rules of JWSS
section 8 as `jwss.rs` has them (S1 to S4, S6, S7, S9). `Walk`, for its breadth-first
search, is what the search finds: the least set that is closed under the edges.
`Settles` is `enter` with its loop over service states (`Automatic` is one round of
it), `Fired` is `fire`. Conditions come out either way, so `Chosen` is every edge that
may be taken: any one of `Candidates` with only conditions `TriedBefore` it. `Workable`
is what the rules leave to the author, and the property says that it is enough.

Not modelled: the shape rules of the meta-schema, who may take an edge, guards
and required comments, which refuse and move nothing.

### Drafts (`Drafts.tla`)

Document types, the revisions under one form key, and drafts, with every
transaction as its statements: `LockPinnedForm`, `LinkEntity`, `AllocateReference`,
`CreateDocument` are `create_document`; `OpenDraft`, `PinnedFormOf`,
`UpdateDocument` are `update_document`; `CheckBindings` is `check_bindings` with
`guard_rebinding`. `locks` are the rows held by `FOR UPDATE` or a write, `shares`
those held by `FOR SHARE`, and `Fail` ends a request anywhere. A definition is one of
`Texts`, of which a publication accepts `Publishable`; `filled` is the ghost of the
one a draft's data was last evaluated against, and the property compares it with
what the draft is rendered and submitted with. Rows are taken in any order, because
rows that are absent are alike.

Not modelled: metadata, document versions and relations, the lists a type binds, the
workflow definitions its bindings name (`Workflow`, `Publishing`), and the year of a
reference, of which there is one.

### Authority (`Authority.tla`)

One process's task, the delegation windows of the users, their accounts and who
holds the role. A task is raised for the owner or a role; `Delegates` is
`active_delegate_of` (the most specific window, then the last one, one hop).
Operations on the task lock it and are one step; windows, accounts and role
grants change beside it. `given` is the history: to whom a rule, a claim or a
reassignment gave the task.

### AfterHooks (`AfterHooks.tla`)

One hook's handler, delivered by several replicas in transactions that may overlap
or roll back. Nothing is stored but the log of executions; whether the handler is
paused and whether its last failure opened the breaker are read from the newest
rows each time (`Recent`, `BreakerIsOpen`, `OpenedByLatest`), where `now()` is the
start of the transaction.

### Forms (`Forms.tla`)

What the server stores of a payload: `Order` is Kahn's algorithm over what each
field reads, `Calculate` recomputes in that order, `CalculateField` by `CalculateField`, `Visible` decides what is
hidden from the whole payload, `Secure` is `secure_payload_as` with its two
strictnesses. `Save` applies it to what the client sent, `SubmitStored` to what the
save stored. Values are "null", "no" and "yes"; an expression says yes if one of
the fields it reads does, and a partial one fails if none does: enough to tell
who reads whom, in which order, and what fails. There are fields and one layout container.

Not modelled: rows of repeaters (each a record of its own, evaluated by the same
walk), operators and validation rules other than `required`.

### AuditTrail (`AuditTrail.tla`)

Requests that read the newest entry and insert the next in two statements.

## The runs

| Run | Instance | Shows |
|---|---|---|
| MCWorkflow | four parts: "outbox" (2 events, one no consumer of this build reads, 2 workers, batch 2, lease 2, 2 attempts, 1 fault, 4 slow ticks); "together" (2 documents, one gap-tolerant and on the manual route, whose form is not edited for no step of it reads one; 2 requests, 2 users, 3 tasks, 2 numbers); "rebinding" (1 document, its type bound anew up to twice, 3 tasks, 2 numbers); "redrafting" (1 document that its process makes a draft again and a second process may decide, its type bound anew once, 4 tasks, 2 numbers). In each a rejection ends in a state that maps to DRAFT and raises a task. Symmetry over workers and clients | attempts counted once; terminal states earned; effects commit with their settlement; the fence; the refinement of `Delivery`; the document follows its process; history is one walk; numbers identify; a revision outlives its processes; the open tasks fit the state; each task moves its process once; a process keeps its document's number |
| MCWorkflowNumber | 1 document, two submissions | *violated*: a returned document gets a second number |
| MCRecords | nine parts: "numbering" (2 documents in 2 departments, a turn of the year, scopes GLOBAL, YEAR and DEPARTMENT_YEAR, 1 administrator, 2 edits, 2 numbers a bucket), "tenants" (4 codes, 2 replicas, 2 creations, 1 session), "switching" (2 administrators, 3 edits), "calling" (1 test call beside 1 administrator, 2 credentials, 2 days, 1 other tenant), "pinning" (1 draft of 1 type, 2 revisions, 2 definitions, one of which may be published, 2 requests), "filing" (2 drafts of 2 types, 1 party, 1 workflow, 2 requests), and the sessions of a user with 2 requests: "passwords" (3 tokens, 1 link, 1 password write), "accounts" (3 tokens, 1 time out of use) and "links" (1 token, 2 links, 2 password writes) | every number accounted for, none taken twice but where an edit rewound the counter; one first administrator, names apart, a tenant out of use renews at most once; only activation revives a system, switches and calls are recorded as they were; a draft is held to what its data was evaluated against and has its type and reference; links and workflow bindings are decided from what is there; no token outlives a password write; one live token a session; only a copy sweeps; an account out of use ends its sessions; a circle of waits is of redemptions that stop each other's links |
| MCNumberingRewind | "numbering" with YEAR | *violated*: an edit rewinds the counter |
| MCSessionsLinks | 2 requests, 2 links | *violated*: two reset links redeemed at once wait for each other |
| MCBackground | six parts: "scan race" (2 workers, 1 reader, one file), "scan queue" (1 worker, 3 files, batch 2, one file that cannot be read), "refusal" (a long file of a type not allowed), "mail race" (2 workers, 1 notification), "mail queue" (1 worker, 2 notifications), "outbox" (2 workers, 2 events, batch 1, 2 faults); 1 fault elsewhere | only what is clean is served; rows have objects; the timeline is true; no scan result is replaced; mail tells the truth; copies are paid for; every file, notification and event is settled |
| MCSupport | eleven parts: "record", "document" and "unsettled" (3 documents, one of a definition whose ends all settle, one with verdicts before its end and an end that settles nothing, one without a workflow; 2 records, a direct writer), "trees" (either tree, 3 nodes, depth 2, 2 requests), "publishing" (2 revisions, 2 roles, 1 department, 1 process, 2 actors), "delegation" (3 users, 1 window, accounts and roles changing), "windows" (2 windows that overlap, follow one another or lead back), "hooks" (2 workers, threshold 2, 4 runs), "forms" (3010 forms of three fields), "definitions" (7522 definitions of two states and a final one), "locks" (2 requests, 8 documents, 3 types, 2 parties). Symmetry over the pair that acts at once | a parked record is one open change's and is settled by the first verdict; no loops; nothing under the deleted; no role is missing, a revision is published as it was checked; a task is worked for whom it was given; a failing handler is left alone and reported once; a client computes nothing, what is submitted is what was saved; what is accepted can finish; requests wait in a circle only through the known waits |
| MCSupportOvertaken | part "record" | *violated*: a direct update overtakes the change that awaits approval |
| MCSupportDepartments | part "trees", the departments | *violated*: a department is deleted between a parent's second read and the row that names it |
| MCSupportForms | part "forms" | *violated*: a submission evaluates what the save stored, not what was sent |
| MCSupportLocks | part "locks" | *violated*: two submissions of one type wait for each other |
| MCAuditTrail | 2 requests, 3 entries | *violated*: two entries extend the same one |

Components that share nothing are checked in one run, as parts: the variable
`part` says which component a behaviour is about, and the others stay in their
first state. The composition is then a union and not a product.

Why the bounds are enough. Outbox: an overtaken worker needs two workers, one
row and a lease that passes; a second event makes batches and skipping locked
rows matter; two attempts tell a retry from the last attempt. Workflow: every
race of the source is between two requests (one reads, the other commits);
three tasks are review, correction and review again; four let the document become a
draft and be submitted to a second process. Numbering: two submissions contend for a bucket,
two departments do not; one turn of the year closes a bucket. Sessions: every
race of ADR-0048 is between two requests; three tokens are a session, its
successor and another session; the second password write, which only the links have,
comes after one that has consumed another link; no token knows which of them it was.
Background: a race is between two replicas over one row; a
queue needs one row more than a batch, with one at its head that never succeeds.
Trees: a loop takes two moves and a third node shows the limit on depth.
Publishing: one role or department that goes, one publish or task that names it,
and a second actor. Hooks: two failures open, two ticks close, so that four runs
open twice. Tenants: two replicas or two creations race, and the codes have a plain one, one it
is spelled in and one that collides with neither; two renewals would be one too many.
Integration and drafts: every race is of one request with one other; two revisions are
the bound one and its successor.
Forms: a chain of three fields has every order of reading, computing
and hiding; a fourth repeats one. Definitions: two states that route into each
other are the smallest loop; `MaxAuto` 3 is passed by it. Locks: two requests, since each circle the
source and its records speak of is of two, over documents that differ in all that a
path depends on (form, stage, governed type, party, change settled or not); of more
requests the theorem speaks. Symmetry is used only in runs without a liveness property.

Delegation: two windows are enough to overlap, to lead on to a third user and to lead
back. Accounts and roles change with one window only, and with two they stay: both at once
are some millions of states. The proof is for any number of windows.

`StatusFollowsProcess` claims the status of a document until its type is bound anew and
under its first process: a manual move that read "no workflow decides this document"
before a binding was made and a process started, or after the first process had ended,
may land after the process's own write, for it looks at the status alone
(`status.rs:188`). What it claims of every process, bound anew or not, is that its
document exists and names it. `ProcessKeepsItsNumber` likewise says when a number may be
taken anew: once the process has made the document a draft again, and has ended or is not
what the type routes to any more.

`CHECK_DEADLOCK FALSE`: documents get decided, events settled, numbers used up to
their bound and revisions published, and then nothing has to happen. That a lock
is waited for in a circle is a property of its own (`OnlyRedemptionsMeet`, `NoLockCycle`,
`EveryCircleIsKnown`).

### Fairness

Only `MCBackground` assumes any, under `BackgroundSpec`: weak fairness of one scan
worker's loop, of one mail worker's, and for the outbox of the clock and of each
worker. `worker::run` is in all three an endless loop that sleeps for a fixed time,
logs an error and goes on, and is started again with the process. One replica is
enough for scans and mails. Nothing is assumed of those who upload, notify or
write events, of the second replica, of the store, the scanner or the relay, which
may fail for ever; crashes and failed statements are finite (`MaxFaults`).

## Findings

Eight statements of the repository that the code does not keep are recorded in
`PROJECT.json`, each with the run that shows it:

1. `NumberIsKept`: the number of a returned document is overwritten by a
   submission that still thinks it is a draft (`submit.rs:169`).
2. `CounterIsNeverRewound`: an edit of the rule rewinds a counter that was read
   before (`numbering_service.rs:78`).
3. `NothingOvertakesTheChange`: a direct update that read the record before it was
   parked lands while the change awaits approval (`party.rs:277`).
4. `NothingUnderADeletedDepartment`: a deletion of a department takes another lock
   than a creation below it (`department_service.rs:281`).
5. `SubmittedFromWhatWasSent`: a submission evaluates the stored payload, from
   which the hidden values are gone (`submit.rs:266`).
6. `NoListedPathsMeetInACircle`: a submission that makes a bucket's row waits for the
   type's key behind it, and one of a draft without a form holds the type while it
   waits for the bucket (`submit.rs:279`); the record of the locks leaves the key out.
7. `EveryHashCoversTheRest`: two requests extend the same entry of the audit trail
   (`audit/mod.rs:191`).
8. `NoLockCycle`: two live reset links of one user, redeemed at once, wait for each other
   (`auth/reset.rs:301`). Each has consumed its link; the one that has the user's row stops
   the other link, whose redemption waits for that row. PostgreSQL fails one of the two,
   which then may be tried again. `OnlyRedemptionsMeet` says that there is no other circle.

Further observations made while modelling, which no run is spent on:

- A failed event of an aggregate is let past by the next one while it waits for
  its retry (`outbox/repository.rs:130`).
- A decision reads the form data without a lock, and a RETURNED document may be
  edited meanwhile (`task.rs:881`).
- A type whose scope becomes GLOBAL after YEAR takes no number again: the key of
  GLOBAL sorts before every year (`numbering_service.rs:378`).
- A RETURNED document that governs a record cannot be resubmitted, since the
  record is still parked for it; and if it is edited so that its change cannot be
  read, its approval ends in an internal error. `Governance` assumes neither away.
- A governed type without a workflow parks its record for ever: nothing settles
  it (migration 0038). So does a definition with a final state that maps to a status
  which settles nothing.
- A final state that is a human one leaves a task open that nobody can decide, for the
  process has ended (`jwss.rs:851` accepts it, `engine.rs:1400` raises it).
- "A draft with a number is not a state this codebase can produce" (`submit.rs:167`): of a
  definition with a state that maps to DRAFT (D-46) it is, and if the process has ended by
  then or the type is bound anew, the next submission numbers the document anew.
- Overlapping deliveries of after-hooks may tell administrators of one opening
  twice or not at all (`hook/domain.rs:327`): each reads the committed rows before the
  other's is one of them. No property is about that; `ReportedOncePerOpening` is about
  executions one after the other, with failed trials and rollbacks among them.
- A type that is DEPRECATED "stops new ones" (`document_type/service.rs:367`), and
  neither `create_document` nor `lock_pinned_form` looks at its status.
- The number of a form's revision is one more than the highest, which "counts
  soft-deleted rows deliberately" (`rad/repository/form.rs:167`), but is read in one statement and inserted in
  another: a revision that is made and deleted in between leaves two rows of one
  number, which the index of the live ones allows. `Drafts` has both steps.
- Whether an update of a party changed its status is decided from the row read on
  the pool, so that a status changed meanwhile may have no row in the history
  (`master_data/service/party.rs:427`).
- Departments named by a revision may be deleted after its publication.
- Two drafts of one definition may take the same revision number, and a unique
  index refuses one of them (`service/definition.rs:634`).
- A generated field is generated anew when its value was hidden
  (`evaluation.rs:541`).
- A definition may be accepted and get stuck: S6 looks at the graph only, not at
  whether an edge's action is ever fired in its state (AUTO out of a human state,
  CANCEL and ESCALATE anywhere, RESUBMIT where the document is not RETURNED), nor
  at a service state whose edges all have conditions (`jwss.rs:1012`). `Workable`
  lists what an author has to add.
- Two edits of a credential that each move one bound of its validity can leave it
  inverted: a bound is checked against "the stored other", of which a copy was read
  on the pool (`integration/service/credential.rs:159`).
- The audit row of a switch may show a new status that a concurrent switch wrote.
- A chain of exactly `MAX_AUTOMATIC_STEPS` automatic steps is refused although it
  came to rest (`engine.rs:930`).

## What is proved

Each theorem is of the form "from the component's assumptions, its specification
implies the property", where the property is the one that a run checks: TLC shows it
on a small instance, the theorem for all values of the constants. The assumptions are
those that the component's module names (`ConstantsOK`, `TenantsConstantsOK` and so
on, or `ASSUME`s), and the runs check them of their constants. In every module
`Invariance` states the inductive invariant, which is the property with what it
rests on; what had to be added to the property is told below.

`OutboxProofs` proves for every set of events and workers, every batch size,
lease, retry schedule and bound, from the assumptions of `Outbox` only
(event ids are positive numbers, `None` is no worker, lease, attempts and delays
are positive):

- `TypeCorrect`: `Spec => []TypeOK`
- `AttemptsCounted`: `Spec => []AttemptsAreCountedOnce`
- `TerminalEarned`: `Spec => []TerminalRowsEarnedIt`
- `Fenced`: `Spec => SettledByItsHolder`
- `EffectsCommit`: `Spec => []EffectsCommitWithSettlement`
- `Implements`: `Spec => KeepsThePromise`, that is `Promise!Spec`

The inductive invariant `IInv` is `TypeOK`, the counting of attempts, what a row's
status says of its settlements (`HistoryInv`), and the life of a claim
(`ClaimsInv`, `DeliveryInv`). The last is why it works: a claim's lease is at most
`now + Lease`, and a row can be claimed again only once its lease is past, so the
next lease is greater than every older one. Hence a lease identifies its claim,
and a worker that passes the fence has the attempt count the row has. Without it
the step that settles could count an attempt twice. A claim that meets a FAILED
row is older than the failure, which `lease < next + Lease` remembers.
`EffectsCommit` needs one invariant more, `OutcomeInv`: what a worker's place says of
its outcome; the rest is counting, with the library's theorems on cardinality.

`SessionsProofs` proves for every set of requests, tokens and links and any number
of password writes, from the assumptions of `Sessions` (`Nil` is none of them,
there is a first hash):

- `TypeCorrect`: `SessionsSpec => []SessionsTypeOK`
- `PasswordEndsSessions`: `SessionsSpec => []LiveTokensKnowThePassword`
- `OneToken`: `SessionsSpec => []OneLiveTokenPerSession`
- `OnlyReplay`: `SessionsSpec => []OnlyReplaySweeps`
- `AccountEnds`: `SessionsSpec => AccountEndsItsSessions`
- `CirclesAreOfRedemptions`: `SessionsSpec => []OnlyRedemptionsMeet`

The inductive invariant `IInv` is what a request at a place may rely on. `Fits`:
a sign-in that has the row knows the hash stored *now*, a refresh has read the
hash of its token, a sweep for reuse has seen replay evidence, which no later
step takes away. `RowInv`: `share` is exactly those about to store a token, who
has the row by an `UPDATE` is a password write past it, and when such a write
reaches its commit every live token is in its revoke's snapshot; this is the heart
of ADR-0048, and it holds because no token can be stored while the row is taken.
`PendingInv`: a token that is being rotated is live and has one rotation.
`AccountEnds` needs `OffInv` beside it: a refresh past its read of the user has a
token older than the time the account went out of use. `CirclesAreOfRedemptions` needs
`LinkInv`, who holds a reset link, and a rank that goes down along every wait but that
of a redemption that stops links for another one that is still to do so:
sign-ins, rotations before the row and password writes wait for those who have
the row, those for token rows, and who has a token row waits for nobody.

`WorkflowProofs` proves for every set of documents, users, requests, states, edges and
bounds, from `ConstantsOK` of `Workflow` (a definition's parts are of their kinds, no
edge leaves a final state):

- `TypeCorrect`: `WorkflowSpec => []WorkflowTypeOK`
- `HistoryWalks`: `WorkflowSpec => []HistoryIsOneWalk`
- `NumbersAreUnique`: `WorkflowSpec => []NumbersIdentify`
- `RevisionOutlives`: `WorkflowSpec => []RevisionOutlivesItsProcesses`
- `EachTaskMoves`: `WorkflowSpec => []EachTaskMovesItsProcessOnce`
- `OpenTasksMatch`: `WorkflowSpec => []OpenTasksMatchTheState`
- `StatusFollows`: `WorkflowSpec => []StatusFollowsProcess`
- `NumberStays`: `WorkflowSpec => ProcessKeepsItsNumber`

Nothing is assumed of what the states map to or of where tasks are raised, so these are
about every definition that `structural_errors` accepts.

A start, a decision and a resubmission have nothing in common but their end,
`Enter`, and that is enough: `Advanced` says that the process went along a trail
(`Walked`), that the tasks are those the transaction left and perhaps one more
(`Tasked`), and that the first row of the history names the task that was closed. Of a trail all
that is used is that each of its steps is an AUTO edge (`TrailFacts`). Each part of `IInv` is kept by whatever is `Advanced`: `Places` (a
document and its process know each other), `Desks` (whose task is open where),
`Walks`, `Closings` (one row of the history for each closed task, none for an open one),
`Readings` (the task a decision read belongs to the document it read) and `Numbers`,
in which a number that a tolerant submission took and has not written is nobody else's.

The status needs `StatusInv` on top. A submission and a manual move write by what they
read on the pool, and that limits what the document has become since. `Linked`: a draft
that has a process was made one by it (`MadeDraft`), both as the documents are and as the
submissions have read them, so that only such a document is numbered a second time.
`Unmoved`: while no type was bound anew, a document that left DRAFT has a process exactly
if its type routes, so that no manual move meets its first one.

`BackgroundProofs` proves for every set of files, workers and readers, any size of
batch and number of faults: `CleanIsServed`, `ObjectsBehindRows`, `TimelineTrue` and
`DecidedForGood`. The invariant follows each upload, worker and
reader from place to place: what a place says of the object, the row and the
timeline. A worker whose scanner said CLEAN has read the whole of a clean file; an
upload between the store and the row is the only one that knows its object; a
reader past the check holds a file that is CLEAN or deleted, for a result is never
replaced.

For every set of notifications and mail workers it proves `MailTells`
(`MailTellsTheTruth`: no mail tells of a rollback, and the status of a row tells what
became of its attempts) and `CopiesAreBounded` (`CopiesArePaidFor`). The last needs an
accounting: a copy is paid for by a worker that had its chance at the row and still
holds it or has marked it, or by a fault; once the row is marked no worker takes it up
again.

`SupportProofs` has five components.

- *Tasks*, for every set of users and any number of windows: `WorkedForTheirs`
  (`WorkedForWhomItWasGiven`). Beside it no window leads from a user to themselves, and
  an open task nobody has stands for nobody and was given to nobody. The second is what
  a claim needs, since it writes the claimer as the one the task was given to and must
  not keep a name from before.
- *Changes*, for every set of documents, records, changes and direct writers:
  `ChangesSettled` (`ChangesAreSettled`), from `ParkedForOne` and `DecidedAlike`. The
  invariant `Sound` is said of changes and records that are passed to it, because a
  submission raises a change and its process may settle it in the same transaction: it
  holds in between as well. A record has one open change at most; a parked record has
  one; the change sends it back to a status that parks nothing, and this is why
  settling it leaves no record parked for nobody. `Decided` ties the change to the
  verdict of its process, and both to where the process stands: an open change has one
  that runs, or one whose definition has an end that settles nothing. Nothing is assumed
  of what a definition's states map to.
- *Hooks*, for any number of deliveries, any threshold and cool-down: `Contained`
  (`FailuresAreContained`). A breaker is the newest rows, so rows have ranks, and the
  newest are those that few are above. `AloneInv` counts the failures within one
  cool-down and the deliveries that still try: together at most the threshold plus the
  workers that were already past the check. `ToldInv` is for deliveries that follow one
  another: a streak of failures is as long as what was read of it, so that it opens the
  breaker, and is reported, once.
- *Trees*, for every set of nodes, any depth and any number of requests: `TreesAreWhole`
  (`TreesStayWhole`, for either tree). That a move makes no loop takes no induction
  over paths. A request that walked up from the new parent has passed a set of nodes
  that holds the parent of each of its members and not the node that moves
  (`StillApart`); only who has the lock moves anything (`OneHolds`), so the set is still such at
  the write, and a loop would lie within it. For facilities, where a deletion takes the
  lock too, what it counted is so when it deletes; a parent that was read again is live at the
  write (`StillFound`).
- *Roles*, for every set of revisions, processes, roles, departments, contents and any
  number of open transactions, from `PublishingConstantsOK` (`Nothing` is no role or
  department, a content is a path of states that starts at 1): `PublishingTypeCorrect`,
  `RolesAreThere` (`NoRoleIsMissing`) and `PublishedWhole` (`PublishedAsChecked`). A
  transaction acts on what it read some steps before. `Grounded` says of each place
  what of that is still so: a publish past its lock has the content that is stored, a
  start has a revision that is `ACTIVE`, a deletion past its first question has no
  task that needs its role, one past its second has no published revision that names
  it. `Apart` says which two transactions cannot be open at once, and each lock of the
  code is there for one line of it. Neither is inductive without the other. The
  deletion's two questions are asked one after the other and the answer to the first
  must outlive the second: it does because whoever would make a task for the role
  holds it, or found the role needed already.

`RecordsProofs` has four components, for any number of requests and rows.

- *Tenants*: `TenantsWhole` (`TenantsAreWhole`). Two prefixes of one name are prefixes
  of one another (`PrefixesCompare`), so that codes none of whose prefixes begins with the
  other's share no name. `OneMaker`: the lock on the codes is one
  request's, so the code it judged free is free (`JudgedIsFree`) when the row is
  written; `OneReplica` says the same of the first administrator. `LateAtMostOnce`: a
  refresh past its look at the tenant is the only one that renews, once.
- *Integration*: `RecordsTrue` (`RecordsAreTrue`) and `ActivationRevives`. A call's place
  says what of it passed the checks (`SendsWhatPassed`) and what its row will say
  (`TellsIt`); a switch is counted in the step that makes it and is being recorded or is
  recorded ever after.
- *Drafts*: `DraftsWhole` (`DraftsAreWhole`), `LinkedLive`, `Replaces`. `LocksExclude` is
  what rows held by `FOR UPDATE` and `FOR SHARE` mean; `Stands` says of each place of a
  creation, an edit, a rebinding, a publication or a deletion what of the rows it read
  is so still, because it holds them. `BindsThePublished`: what a type or a draft is
  bound to was published and stays as it is. `HighestIsThere`: the highest
  revision of a form is there to be read, deleted or not.

- *Numbering*, for every set of documents, departments, times and administrators, from
  the assumptions of `Numbering` (there is a document, the scopes are among the four,
  times are positive and years natural numbers, a department's id sorts before a year):
  `Accounted` (`EveryNumberIsAccountedFor`) and `NotTwice` (`NoNumberIsTakenTwice`). The
  invariant adds two facts to the types. `LocksInv`: a bucket's row is held by the
  gapless submission that took its next number and by no other, and the number is
  still the next one. `CountedInv`: a committed number is below its counter, unless
  an edit lowered the counter. Only together do they show that a commit does not
  repeat a number: the one number that is taken and not yet counted belongs to
  the holder of the row, and everybody else waits for that row.

`ChangesStart` puts the action properties of the system and of the drafts together
(`ChangesStartFromWhatIs`).

`DesignProofs` has the two algorithms, for every design. Both recur, and are argued by
induction, for which the library's theorem is out of the provers' reach (it takes a
predicate): `Climbs` says instead, of a *set* of numbers, that one which has 0 and with
each number below `N` the next has all of them, and follows from the existence of least
numbers, which follows from the library's theorem on well-founded relations (`WFMin`).
Recursive functions are unfolded by `PlacedDef`, `AfterDef` and `ReachedDef`.

- *Forms*, for every set of fields and forms, from `FormsConstantsOK` (a form's
  parts are of its fields, the fields are finitely many numbers): `DerivedAreTheServers`
  (`ClientComputesNothing`) and `SubmittedIsSaved` (`SubmittedAsSaved`). Kahn's order is
  an order (`PlacedInOrder`): a field comes after all it depends on, once, and unless
  there is a loop every field comes (`EveryFieldPlaced`). So when a field is computed
  what it reads is final (`OthersStay`), and two walks over payloads that differ in
  derived fields only agree on all that was computed so far (`SameAnswer`). For the
  second, a walk over what a walk kept computes what is there already
  (`WalkOverTheKept`): a field that is kept reads only what is kept, which is the
  property's premise, and shows or hides by the same values (`VisibleReads`).
- *Definitions*, for every definition of any number of states and edges, from
  `DefinitionsConstantsOK` (its parts are of their kinds, its states finitely many
  numbers): `AcceptedCanFinish` (`WhatIsAcceptedCanFinish`). Every state has a way to an
  end along the edges, since it is accepted. A chain of automatic steps that repeats no
  round adds a service state each round (`ServicesRunOut`), of which there are fewer
  than steps, so a chain comes to rest before it is refused, and what an automatic state
  leads to the state before it leads to as well (`SettlesOnward`). Hence the set of states
  from which what people can do reaches an end is closed backwards along the
  edges, and has every state (`AnEndIsAhead`). `DefinitionsInvariance` is what a process
  rests in: a state of the accepted definition that no automatic step leaves.

`LockOrderProofs` proves for any number of requests, documents, types and parties, from
`LocksConstantsOK`: `KnownCircles` (`EveryCircleIsKnown`). The rows are graded
(`Grade`): instances, comments and rules first, then documents, types, buckets, parties,
the counters of processes and of tasks, then definitions, events and the counter of
documents, and last what a request takes when it goes on to nothing that waits. Each of
the code's paths is put together of legs (`Leg`), and of each lock of a leg two things
are shown: what the request holds when it asks for it (`Needs`: a task's row behind its
instance's, a change's behind its document's, a decision's party behind the instance of
the document in flight), and that its grade is above those of what is held that matter,
or that it is `Excused`: held already, behind what keeps the others out, or one of the
known waits. The invariant is that a request is on such a path (`Requested`) and that
nobody holds a lock against another (`Exclusive`).

In a circle without a known wait nobody asks for a row of the last grade or for a
definition (`NoLastRow`, `NoDefinition`), so whoever is waited for asks for a higher
grade than what is waited for (`Rising`), but for two excuses that are left: a
decision's party, which nobody in the circle has (`NoDecisionsParty`, from the one
change at a time), and the type of a bucket that was just made outside of a submission,
whose bucket nobody in the circle waits for (`NobodyWaitsForAllocation`). Grades that
rise for ever have no seventh that is the highest (`NoTangle`). The proof is how the
fifth wait was found.

Checked by TLC only, and why:

- `EverythingIsSettled`, the liveness of the background workers: the prover has no rule
  for fairness.
- The properties of the runs that expect a violation are false of the code.

## Plan

What is left, in order of importance:

1. **Abstract specifications** beside the outbox's: a session that is ended by what ends
   it, for `Sessions` to implement; a process that is decided by its tasks, for
   `Workflow`.
2. **Sessions, the rest**: the lockout's counters between read and write, the address
   limiter; the circle of two links with the database's deadlock detection, and the retry.
3. **Composition**: Governance's decision inside Workflow's transaction, and
   Publishing's roles with the claims of Workflow's tasks, instead of side by side.
4. **Lock order**: sessions, the integration tables and the advisory locks in the same
   order, and an order that would leave no circle at all.

## Not modelled

The modules cover the code that has a protocol: state that two actors share, or
that a step leaves for a later one. Most of the backend has none, and that is why
the share of its lines that some definition translates is small:

- two thirds of the lines of Rust are tests, many of them inside the files of the
  modules;
- handlers, routing, extraction, error mapping and OpenAPI descriptions, which
  pass a request on;
- creation, update and listing of rows that are validated by themselves: master
  data, users, roles, companies, positions, document types, categories, comments,
  activity, reports, the inbox;
- pure functions over JSON: the meta-schemas of forms and workflows, operators,
  validation rules, templates, references between schemas. Where such a function
  decides what a protocol does, its structure is modelled (`Forms`,
  `Definitions`), and its table of cases is not;
- cryptography, password hashing, token signatures; the object store, the virus
  scanner and the mail relay beyond the outcomes a call may have;
- the frontend, which keeps no state the server relies on.
