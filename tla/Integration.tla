----------------------------- MODULE Integration -----------------------------
(***************************************************************************)
(* One external system, its endpoint and its credential references         *)
(* (modules/integration): switching it on and off, changes that were checked *)
(* against a copy read before, and test calls, which read what they need   *)
(* one statement after the other, send a secret of the environment to an   *)
(* address of the system's host and leave one row.                         *)
(*                                                                         *)
(* Dates are numbers: 0 is no first day and After no last one.             *)
(***************************************************************************)
EXTENDS Namespaces, FiniteSets

CONSTANTS
    Credentials,
    Caller,         \* the code of the system's tenant
    Others,         \* codes of tenants that may come and go
    SecretNames,    \* what a reference may name
    CredentialTypes, Supported,
    Days,           \* 1..n
    Addresses,      \* what a lookup may answer: a class, and whether the
                    \* deployment lists it
    AllowLoopback,
    Operators, Calls,
    MaxChanges

After == Cardinality(Days) + 1

IntegrationConstantsOK ==
    /\ Supported \subseteq CredentialTypes
    /\ Addresses \subseteq [class : STRING, listed : BOOLEAN] /\ AllowLoopback \in BOOLEAN
    /\ Days = 1..Cardinality(Days) /\ 1 \in Days /\ MaxChanges \in Nat
    /\ IsFiniteSet(Operators)

VARIABLES
    system,         \* external_systems.status
    endpoint,       \* integration_endpoints.status, or "none"
    credential,     \* integration_credentials
    today,
    live,           \* the other live tenants
    admin,          \* what each administrator's request has read
    changes,
    switched,       \* ghost: times the system was switched on and off
    recorded,       \* the audit's Activated and Deactivated
    call,
    wire,           \* ghost: what left, for which credential and to where
    row             \* integration_logs of each call

integrationVars == <<system, endpoint, credential, today, live, admin, changes, switched, recorded,
          call, wire, row>>

adminVars == <<system, endpoint, credential, admin, changes, switched, recorded>>
callVars == <<call, wire, row>>

Windows == [from : Days \cup {0}, to : Days \cup {After}]
Inverted(w) == w.to < w.from  \* validate_window
Credential ==
    {c \in [state : {"live"}, type : CredentialTypes, name : SecretNames, window : Windows, active : BOOLEAN] :
        ~Inverted(c.window)}

\* qualifies: active, and today is in its window
Usable(c) == c.state = "live" /\ c.active /\ c.window.from <= today /\ today <= c.window.to

Ways == {"on", "off"}
AtRest == [at |-> "idle"]
NoCredential == [state |-> "none"]

IntegrationInit ==
    /\ system = "ACTIVE" /\ endpoint = "none"
    /\ credential = [k \in Credentials |-> NoCredential]
    /\ today = 1 /\ live = {}
    /\ admin = [a \in Operators |-> AtRest] /\ changes = 0
    /\ switched = [way \in Ways |-> 0] /\ recorded = switched
    /\ call = [c \in Calls |-> AtRest]
    /\ wire = [c \in Calls |-> AtRest] /\ row = [c \in Calls |-> AtRest]

-----------------------------------------------------------------------------
(* The system                                                              *)

EndEdit(a) == admin' = [admin EXCEPT ![a] = AtRest]
BeginEdit(a, request) ==
    /\ admin[a].at = "idle" /\ changes < MaxChanges
    /\ changes' = changes + 1 /\ admin' = [admin EXCEPT ![a] = request]
CallsGoOn == UNCHANGED <<today, live, callVars>>
RecordsKept == UNCHANGED <<endpoint, credential>> /\ CallsGoOn

\* update_external_system refuses INACTIVE, and any status for a system that
\* is INACTIVE; the read is before the write.
ReadForUpdate(a) ==
    /\ system # "INACTIVE"
    /\ \E status \in {"ACTIVE", "MAINTENANCE"} : BeginEdit(a, [at |-> "updating", status |-> status])
    /\ UNCHANGED <<system, switched, recorded>> /\ RecordsKept

UpdateAnyway(a) ==  \* the read was enough
    /\ admin[a].at = "updating"
    /\ system' = admin[a].status
    /\ EndEdit(a) /\ UNCHANGED <<changes, switched, recorded>> /\ RecordsKept

\* and the statement asks again.
Update(a) ==
    /\ admin[a].at = "updating"
    /\ system' = IF system = "INACTIVE" THEN system ELSE admin[a].status
    /\ EndEdit(a) /\ UNCHANGED <<changes, switched, recorded>> /\ RecordsKept

Target(way) == IF way = "on" THEN "ACTIVE" ELSE "INACTIVE"

\* activate_external_system and deactivate_external_system answer at once for a
\* system that is there already.
ReadForSwitch(a, way) ==
    /\ system # Target(way)
    /\ BeginEdit(a, [at |-> "switching", way |-> way])
    /\ UNCHANGED <<system, switched, recorded>> /\ RecordsKept

SwitchAgain(a) ==  \* the count is not looked at
    /\ admin[a].at = "switching"
    /\ LET way == admin[a].way
       IN /\ system' = Target(way)
          /\ switched' = IF system = Target(way) THEN switched ELSE [switched EXCEPT ![way] = @ + 1]
          /\ admin' = [admin EXCEPT ![a] = [at |-> "auditing", way |-> way]]
    /\ UNCHANGED <<changes, recorded>> /\ RecordsKept

\* A row that is there already is not written, and its request records nothing.
Switch(a) ==
    /\ admin[a].at = "switching"
    /\ LET way == admin[a].way
       IN IF system = Target(way)
            THEN EndEdit(a) /\ UNCHANGED <<system, switched>>
            ELSE /\ system' = Target(way)
                 /\ switched' = [switched EXCEPT ![way] = @ + 1]
                 /\ admin' = [admin EXCEPT ![a] = [at |-> "auditing", way |-> way]]
    /\ UNCHANGED <<changes, recorded>> /\ RecordsKept

\* record_or_warn
RecordSwitch(a) ==
    /\ admin[a].at = "auditing"
    /\ recorded' = [recorded EXCEPT ![admin[a].way] = @ + 1]
    /\ EndEdit(a) /\ UNCHANGED <<system, changes, switched>> /\ RecordsKept

\* The request ends, or its audit row is lost.
Abandon(a) ==
    /\ admin[a].at # "idle"
    /\ EndEdit(a) /\ UNCHANGED <<system, changes, switched, recorded>> /\ RecordsKept

-----------------------------------------------------------------------------
(* Its endpoint and its credentials                                        *)

SystemKept == UNCHANGED <<system, switched, recorded>> /\ CallsGoOn
OneStatement == changes < MaxChanges /\ changes' = changes + 1 /\ UNCHANGED admin

CreateEndpoint ==
    /\ endpoint = "none" /\ endpoint' = "ACTIVE"
    /\ UNCHANGED <<credential, changes, admin>> /\ SystemKept

UpdateEndpoint(status) ==
    /\ endpoint # "none" /\ endpoint' = status
    /\ OneStatement /\ UNCHANGED credential /\ SystemKept

CreateCredential(k) ==
    /\ credential[k].state = "none"
    /\ \E c \in Credential : credential' = [credential EXCEPT ![k] = c]
    /\ OneStatement /\ UNCHANGED endpoint /\ SystemKept

\* update_credential checks the bound it is asked to move against the other as
\* it is now,
ReadForWindow(a, k, bound) ==
    /\ credential[k].state = "live"
    /\ \E day \in Days :
         /\ ~Inverted([credential[k].window EXCEPT ![bound] = day])
         /\ BeginEdit(a, [at |-> "moving", credential |-> k, bound |-> bound, day |-> day])
    /\ UNCHANGED <<endpoint, credential>> /\ SystemKept

\* and writes the one.
MoveBound(a) ==
    /\ admin[a].at = "moving"
    /\ LET k == admin[a].credential
       IN credential' = IF credential[k].state # "live" THEN credential
                        ELSE [credential EXCEPT ![k].window[admin[a].bound] = admin[a].day]
    /\ EndEdit(a) /\ UNCHANGED <<endpoint, changes>> /\ SystemKept

UpdateCredential(k) ==
    /\ credential[k].state = "live"
    /\ \/ \E active \in BOOLEAN : credential' = [credential EXCEPT ![k].active = active]
       \/ \E name \in SecretNames : credential' = [credential EXCEPT ![k].name = name]
       \/ \E type \in CredentialTypes : credential' = [credential EXCEPT ![k].type = type]
    /\ OneStatement /\ UNCHANGED endpoint /\ SystemKept

SoftDelete(k) ==
    /\ credential[k].state = "live"
    /\ credential' = [credential EXCEPT ![k] = [state |-> "deleted"]]
    /\ OneStatement /\ UNCHANGED endpoint /\ SystemKept

-----------------------------------------------------------------------------
(* A test call                                                             *)

Goes(c, state) == call' = [call EXCEPT ![c] = state]
Reads == UNCHANGED <<today, live, wire, row, adminVars>>

\* find_external_system, then find_endpoint: a call begins once both are there.
ReadSystem(c) ==
    /\ call[c].at = "idle" /\ row[c].at = "idle"
    /\ Goes(c, [at |-> "finding", system |-> system]) /\ Reads

ReadEndpoint(c) ==
    /\ call[c].at = "finding" /\ endpoint # "none"
    /\ Goes(c, [at |-> "begun", active |-> call[c].system = "ACTIVE" /\ endpoint = "ACTIVE"])
    /\ Reads

SentLate(state) ==  \* said once it is answered
    [credential |-> IF state.at \in {"chosen", "sending"} THEN {state.credential} ELSE {},
     authorization |-> FALSE]

\* What Sent says so far.
Sent(state) ==
    [credential |-> IF state.at \in {"chosen", "sending"} THEN {state.credential} ELSE {},
     authorization |-> state.at = "sending"]

RecordAs(c, status) ==
    /\ row' = [row EXCEPT ![c] = [at |-> "written", status |-> status, sent |-> Sent(call[c])]]
    /\ Goes(c, AtRest)

\* The first refusals, of the copies that were read; the row says FAILED.
Refuse(c) ==
    /\ call[c].at = "begun" /\ RecordAs(c, "FAILED")
    /\ UNCHANGED <<today, live, wire, adminVars>>

\* active_credentials and choose_credential: exactly one must qualify.
Choose(c) ==
    /\ call[c].at = "begun" /\ call[c].active
    /\ LET usable == {k \in Credentials : Usable(credential[k])}
       IN Cardinality(usable) = 1 /\ \E k \in usable :
            Goes(c, [at |-> "chosen", credential |-> k, name |-> credential[k].name,
                     supported |-> credential[k].type \in Supported])
    /\ Reads

\* EgressPolicy::check, and choose: every address must pass.
Passes(address) ==
    \/ address.class = "public"
    \/ address.class = "private" /\ address.listed
    \/ address.class = "loopback" /\ AllowLoopback
Pinned(answer) == IF \A address \in answer : Passes(address) THEN answer ELSE {}

\* live_tenant_codes, resolve_secret, authorization_value; then the host is
\* looked up, once (resolve_and_check).
ResolveAndCheck(c) ==
    /\ call[c].at = "chosen" /\ call[c].supported
    /\ Admits(call[c].name, Caller, live)
    /\ \E answer \in SUBSET Addresses :
         /\ Pinned(answer) # {}
         /\ Goes(c, [at |-> "sending", credential |-> call[c].credential, name |-> call[c].name,
                     pinned |-> Pinned(answer)])
    /\ Reads

RefuseSecret(c) ==
    /\ call[c].at = "chosen" /\ RecordAs(c, "FAILED")
    /\ UNCHANGED <<today, live, wire, adminVars>>

SendToAnyAnswer(c, answered) ==  \* the client looks the host up itself
    /\ call[c].at = "sending" /\ wire[c].at = "idle"
    /\ \E address \in Addresses :
         wire' = [wire EXCEPT ![c] = [at |-> "left", credential |-> call[c].credential,
                                      name |-> call[c].name, address |-> address,
                                      answered |-> answered]]
    /\ UNCHANGED <<today, live, call, row, adminVars>>

\* send connects to an address that was checked. What the client gives up on
\* may have arrived.
Send(c, answered) ==
    /\ call[c].at = "sending" /\ wire[c].at = "idle"
    /\ \E address \in call[c].pinned :
         wire' = [wire EXCEPT ![c] = [at |-> "left", credential |-> call[c].credential,
                                      name |-> call[c].name, address |-> address,
                                      answered |-> answered]]
    /\ UNCHANGED <<today, live, call, row, adminVars>>

\* insert_log: TestCallStatus of an answer, FAILED of none, which is a timeout
\* too; nothing answered is no answer.
Record(c) ==
    /\ call[c].at = "sending"
    /\ IF wire[c].at = "left" /\ wire[c].answered
         THEN \E status \in {"SUCCESS", "FAILED"} : RecordAs(c, status)
         ELSE RecordAs(c, "FAILED")
    /\ UNCHANGED <<today, live, wire, adminVars>>

\* The row cannot be written, or the request is dropped.
LoseCall(c) ==
    /\ call[c].at # "idle"
    /\ Goes(c, AtRest) /\ row' = [row EXCEPT ![c] = [at |-> "lost"]]
    /\ UNCHANGED <<today, live, wire, adminVars>>

-----------------------------------------------------------------------------
NextDay ==
    /\ today + 1 \in Days /\ today' = today + 1
    /\ UNCHANGED <<live, callVars, adminVars>>

TenantComes(code) ==
    /\ code \in Others \ live /\ live' = live \cup {code}
    /\ UNCHANGED <<today, callVars, adminVars>>

Administer(a) ==
    \/ ReadForUpdate(a) \/ Update(a) \/ Switch(a) \/ RecordSwitch(a) \/ Abandon(a) \/ MoveBound(a)
    \/ \E way \in Ways : ReadForSwitch(a, way)
    \/ \E k \in Credentials, bound \in {"from", "to"} : ReadForWindow(a, k, bound)

Configure ==
    \/ CreateEndpoint
    \/ \E status \in {"ACTIVE", "INACTIVE"} : UpdateEndpoint(status)
    \/ \E k \in Credentials : CreateCredential(k) \/ UpdateCredential(k) \/ SoftDelete(k)

TestCall(c) ==
    \/ ReadSystem(c) \/ ReadEndpoint(c) \/ Refuse(c) \/ Choose(c) \/ ResolveAndCheck(c) \/ RefuseSecret(c)
    \/ (\E answered \in BOOLEAN : Send(c, answered)) \/ Record(c) \/ LoseCall(c)

IntegrationNext ==
    \/ \E a \in Operators : Administer(a)
    \/ Configure
    \/ \E c \in Calls : TestCall(c)
    \/ NextDay
    \/ \E code \in Others : TenantComes(code)

IntegrationSpec == IntegrationInit /\ [][IntegrationNext]_integrationVars

-----------------------------------------------------------------------------
(* Properties                                                              *)

IntegrationTypeOK ==
    /\ system \in {"ACTIVE", "INACTIVE", "MAINTENANCE"}
    /\ endpoint \in {"none", "ACTIVE", "INACTIVE"}
    /\ DOMAIN credential = Credentials /\ today \in Days /\ live \subseteq Others
    /\ changes \in 0..MaxChanges

(* A system that is switched off comes back by its activation and never by *)
(* an edit, one that was checked while the system was on included          *)
(* (update_external_system; #520).                                         *)
OnlyActivationRevives ==
    [][system = "INACTIVE" /\ system' # "INACTIVE" =>
         \E a \in Operators : admin[a].at = "switching" /\ admin[a].way = "on"
                           /\ admin'[a].at = "auditing"]_integrationVars

(* However many requests switch a system at once, the audit says of no     *)
(* switch twice that it was made (deactivate_external_system,              *)
(* activate_external_system).                                              *)
SwitchesAreRecordedOnce ==
    \A way \in Ways :
        recorded[way] + Cardinality({a \in Operators : admin[a].at = "auditing" /\ admin[a].way = way})
          <= switched[way]

(* The row of a call says of a secret that left that it did, and whose it  *)
(* was, although nobody waited for the answer; SUCCESS was answered; and   *)
(* what left went to an address that was checked, under a name of the      *)
(* caller's own (test_call, attempt, resolve_and_check; ADR-0043).         *)
RowTellsWhatLeft ==
    \A c \in Calls :
        /\ row[c].at = "written" /\ wire[c].at = "left" =>
             row[c].sent = [credential |-> {wire[c].credential}, authorization |-> TRUE]
        /\ row[c].at = "written" /\ row[c].status = "SUCCESS" =>
             wire[c].at = "left" /\ wire[c].answered
        /\ wire[c].at = "left" =>
             Passes(wire[c].address) /\ IsSpelledIn(wire[c].name, Caller)

\* Each switch of a system has one row of the audit trail, and the row of a
\* test call tells what left.
RecordsAreTrue == SwitchesAreRecordedOnce /\ RowTellsWhatLeft
=============================================================================
