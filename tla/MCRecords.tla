------------------------------ MODULE MCRecords ------------------------------
(* Instances for TLC of what is administered and filed: the numbers of a      *)
(* type, tenants and their first administrators, an external system, drafts   *)
(* with their types and forms, and the sessions of a user.  They share        *)
(* nothing here: `part` says which one a behaviour is about, and the others   *)
(* stay in their first state.                                                 *)
EXTENDS MCNumbering, Sessions, Records

VARIABLE part

\* "A_" and "A--B" are spelled with names that "A" may have.
TenantCodes == {<<"S">>, <<"A">>, <<"A", "_">>, <<"A", "-", "-", "B">>}
Secrets ==
    {code \o rest : code \in {<<"A">>, <<"A", "_">>, <<"A", "_", "_", "B">>},
                    rest \in {<<"_", "_", "X">>, <<"_", "_", "_", "X">>, <<"_", "_", "B", "_", "_", "X">>}}

DefaultCode == <<"S">>
FollowedCodes == {<<"A">>}

\* The second name may also be that of another tenant.
MCCaller == <<"A">>
MCOthers == {<<"A", "_", "_", "B">>}
MCNames == {<<"A", "_", "_", "X">>, <<"A", "_", "_", "B", "_", "_", "X">>}
MCAddresses == {[class |-> "public", listed |-> FALSE]} \cup [class : {"private"}, listed : BOOLEAN]

ASSUME TenantsConstants == TenantsConstantsOK
ASSUME IntegrationConstants == IntegrationConstantsOK
ASSUME DraftsConstants == DraftsConstantsOK

allVars == <<part, vars, tenantVars, integrationVars, draftVars, sessionVars>>

\* A deployment has its administrator before tenants are made, and only the
\* followed tenant is suspended.
Administering ==
    /\ (\E r \in 1..2 : boot'[r] \notin {"down", "up"}) => \A m \in 1..2 : maker'[m].at = "idle"
    /\ \A c \in TenantCodes \ {<<"A">>} : tenant'[c] \in {"none", "ACTIVE", "deleted"}

\* Requests that switch the system beside one another, or one call beside one
\* request: the first credential has both bounds, and of the second only its
\* first day matters.
Switching == UNCHANGED <<credential, call, today, live>>
Calling ==
    /\ admin'[2].at = "idle"
    /\ credential'[1].state = "live" =>
         credential'[1].window.from # 0 /\ credential'[1].window.to # 3
    /\ credential'[2].state = "live" =>
         /\ credential'[2].window.to = 3
         /\ credential'[2].name = <<"A", "_", "_", "X">> /\ credential'[2].active
         /\ credential'[2].type = "BEARER_TOKEN"

\* One draft of one type and what it is held to, without workflows or links;
\* or two of two types and their links, without forms, and workflows while
\* there are no drafts.
WithoutFlows ==
    /\ \A t \in DOMAIN type : type'[t] # Absent => type'[t].flows = {}
    /\ \A r \in DOMAIN request :
         request'[r].at \in {"read", "compared", "binding", "bound"} => request'[r].flows = {}
Pinning ==
    /\ WithoutFlows
    /\ retired' = {} /\ \A r \in DOMAIN request : request'[r].party = "none"
    /\ doc'["d2"] = Absent /\ type'["t2"] = Absent
Filing ==
    /\ \A r \in DOMAIN request : request'[r].at # "revising"
    /\ (\E d \in DOMAIN doc : doc'[d] # Absent) => WithoutFlows

\* The sessions of a user: three tokens, a link and one new hash while the account is in
\* use; three tokens while it is taken out of use, without links or new hashes; or two
\* links at once, two new hashes and one token.  Tokens and links are made in the order of their numbers, and a
\* request that comes gets the first number that is free.
InOrder ==
    /\ \A t, u \in Tokens : u < t /\ token'[t] # NoToken => token'[u] # NoToken
    /\ link'[1] = "absent" => link'[2] = "absent"
    /\ auth'[2].at # "idle" /\ auth[1].at = "idle" => auth[2].at # "idle"
Writing == user'.status = "ACTIVE" /\ link'[2] = "absent" /\ user'.hash < 3
Ending == link'[1] = "absent" /\ user'.hash < 2
Redeeming == token'[2] = NoToken

RecordsInit ==
    /\ part \in {"numbering", "tenants", "switching", "calling", "pinning", "filing",
                "passwords", "accounts", "links"}
    /\ Init /\ TenantsInit /\ IntegrationInit /\ DraftsInit /\ SessionsInit

RecordsNext ==
    /\ UNCHANGED part
    /\ \/ /\ part = "numbering" /\ Next
          /\ UNCHANGED <<tenantVars, integrationVars, draftVars, sessionVars>>
       \/ /\ part = "tenants" /\ TenantsNext /\ Administering
          /\ UNCHANGED <<vars, integrationVars, draftVars, sessionVars>>
       \/ /\ part = "switching" /\ IntegrationNext /\ Switching
          /\ UNCHANGED <<vars, tenantVars, draftVars, sessionVars>>
       \/ /\ part = "calling" /\ IntegrationNext /\ Calling
          /\ UNCHANGED <<vars, tenantVars, draftVars, sessionVars>>
       \/ /\ part \in {"pinning", "filing"} /\ DraftsNext
          /\ IF part = "pinning" THEN Pinning ELSE Filing
          /\ UNCHANGED <<vars, tenantVars, integrationVars, sessionVars>>
       \/ /\ part \in {"passwords", "accounts", "links"} /\ SessionsNext /\ InOrder
          /\ CASE part = "passwords" -> Writing
               [] part = "accounts" -> Ending
               [] part = "links" -> Redeeming
          /\ UNCHANGED <<vars, tenantVars, integrationVars, draftVars>>

RecordsSpec == RecordsInit /\ [][RecordsNext]_allVars
=============================================================================
