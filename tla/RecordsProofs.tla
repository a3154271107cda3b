---------------------------- MODULE RecordsProofs ----------------------------
(***************************************************************************)
(* Proofs about tenants, an external system, drafts and numbering, each    *)
(* for any number of requests and rows.  All four argue from what a lock   *)
(* keeps:                                                                  *)
(*                                                                         *)
(*   tenants       two prefixes of one name compare, so codes that are     *)
(*                 apart share no name; while a request holds the lock, no *)
(*                 other makes a tenant, so the code it judged is free;    *)
(*   the system    a switch is counted in the step that makes it, and is   *)
(*                 recorded or being recorded ever after;                  *)
(*   drafts        what a request has read of the rows that it holds is so *)
(*                 still when it commits (Stands);                         *)
(*   numbering     while a gapless submission has the bucket's row, nobody *)
(*                 moves the counter, so the number it will commit is the  *)
(*                 next one still; and what was committed is below the     *)
(*                 counter, unless an edit lowered it.                     *)
(***************************************************************************)
EXTENDS Numbering, Records, FiniteSetTheorems, SequenceTheorems, TLAPS

-----------------------------------------------------------------------------
(* Names and codes                                                         *)

Tokens == STRING \cup {"_"}

LEMMA PrefixIsASequence ==
  ASSUME NEW code \in Seq(STRING)
  PROVE  TenantPrefix(code) \in Seq(Tokens)
<1>1. ASSUME NEW S, NEW m \in S, STRING \subseteq S
      PROVE  [i \in DOMAIN code |-> IF code[i] = "-" THEN m ELSE code[i]] \o <<m, m>> \in Seq(S)
  <2>1. code \in Seq(S)
    BY <1>1, SeqMonotonic
  <2>2. Len(code) \in Nat /\ DOMAIN code = 1..Len(code) /\ \A i \in 1..Len(code) : code[i] \in S
    BY <2>1
  <2>3. [i \in DOMAIN code |-> IF code[i] = "-" THEN m ELSE code[i]] \in [1..Len(code) -> S]
    BY <2>2
  <2>4. [i \in DOMAIN code |-> IF code[i] = "-" THEN m ELSE code[i]] \in Seq(S)
    BY <2>2, <2>3
  <2>5. <<m, m>> \in Seq(S)
    OBVIOUS
  <2> QED
    BY <2>4, <2>5
<1>2. "_" \in Tokens /\ STRING \subseteq Tokens
  BY Zenon DEF Tokens
<1> QED
  BY <1>1, <1>2, Zenon DEF TenantPrefix, Segment

\* What two sequences begin with, when both begin one, is comparable.
LEMMA PrefixesCompare ==
  ASSUME NEW S, NEW s \in Seq(S), NEW t \in Seq(S), NEW u \in Seq(S),
         IsPrefix(s, u), IsPrefix(t, u)
  PROVE  IsPrefix(s, t) \/ IsPrefix(t, s)
<1>1. Len(s) \in Nat /\ Len(t) \in Nat /\ Len(u) \in Nat /\ Len(s) <= Len(u) /\ Len(t) <= Len(u)
  BY DEF IsPrefix
<1>2. \A i \in 1..Len(s) : s[i] = u[i]
  <2>1. SubSeq(s, 1, Len(s)) = SubSeq(u, 1, Len(s))
    BY DEF IsPrefix
  <2> TAKE i \in 1..Len(s)
  <2>2. SubSeq(s, 1, Len(s))[i] = s[i] /\ SubSeq(u, 1, Len(s))[i] = u[i]
    BY <1>1, SubSeqProperties
  <2> QED
    BY <2>1, <2>2
<1>3. \A i \in 1..Len(t) : t[i] = u[i]
  <2>1. SubSeq(t, 1, Len(t)) = SubSeq(u, 1, Len(t))
    BY DEF IsPrefix
  <2> TAKE i \in 1..Len(t)
  <2>2. SubSeq(t, 1, Len(t))[i] = t[i] /\ SubSeq(u, 1, Len(t))[i] = u[i]
    BY <1>1, SubSeqProperties
  <2> QED
    BY <2>1, <2>2
<1>4. ASSUME NEW a \in Seq(S), NEW b \in Seq(S), Len(a) <= Len(b),
             \A i \in 1..Len(a) : a[i] = u[i], \A i \in 1..Len(b) : b[i] = u[i]
      PROVE  IsPrefix(a, b)
  <2>1. SubSeq(a, 1, Len(a)) = SubSeq(b, 1, Len(a))
    BY <1>4
  <2> QED
    BY <1>4, <2>1 DEF IsPrefix
<1>5. CASE Len(s) <= Len(t)
  BY <1>2, <1>3, <1>4, <1>5
<1>6. CASE Len(t) <= Len(s)
  BY <1>2, <1>3, <1>4, <1>6
<1> QED
  BY <1>1, <1>5, <1>6

\* Codes whose namespaces do not overlap have no name in common.
LEMMA NothingInCommon ==
  ASSUME TenantsConstantsOK, NEW c \in Codes, NEW d \in Codes, ~NamespacesOverlap(c, d)
  PROVE  NamesInCommon(c, d) = {}
<1> SUFFICES ASSUME NEW name \in Names, IsSpelledIn(name, c), IsSpelledIn(name, d)
             PROVE  FALSE
  BY DEF NamesInCommon
<1>1. c \in Seq(STRING) /\ d \in Seq(STRING) /\ name \in Seq(STRING)
  BY DEF TenantsConstantsOK
<1>2. TenantPrefix(c) \in Seq(Tokens) /\ TenantPrefix(d) \in Seq(Tokens) /\ name \in Seq(Tokens)
  <2>1. STRING \subseteq Tokens
    BY DEF Tokens
  <2> QED
    BY <1>1, <2>1, PrefixIsASequence, SeqMonotonic
<1>3. IsPrefix(TenantPrefix(c), name) /\ IsPrefix(TenantPrefix(d), name)
  BY DEF IsSpelledIn, IsStrictPrefix
<1> QED
  BY <1>1, <1>2, <1>3, PrefixesCompare DEF NamespacesOverlap

-----------------------------------------------------------------------------
(* Tenants                                                                 *)

Makings == [at : {"idle"}] \cup [at : {"locked", "judged"}, code : Codes]

TenantsRanges ==
    /\ tenant \in [Codes -> {"none", "ACTIVE", "SUSPENDED", "INACTIVE", "deleted"}]
    /\ admins \in [Codes -> Nat]
    /\ boot \in [Replicas -> {"down", "resolved", "hashing", "locked", "creating", "up"}]
    /\ maker \in [Makers -> Makings]
    /\ revoking \subseteq Codes
    /\ session \in [Followed -> {"none", "live", "revoked"}]
    /\ entry \in [Followed -> {"none", "signing", "renewing"}]
    /\ late \in [Followed -> 0..2]

\* Who holds a lock is alone.
OneMaker == \A m, n \in Makers : maker[m].at # "idle" /\ maker[n].at # "idle" => m = n
OneReplica ==
    \A r, q \in Replicas :
        boot[r] \in {"locked", "creating"} /\ boot[q] \in {"locked", "creating"} => r = q

\* A code that was judged may still be taken, and none of the live overlap.
JudgedIsFree ==
    \A m \in Makers : maker[m].at = "judged" => ~RefusesSharedNamespace(maker[m].code, Live)
LiveApart == \A c, d \in Live : c = d \/ ~NamespacesOverlap(c, d)

\* Who is creating the first administrator is right that there is none.
NobodyYet == \A r \in Replicas : boot[r] = "creating" => admins[Default] = 0
AdministratorsCounted == OneFirstAdministrator /\ tenant[Default] # "none"

\* Only a refresh that began while the tenant was in use is late.
LateAtMostOnce ==
    \A c \in Followed :
        /\ late[c] <= 1
        /\ tenant[c] \in {"none", "ACTIVE"} => late[c] = 0
        /\ entry[c] = "renewing" => late[c] = 0
        /\ entry[c] # "none" => tenant[c] # "none"

TenantsIInv ==
    /\ TenantsRanges /\ OneMaker /\ OneReplica /\ JudgedIsFree /\ LiveApart
    /\ NobodyYet /\ AdministratorsCounted /\ LateAtMostOnce

LEMMA TenantsInitInvariant ==
  ASSUME TenantsConstantsOK
  PROVE  TenantsInit => TenantsIInv
BY DEF TenantsConstantsOK, TenantsInit, TenantsIInv, TenantsRanges, Makings, OneMaker, OneReplica,
       JudgedIsFree, LiveApart, Live, NobodyYet, AdministratorsCounted, OneFirstAdministrator,
       LateAtMostOnce

\* The steps of a replica: what is asked under the lock is still so.
LEMMA BootstrapKeeps ==
  ASSUME TenantsConstantsOK, TenantsIInv, NEW r \in Replicas, Bootstrap(r)
  PROVE  TenantsIInv'
<1>0. Default \in Codes /\ Followed \subseteq Codes
  BY DEF TenantsConstantsOK
<1> USE <1>0 DEF TenantsIInv, TenantsRanges
<1>1. ASSUME NEW from \in {"down", "resolved", "hashing", "locked", "creating", "up"},
             NEW to \in {"down", "resolved", "hashing", "locked", "creating", "up"},
             Booting(r, from, to),
             UNCHANGED <<tenant, maker, revoking, session, entry, late>>,
             \/ admins' = admins
             \/ (from = "creating" /\ admins' = [admins EXCEPT ![Default] = @ + 1]),
             from = "creating" => to \notin {"locked", "creating"},
             from = "locked" /\ to = "creating" => ~AnyUserExists,
             to = "locked" => \A q \in Replicas : boot[q] \notin {"locked", "creating"},
             to = "creating" => from = "locked"
      PROVE  TenantsIInv'
  <2>1. TenantsRanges' /\ boot[r] = from /\ boot'[r] = to /\ \A q \in Replicas \ {r} : boot'[q] = boot[q]
    BY <1>1 DEF Booting
  <2>2. Live' = Live
    BY <1>1 DEF Live
  <2>3. OneMaker' /\ JudgedIsFree' /\ LiveApart' /\ LateAtMostOnce'
    BY <1>1, <2>2 DEF OneMaker, JudgedIsFree, LiveApart, LateAtMostOnce
  <2>4. OneReplica'
    BY <1>1, <2>1 DEF OneReplica
  <2>5. NobodyYet'
    <3> SUFFICES ASSUME NEW q \in Replicas, boot'[q] = "creating"
                 PROVE  admins'[Default] = 0
      BY DEF NobodyYet
    <3>1. CASE q = r
      <4>1. from = "locked" /\ admins' = admins /\ ~AnyUserExists
        BY <1>1, <2>1, <3>1
      <4> QED
        BY <4>1 DEF AnyUserExists
    <3>2. CASE q # r
      <4>1. boot[q] = "creating" /\ from # "creating"
        BY <2>1, <3>2 DEF OneReplica
      <4> QED
        BY <1>1, <4>1 DEF NobodyYet
    <3> QED
      BY <3>1, <3>2
  <2>6. AdministratorsCounted'
    BY <1>1, <2>1 DEF AdministratorsCounted, OneFirstAdministrator, NobodyYet
  <2> QED
    BY <2>1, <2>3, <2>4, <2>5, <2>6
<1>2. CASE Start(r)
  BY <1>1, <1>2 DEF Start, BootOnly
<1>3. CASE CheckUsers(r)
  BY <1>1, <1>3 DEF CheckUsers, BootOnly
<1>4. CASE TryLock(r)
  BY <1>1, <1>4 DEF TryLock, BootOnly
<1>5. CASE Recheck(r)
  BY <1>1, <1>5 DEF Recheck, BootOnly
<1>6. CASE CreateAdministrator(r)
  BY <1>1, <1>6 DEF CreateAdministrator
<1>7. CASE Stop(r)
  <2>1. Booting(r, boot[r], "down")
    BY <1>7 DEF Stop, Booting
  <2> QED
    BY <1>1, <1>7, <2>1 DEF Stop, BootOnly
<1> QED
  BY <1>2, <1>3, <1>4, <1>5, <1>6, <1>7 DEF Bootstrap

\* The steps of a creation: nobody else creates a tenant between the reading
\* of the codes and the insert.
LEMMA CreateKeeps ==
  ASSUME TenantsConstantsOK, TenantsIInv, NEW m \in Makers, Create(m)
  PROVE  TenantsIInv'
<1>0. Default \in Codes /\ Followed \subseteq Codes
  BY DEF TenantsConstantsOK
<1> USE <1>0 DEF TenantsIInv, TenantsRanges
<1>1. ASSUME NEW state \in Makings, Making(m, state), MakerOnly,
             maker[m].at = "idle" => \A n \in Makers : maker[n].at = "idle",
             state.at = "judged" => ~RefusesSharedNamespace(state.code, Live)
      PROVE  TenantsIInv'
  <2>1. maker' = [maker EXCEPT ![m] = state]
        /\ UNCHANGED <<tenant, admins, boot, revoking, session, entry, late>>
    BY <1>1 DEF Making, MakerOnly
  <2>2. TenantsRanges' /\ Live' = Live
    BY <2>1 DEF Live
  <2>3. OneReplica' /\ LiveApart' /\ NobodyYet' /\ AdministratorsCounted' /\ LateAtMostOnce'
    BY <2>1, <2>2 DEF OneReplica, LiveApart, NobodyYet, AdministratorsCounted,
                      OneFirstAdministrator, LateAtMostOnce
  <2>4. OneMaker'
    BY <1>1, <2>1 DEF OneMaker
  <2>5. JudgedIsFree'
    BY <1>1, <2>1, <2>2 DEF JudgedIsFree
  <2> QED
    BY <2>2, <2>3, <2>4, <2>5
<1>2. ASSUME NEW c \in Codes, LockCodes(m, c)
      PROVE  TenantsIInv'
  BY <1>1, <1>2 DEF LockCodes, Makings
<1>3. CASE JudgeCode(m)
  <2>1. maker[m] \in Makings /\ maker[m].at = "locked"
    BY <1>3 DEF JudgeCode
  <2>2. maker[m].code \in Codes /\ [maker[m] EXCEPT !.at = "judged"] \in Makings
        /\ [maker[m] EXCEPT !.at = "judged"].code = maker[m].code
    BY <2>1 DEF Makings
  <2>3. [at |-> "idle"] \in Makings
    BY DEF Makings
  <2>4. CASE RefusesSharedNamespace(maker[m].code, Live)
    <3>1. Making(m, [at |-> "idle"]) /\ MakerOnly
      BY <1>3, <2>4 DEF JudgeCode
    <3> QED
      BY <1>1, <2>1, <2>3, <3>1
  <2>5. CASE ~RefusesSharedNamespace(maker[m].code, Live)
    <3>1. Making(m, [maker[m] EXCEPT !.at = "judged"]) /\ MakerOnly
      BY <1>3, <2>5 DEF JudgeCode
    <3> QED
      BY <1>1, <2>1, <2>2, <2>5, <3>1
  <2> QED
    BY <2>4, <2>5
<1>4. CASE AbandonTenant(m)
  BY <1>1, <1>4 DEF AbandonTenant, Makings
<1>5. CASE CommitTenant(m)
  <2> DEFINE c == maker[m].code
  <2>1. maker[m].at = "judged" /\ c \in Codes /\ maker' = [maker EXCEPT ![m] = [at |-> "idle"]]
        /\ UNCHANGED <<boot, revoking, session, entry, late>>
    <3>1. maker[m] \in Makings /\ maker[m].at = "judged"
      BY <1>5 DEF CommitTenant
    <3> QED
      BY <1>5, <3>1 DEF CommitTenant, Making, Makings
  <2>2. \/ tenant[c] # "none" /\ UNCHANGED <<tenant, admins>>
        \/ /\ tenant[c] = "none" /\ tenant' = [tenant EXCEPT ![c] = "ACTIVE"]
           /\ admins' = [admins EXCEPT ![c] = @ + 1]
    BY <1>5 DEF CommitTenant
  <2> HIDE DEF c
  <2>3. TenantsRanges' /\ Live' \subseteq Live \cup {c}
    BY <2>1, <2>2 DEF Live, Makings
  <2>4. OneMaker' /\ OneReplica' /\ \A n \in Makers : maker'[n].at = "idle"
    BY <2>1 DEF OneMaker, OneReplica
  <2>5. JudgedIsFree'
    BY <2>4 DEF JudgedIsFree
  <2>6. LiveApart'
    <3>1. \A d \in Live : d = c \/ (~NamespacesOverlap(c, d) /\ ~NamespacesOverlap(d, c))
      <4>1. ~RefusesSharedNamespace(c, Live)
        BY <2>1 DEF JudgedIsFree, c
      <4> QED
        BY <4>1 DEF RefusesSharedNamespace, NamespacesOverlap
    <3> QED
      BY <2>3, <3>1 DEF LiveApart
  <2>7. NobodyYet' /\ AdministratorsCounted'
    BY <2>1, <2>2 DEF NobodyYet, AdministratorsCounted, OneFirstAdministrator
  <2>8. LateAtMostOnce'
    BY <2>1, <2>2 DEF LateAtMostOnce
  <2> QED
    BY <2>3, <2>4, <2>5, <2>6, <2>7, <2>8
<1> QED
  BY <1>2, <1>3, <1>4, <1>5 DEF Create

\* What is done to a tenant takes no code, and a session is renewed late only
\* by who began in time.
LEMMA StatusKeeps ==
  ASSUME TenantsConstantsOK, TenantsIInv, NEW c \in Codes,
         \/ \E status \in {"ACTIVE", "SUSPENDED", "INACTIVE"} : UpdateTenant(c, status)
         \/ DeleteTenant(c) \/ RevokeSessions(c) \/ LoseRevoke(c)
  PROVE  TenantsIInv'
<1>0. Default \in Codes /\ Followed \subseteq Codes
  BY DEF TenantsConstantsOK
<1> USE <1>0 DEF TenantsIInv, TenantsRanges
<1>1. /\ UNCHANGED <<admins, boot, maker, entry>> /\ TenantsRanges'
      /\ \A d \in Codes : /\ tenant'[d] = "none" <=> tenant[d] = "none"
                          /\ tenant'[d] \notin {"none", "deleted"} => tenant[d] \notin {"none", "deleted"}
      /\ \A d \in Followed :
           \/ late'[d] = 0
           \/ late'[d] = late[d] /\ (tenant'[d] = "ACTIVE" => tenant[d] = "ACTIVE")
  BY DEF UpdateTenant, DeleteTenant, RevokeSessions, LoseRevoke, Live
<1>2. Live' \subseteq Live
  BY <1>1 DEF Live
<1>3. OneMaker' /\ OneReplica' /\ NobodyYet' /\ AdministratorsCounted'
  BY <1>1 DEF OneMaker, OneReplica, NobodyYet, AdministratorsCounted, OneFirstAdministrator
<1>4. JudgedIsFree' /\ LiveApart'
  BY <1>1, <1>2 DEF JudgedIsFree, LiveApart, RefusesSharedNamespace
<1>5. LateAtMostOnce'
  BY <1>1 DEF LateAtMostOnce
<1> QED
  BY <1>1, <1>3, <1>4, <1>5

LEMMA SessionsKeep ==
  ASSUME TenantsConstantsOK, TenantsIInv, NEW c \in Followed,
         BeginSignIn(c) \/ StoreSession(c) \/ BeginRefresh(c) \/ StoreRenewal(c) \/ EndEntry(c)
  PROVE  TenantsIInv'
<1>0. Default \in Codes /\ Followed \subseteq Codes
  BY DEF TenantsConstantsOK
<1> USE <1>0 DEF TenantsIInv, TenantsRanges
<1>1. UNCHANGED <<tenant, admins, boot, maker, revoking>>
  BY DEF BeginSignIn, StoreSession, BeginRefresh, StoreRenewal, EndEntry, NotRenewed, SessionOnly
<1>2. Live' = Live
  BY <1>1 DEF Live
<1>3. OneMaker' /\ OneReplica' /\ NobodyYet' /\ AdministratorsCounted' /\ JudgedIsFree' /\ LiveApart'
  BY <1>1, <1>2 DEF OneMaker, OneReplica, NobodyYet, AdministratorsCounted, OneFirstAdministrator,
                    JudgedIsFree, LiveApart
<1>4. TenantsRanges'
  BY <1>1 DEF BeginSignIn, StoreSession, BeginRefresh, StoreRenewal, EndEntry, NotRenewed, SessionOnly
<1>5. LateAtMostOnce'
  <2>1. CASE BeginSignIn(c) \/ StoreSession(c) \/ BeginRefresh(c) \/ EndEntry(c)
    BY <1>1, <2>1 DEF BeginSignIn, StoreSession, BeginRefresh, EndEntry, NotRenewed, SessionOnly,
                      AdmitsSignIn, LateAtMostOnce
  <2>2. CASE StoreRenewal(c)
    BY <1>1, <2>2 DEF StoreRenewal, SessionOnly, AdmitsSignIn, LateAtMostOnce
  <2> QED
    BY <2>1, <2>2
<1> QED
  BY <1>3, <1>4, <1>5

LEMMA TenantsNextInvariant ==
  ASSUME TenantsConstantsOK, TenantsIInv, [TenantsNext]_tenantVars
  PROVE  TenantsIInv'
<1>1. CASE UNCHANGED tenantVars
  BY <1>1 DEF tenantVars, TenantsIInv, TenantsRanges, OneMaker, OneReplica, JudgedIsFree, LiveApart,
              Live, NobodyYet, AdministratorsCounted, OneFirstAdministrator, LateAtMostOnce
<1>2. CASE TenantsNext
  BY <1>2, BootstrapKeeps, CreateKeeps, StatusKeeps, SessionsKeep DEF TenantsNext
<1> QED
  BY <1>1, <1>2

(* The inductive invariant of tenants: one request at most makes a tenant of  *)
(* a code, under its lock, one replica the first administrator, and the       *)
(* codes in use are apart (create_tenant, ensure_administrator).              *)
THEOREM TenantsInvariance ==
  ASSUME TenantsConstantsOK
  PROVE  TenantsSpec => []TenantsIInv
<1>1. TenantsInit => TenantsIInv
  BY TenantsInitInvariant
<1>2. TenantsIInv /\ [TenantsNext]_tenantVars => TenantsIInv'
  BY TenantsNextInvariant
<1> QED
  BY <1>1, <1>2, PTL DEF TenantsSpec

(* Tenants, the requests that make them and the replicas that boot keep the   *)
(* shapes of their rows.                                                      *)
THEOREM TenantsTypeCorrect ==
  ASSUME TenantsConstantsOK
  PROVE  TenantsSpec => []TenantsTypeOK
<1>1. TenantsIInv => TenantsTypeOK
  BY DEF TenantsIInv, TenantsRanges, TenantsTypeOK
<1> QED
  BY <1>1, TenantsInvariance, PTL

(* However many requests and replicas there are, no two live tenants can      *)
(* spell a secret that is another's, a deployment has its first administrator *)
(* once, and a tenant that is out of use renews at most the session that was  *)
(* being renewed (create_tenant, ensure_administrator, update_tenant).        *)
THEOREM TenantsWhole ==
  ASSUME TenantsConstantsOK
  PROVE  TenantsSpec => []TenantsAreWhole
<1>1. TenantsIInv => NamespacesAreApart
  <2> SUFFICES ASSUME TenantsIInv, NEW c \in Live, NEW d \in Live
               PROVE  c = d \/ NamesInCommon(c, d) = {}
    BY DEF NamespacesAreApart, Apart, Live
  <2>1. c \in Codes /\ d \in Codes /\ (c = d \/ ~NamespacesOverlap(c, d))
    BY DEF TenantsIInv, LiveApart, Live
  <2> QED
    BY <2>1, NothingInCommon
<1>2. TenantsIInv => OneFirstAdministrator /\ OutOfUseRenewsOnce
  BY DEF TenantsIInv, AdministratorsCounted, LateAtMostOnce, OutOfUseRenewsOnce
<1> QED
  BY <1>1, <1>2, TenantsInvariance, PTL DEF TenantsAreWhole

-----------------------------------------------------------------------------
(* The external system                                                     *)

Edits ==
    [at : {"idle"}] \cup [at : {"updating"}, status : {"ACTIVE", "MAINTENANCE"}]
    \cup [at : {"switching", "auditing"}, way : Ways]
    \cup [at : {"moving"}, credential : Credentials, bound : {"from", "to"}, day : Days]

IntegrationRanges ==
    /\ IntegrationTypeOK
    /\ admin \in [Operators -> Edits]
    /\ switched \in [Ways -> Nat] /\ recorded \in [Ways -> Nat]
    /\ DOMAIN call = Calls /\ DOMAIN wire = Calls /\ DOMAIN row = Calls

Auditing(way) == {a \in Operators : admin[a].at = "auditing" /\ admin[a].way = way}

\* Where a call stands, what left for it, and its row, which is its last step.
Stage(c) ==
    /\ call[c].at \in {"idle", "finding", "begun", "chosen", "sending"}
    /\ wire[c].at \in {"idle", "left"} /\ row[c].at \in {"idle", "written", "lost"}
    /\ row[c].at # "idle" => call[c].at = "idle"
    /\ row[c].at = "idle" /\ call[c].at # "sending" => wire[c].at = "idle"

\* What a call sends was checked, and is what left.
SendsWhatPassed(c) ==
    /\ call[c].at = "sending" =>
         /\ \A address \in call[c].pinned : Passes(address)
         /\ IsSpelledIn(call[c].name, Caller)
    /\ call[c].at = "sending" /\ wire[c].at = "left" => call[c].credential = wire[c].credential
    /\ wire[c].at = "left" => Passes(wire[c].address) /\ IsSpelledIn(wire[c].name, Caller)

TellsIt(c) ==
    row[c].at = "written" =>
        /\ wire[c].at = "left" =>
             row[c].sent = [credential |-> {wire[c].credential}, authorization |-> TRUE]
        /\ row[c].status = "SUCCESS" => wire[c].at = "left" /\ wire[c].answered

CallIsTrue(c) == Stage(c) /\ SendsWhatPassed(c) /\ TellsIt(c)

IntegrationIInv ==
    /\ IntegrationRanges /\ SwitchesAreRecordedOnce /\ \A c \in Calls : CallIsTrue(c)

LEMMA IntegrationInitInvariant ==
  ASSUME IntegrationConstantsOK
  PROVE  IntegrationInit => IntegrationIInv
<1> SUFFICES ASSUME IntegrationInit
             PROVE  IntegrationIInv
  OBVIOUS
<1>1. \A way \in Ways : {a \in Operators : admin[a].at = "auditing" /\ admin[a].way = way} = {}
  BY DEF IntegrationInit, AtRest
<1>2. Cardinality({}) = 0
  BY FS_EmptySet
<1>3. SwitchesAreRecordedOnce
  BY <1>1, <1>2 DEF IntegrationInit, SwitchesAreRecordedOnce
<1>4. 1 \in Days
  BY DEF IntegrationConstantsOK
<1>5. IntegrationRanges
  BY <1>4 DEF IntegrationInit, IntegrationRanges, IntegrationTypeOK, IntegrationConstantsOK, Edits, AtRest
<1>6. \A c \in Calls : CallIsTrue(c)
  BY DEF IntegrationInit, CallIsTrue, Stage, SendsWhatPassed, TellsIt, AtRest
<1> QED
  BY <1>3, <1>5, <1>6 DEF IntegrationIInv

\* A request that becomes another leaves the count of those that have yet to
\* record a switch, or joins it with the switch, or leaves it with the record.
LEMMA EditsKeep ==
  ASSUME IntegrationConstantsOK, IntegrationIInv, NEW a \in Operators, NEW step \in Edits,
         admin' = [admin EXCEPT ![a] = step],
         NEW way \in Ways, switched' \in [Ways -> Nat], recorded' \in [Ways -> Nat],
         \/ /\ UNCHANGED <<switched, recorded>> /\ step.at # "auditing"
         \/ /\ step.at = "auditing" /\ step.way = way /\ admin[a].at # "auditing"
            /\ switched' = [switched EXCEPT ![way] = @ + 1] /\ UNCHANGED recorded
         \/ /\ step.at # "auditing" /\ admin[a].at = "auditing" /\ admin[a].way = way
            /\ recorded' = [recorded EXCEPT ![way] = @ + 1] /\ UNCHANGED switched
  PROVE  SwitchesAreRecordedOnce'
<1> SUFFICES ASSUME NEW w \in Ways
             PROVE  (recorded[w] + Cardinality({b \in Operators : admin[b].at = "auditing" /\ admin[b].way = w})
                       <= switched[w])'
  BY DEF SwitchesAreRecordedOnce
<1> DEFINE A == Auditing(w)
           B == {b \in Operators : admin'[b].at = "auditing" /\ admin'[b].way = w}
<1>1. IsFiniteSet(A) /\ Cardinality(A) \in Nat
  BY FS_Subset, FS_CardinalityType DEF IntegrationConstantsOK, Auditing
<1>2. recorded[w] + Cardinality(A) <= switched[w] /\ recorded[w] \in Nat /\ switched[w] \in Nat
  BY DEF IntegrationIInv, IntegrationRanges, SwitchesAreRecordedOnce, Auditing
<1>3. admin \in [Operators -> Edits]
  BY DEF IntegrationIInv, IntegrationRanges
<1>4. CASE UNCHANGED <<switched, recorded>> /\ step.at # "auditing"
  <2>1. B \subseteq A
    BY <1>3, <1>4 DEF Auditing
  <2>2. Cardinality(B) <= Cardinality(A) /\ Cardinality(B) \in Nat
    BY <1>1, <2>1, FS_Subset, FS_CardinalityType
  <2> QED
    BY <1>1, <1>2, <1>4, <2>2
<1>5. CASE /\ step.at = "auditing" /\ step.way = way /\ admin[a].at # "auditing"
           /\ switched' = [switched EXCEPT ![way] = @ + 1] /\ UNCHANGED recorded
  <2>1. CASE w = way
    <3>1. B = A \cup {a} /\ a \notin A
      BY <1>3, <1>5, <2>1 DEF Auditing
    <3>2. Cardinality(B) = Cardinality(A) + 1
      BY <1>1, <3>1, FS_AddElement
    <3>3. switched'[w] = switched[w] + 1
      BY <1>5, <2>1 DEF IntegrationIInv, IntegrationRanges
    <3> QED
      BY <1>1, <1>2, <1>5, <3>2, <3>3
  <2>2. CASE w # way
    <3>1. B = A
      BY <1>3, <1>5, <2>2 DEF Auditing
    <3>2. switched'[w] = switched[w]
      BY <1>5, <2>2 DEF IntegrationIInv, IntegrationRanges
    <3> QED
      BY <1>1, <1>2, <1>5, <3>1, <3>2
  <2> QED
    BY <2>1, <2>2
<1>6. CASE /\ step.at # "auditing" /\ admin[a].at = "auditing" /\ admin[a].way = way
           /\ recorded' = [recorded EXCEPT ![way] = @ + 1] /\ UNCHANGED switched
  <2>1. CASE w = way
    <3>1. B = A \ {a} /\ a \in A
      BY <1>3, <1>6, <2>1 DEF Auditing
    <3>2. Cardinality(B) = Cardinality(A) - 1
      BY <1>1, <3>1, FS_RemoveElement
    <3>3. recorded'[w] = recorded[w] + 1
      BY <1>6, <2>1 DEF IntegrationIInv, IntegrationRanges
    <3> QED
      BY <1>1, <1>2, <1>6, <3>2, <3>3
  <2>2. CASE w # way
    <3>1. B = A
      BY <1>3, <1>6, <2>2 DEF Auditing
    <3>2. recorded'[w] = recorded[w]
      BY <1>6, <2>2 DEF IntegrationIInv, IntegrationRanges
    <3> QED
      BY <1>1, <1>2, <1>6, <3>1, <3>2
  <2> QED
    BY <2>1, <2>2
<1> QED
  BY <1>4, <1>5, <1>6

\* Calls are as they were where nothing of them changes.
LEMMA CallsStay ==
  ASSUME IntegrationIInv, UNCHANGED callVars
  PROVE  \A c \in Calls : CallIsTrue(c)'
BY DEF callVars, IntegrationIInv, CallIsTrue, Stage, SendsWhatPassed, TellsIt

LEMMA AdministerKeeps ==
  ASSUME IntegrationConstantsOK, IntegrationIInv, NEW a \in Operators, Administer(a)
  PROVE  IntegrationIInv'
<1> DEFINE Statuses == {"ACTIVE", "INACTIVE", "MAINTENANCE"}
<1>0. /\ admin \in [Operators -> Edits] /\ admin[a] \in Edits /\ MaxChanges \in Nat
      /\ switched \in [Ways -> Nat] /\ recorded \in [Ways -> Nat] /\ system \in Statuses
      /\ changes \in 0..MaxChanges /\ DOMAIN credential = Credentials
  BY DEF IntegrationIInv, IntegrationRanges, IntegrationTypeOK, IntegrationConstantsOK
<1>1. ASSUME NEW step \in Edits, admin' = [admin EXCEPT ![a] = step],
             switched' \in [Ways -> Nat], recorded' \in [Ways -> Nat],
             system' \in Statuses, changes' \in 0..MaxChanges, DOMAIN credential' = Credentials,
             UNCHANGED <<endpoint, today, live, callVars>>, SwitchesAreRecordedOnce'
      PROVE  IntegrationIInv'
  <2>1. \A c \in Calls : CallIsTrue(c)'
    BY <1>1, CallsStay
  <2>2. IntegrationRanges'
    BY <1>0, <1>1 DEF IntegrationIInv, IntegrationRanges, IntegrationTypeOK, callVars
  <2> QED
    BY <1>1, <2>1, <2>2 DEF IntegrationIInv
<1>2. ASSUME NEW step \in Edits, step.at # "auditing", admin' = [admin EXCEPT ![a] = step],
             system' \in Statuses, changes' \in 0..MaxChanges, DOMAIN credential' = Credentials,
             UNCHANGED <<endpoint, today, live, callVars, switched, recorded>>
      PROVE  IntegrationIInv'
  <2>1. "on" \in Ways
    BY DEF Ways
  <2>2. SwitchesAreRecordedOnce'
    BY <1>0, <1>2, <2>1, EditsKeep
  <2> QED
    BY <1>0, <1>1, <1>2, <2>2
<1>3. [at |-> "idle"] \in Edits /\ [at |-> "idle"].at # "auditing"
  BY DEF Edits
<1>4. ASSUME NEW step \in Edits, step.at # "auditing", BeginEdit(a, step),
              UNCHANGED <<system, switched, recorded, endpoint, credential, today, live, callVars>>
       PROVE  IntegrationIInv'
  <2>1. changes' \in 0..MaxChanges /\ admin' = [admin EXCEPT ![a] = step]
    BY <1>0, <1>4 DEF BeginEdit
  <2> QED
    BY <1>0, <1>2, <1>4, <2>1
<1>5. CASE ReadForUpdate(a)
  <2>1. PICK status \in {"ACTIVE", "MAINTENANCE"} : BeginEdit(a, [at |-> "updating", status |-> status])
    BY <1>5 DEF ReadForUpdate
  <2>2. [at |-> "updating", status |-> status] \in Edits
    BY DEF Edits
  <2> QED
    BY <1>4, <1>5, <2>1, <2>2 DEF ReadForUpdate, RecordsKept, CallsGoOn
<1>6. CASE Update(a)
  <2>1. admin[a].status \in Statuses
    BY <1>0, <1>6 DEF Update, Edits
  <2> QED
    BY <1>0, <1>2, <1>3, <1>6, <2>1 DEF Update, EndEdit, AtRest, RecordsKept, CallsGoOn
<1>7. ASSUME NEW way \in Ways, ReadForSwitch(a, way)
      PROVE  IntegrationIInv'
  <2>1. [at |-> "switching", way |-> way] \in Edits
    BY DEF Edits
  <2> QED
    BY <1>4, <1>7, <2>1 DEF ReadForSwitch, RecordsKept, CallsGoOn
<1>8. CASE Switch(a)
  <2> DEFINE way == admin[a].way
  <2>1. admin[a].at = "switching" /\ way \in Ways /\ Target(way) \in Statuses
    BY <1>0, <1>8 DEF Switch, Edits, Target
  <2>2. CASE system = Target(way)
    BY <1>0, <1>2, <1>3, <1>8, <2>2 DEF Switch, EndEdit, AtRest, RecordsKept, CallsGoOn
  <2>3. CASE system # Target(way)
    <3> DEFINE step == [at |-> "auditing", way |-> way]
    <3>1. step \in Edits /\ step.at = "auditing" /\ step.way = way
      BY <2>1 DEF Edits
    <3>2. /\ system' = Target(way) /\ switched' = [switched EXCEPT ![way] = @ + 1]
          /\ admin' = [admin EXCEPT ![a] = step]
          /\ UNCHANGED <<changes, recorded, endpoint, credential, today, live, callVars>>
      BY <1>8, <2>3 DEF Switch, RecordsKept, CallsGoOn
    <3> HIDE DEF step, way
    <3>3. switched' \in [Ways -> Nat] /\ recorded' \in [Ways -> Nat]
      BY <1>0, <2>1, <3>2
    <3>4. admin[a].at # "auditing"
      BY <2>1
    <3>5. SwitchesAreRecordedOnce'
      BY <2>1, <3>1, <3>2, <3>3, <3>4, EditsKeep
    <3> QED
      BY <1>0, <1>1, <2>1, <3>1, <3>2, <3>3, <3>5
  <2> QED
    BY <2>2, <2>3
<1>9. CASE RecordSwitch(a)
  <2> DEFINE way == admin[a].way
             step == [at |-> "idle"]
  <2>1. admin[a].at = "auditing" /\ way \in Ways
    BY <1>0, <1>9 DEF RecordSwitch, Edits
  <2>2. /\ recorded' = [recorded EXCEPT ![way] = @ + 1] /\ admin' = [admin EXCEPT ![a] = step]
        /\ UNCHANGED <<system, changes, switched, endpoint, credential, today, live, callVars>>
    BY <1>9 DEF RecordSwitch, EndEdit, AtRest, RecordsKept, CallsGoOn
  <2>3. step \in Edits /\ step.at # "auditing" /\ admin[a].way = way
    BY <1>3
  <2> HIDE DEF step, way
  <2>4. switched' \in [Ways -> Nat] /\ recorded' \in [Ways -> Nat]
    BY <1>0, <2>1, <2>2
  <2>5. SwitchesAreRecordedOnce'
    BY <2>1, <2>2, <2>3, <2>4, EditsKeep
  <2> QED
    BY <1>0, <1>1, <2>2, <2>3, <2>4, <2>5
<1>10. CASE Abandon(a)
  BY <1>0, <1>2, <1>3, <1>10 DEF Abandon, EndEdit, AtRest, RecordsKept, CallsGoOn
<1>11. CASE MoveBound(a)
  <2>1. DOMAIN credential' = Credentials
    BY <1>0, <1>11 DEF MoveBound
  <2> QED
    BY <1>0, <1>2, <1>3, <1>11, <2>1 DEF MoveBound, EndEdit, AtRest, SystemKept, CallsGoOn
<1>12. ASSUME NEW k \in Credentials, NEW bound \in {"from", "to"}, ReadForWindow(a, k, bound)
       PROVE  IntegrationIInv'
  <2>1. PICK day \in Days : BeginEdit(a, [at |-> "moving", credential |-> k, bound |-> bound, day |-> day])
    BY <1>12 DEF ReadForWindow
  <2>2. [at |-> "moving", credential |-> k, bound |-> bound, day |-> day] \in Edits
    BY DEF Edits
  <2> QED
    BY <1>4, <1>12, <2>1, <2>2 DEF ReadForWindow, SystemKept, CallsGoOn
<1> QED
  BY <1>5, <1>6, <1>7, <1>8, <1>9, <1>10, <1>11, <1>12 DEF Administer

\* A statement of its own leaves requests, switches and calls as they are.
LEMMA ConfigureKeeps ==
  ASSUME IntegrationConstantsOK, IntegrationIInv, Configure
  PROVE  IntegrationIInv'
<1>0. /\ endpoint \in {"none", "ACTIVE", "INACTIVE"} /\ changes \in 0..MaxChanges /\ MaxChanges \in Nat
      /\ DOMAIN credential = Credentials
  BY DEF IntegrationIInv, IntegrationRanges, IntegrationTypeOK, IntegrationConstantsOK
<1>1. /\ UNCHANGED <<admin, system, switched, recorded, today, live, callVars>>
      /\ changes' = changes \/ (changes < MaxChanges /\ changes' = changes + 1)
      /\ endpoint' \in {"none", "ACTIVE", "INACTIVE"} /\ DOMAIN credential' = Credentials
  <2>1. CASE CreateEndpoint
    BY <1>0, <2>1 DEF CreateEndpoint, SystemKept, CallsGoOn
  <2>2. ASSUME NEW status \in {"ACTIVE", "INACTIVE"}, UpdateEndpoint(status)
        PROVE  <1>1!:
    BY <1>0, <2>2 DEF UpdateEndpoint, OneStatement, SystemKept, CallsGoOn
  <2>3. ASSUME NEW k \in Credentials, CreateCredential(k) \/ UpdateCredential(k) \/ SoftDelete(k)
        PROVE  <1>1!:
    BY <1>0, <2>3 DEF CreateCredential, UpdateCredential, SoftDelete, OneStatement, SystemKept, CallsGoOn
  <2> QED
    BY <2>1, <2>2, <2>3 DEF Configure
<1>2. changes' \in 0..MaxChanges
  BY <1>0, <1>1
<1>3. IntegrationRanges' /\ SwitchesAreRecordedOnce'
  BY <1>1, <1>2 DEF IntegrationIInv, IntegrationRanges, IntegrationTypeOK, SwitchesAreRecordedOnce, callVars
<1> QED
  BY <1>1, <1>3, CallsStay DEF IntegrationIInv

\* The steps of a call: it sends what was checked and records what it sent,
\* and its row is its last step.
LEMMA TestCallKeeps ==
  ASSUME IntegrationIInv, NEW c \in Calls, TestCall(c)
  PROVE  IntegrationIInv'
<1>1. DOMAIN call = Calls /\ DOMAIN wire = Calls /\ DOMAIN row = Calls /\ CallIsTrue(c)
  BY DEF IntegrationIInv, IntegrationRanges
<1>2. ASSUME UNCHANGED <<system, endpoint, credential, admin, changes, switched, recorded, today, live>>,
             DOMAIN call' = Calls, DOMAIN wire' = Calls, DOMAIN row' = Calls,
             \A d \in Calls \ {c} : call'[d] = call[d] /\ wire'[d] = wire[d] /\ row'[d] = row[d],
             CallIsTrue(c)'
      PROVE  IntegrationIInv'
  <2>1. IntegrationRanges' /\ SwitchesAreRecordedOnce'
    BY <1>2 DEF IntegrationIInv, IntegrationRanges, IntegrationTypeOK, SwitchesAreRecordedOnce
  <2>2. \A d \in Calls \ {c} : CallIsTrue(d)'
    BY <1>2 DEF IntegrationIInv, CallIsTrue, Stage, SendsWhatPassed, TellsIt
  <2> QED
    BY <1>2, <2>1, <2>2 DEF IntegrationIInv
<1> USE DEF adminVars, callVars, Goes, Reads, CallIsTrue, Stage, SendsWhatPassed, TellsIt
<1>3. CASE ReadSystem(c)
  BY <1>1, <1>2, <1>3 DEF ReadSystem
<1>4. CASE ReadEndpoint(c)
  BY <1>1, <1>2, <1>4 DEF ReadEndpoint
<1>5. CASE Refuse(c)
  BY <1>1, <1>2, <1>5 DEF Refuse, RecordAs, AtRest
<1>6. CASE Choose(c)
  BY <1>1, <1>2, <1>6 DEF Choose
<1>7. CASE ResolveAndCheck(c)
  <2>1. PICK answer \in SUBSET Addresses :
          Goes(c, [at |-> "sending", credential |-> call[c].credential, name |-> call[c].name,
                   pinned |-> Pinned(answer)])
    BY <1>7 DEF ResolveAndCheck
  <2>2. /\ call[c].at = "chosen" /\ IsSpelledIn(call[c].name, Caller) /\ Reads
    BY <1>7 DEF ResolveAndCheck, Admits
  <2>3. \A address \in Pinned(answer) : Passes(address)
    BY DEF Pinned
  <2> QED
    BY <1>1, <1>2, <2>1, <2>2, <2>3
<1>8. CASE RefuseSecret(c)
  BY <1>1, <1>2, <1>8 DEF RefuseSecret, RecordAs, AtRest
<1>9. ASSUME NEW answered \in BOOLEAN, Send(c, answered)
      PROVE  IntegrationIInv'
  BY <1>1, <1>2, <1>9 DEF Send
<1>10. CASE Record(c)
  <2>1. PICK status : RecordAs(c, status) /\ (status = "SUCCESS" => wire[c].at = "left" /\ wire[c].answered)
    BY <1>10 DEF Record
  <2>2. /\ call[c].at = "sending"
        /\ Sent(call[c]) = [credential |-> {call[c].credential}, authorization |-> TRUE]
    BY <1>10 DEF Record, Sent
  <2> QED
    BY <1>1, <1>2, <1>10, <2>1, <2>2 DEF Record, RecordAs, AtRest
<1>11. CASE LoseCall(c)
  BY <1>1, <1>2, <1>11 DEF LoseCall, AtRest
<1> QED
  BY <1>3, <1>4, <1>5, <1>6, <1>7, <1>8, <1>9, <1>10, <1>11 DEF TestCall

LEMMA IntegrationNextInvariant ==
  ASSUME IntegrationConstantsOK, IntegrationIInv, [IntegrationNext]_integrationVars
  PROVE  IntegrationIInv'
<1>1. ASSUME UNCHANGED <<system, endpoint, credential, admin, changes, switched, recorded, callVars>>,
             today' \in Days, live' \subseteq Others
      PROVE  IntegrationIInv'
  <2>1. IntegrationRanges' /\ SwitchesAreRecordedOnce'
    BY <1>1 DEF IntegrationIInv, IntegrationRanges, IntegrationTypeOK, SwitchesAreRecordedOnce, callVars
  <2> QED
    BY <1>1, <2>1, CallsStay DEF IntegrationIInv
<1>2. today \in Days /\ live \subseteq Others
  BY DEF IntegrationIInv, IntegrationRanges, IntegrationTypeOK
<1>3. CASE UNCHANGED integrationVars
  BY <1>1, <1>2, <1>3 DEF integrationVars, callVars
<1>4. CASE NextDay
  BY <1>1, <1>2, <1>4 DEF NextDay, adminVars
<1>5. ASSUME NEW code \in Others, TenantComes(code)
      PROVE  IntegrationIInv'
  BY <1>1, <1>2, <1>5 DEF TenantComes, adminVars
<1> QED
  BY <1>3, <1>4, <1>5, AdministerKeeps, ConfigureKeeps, TestCallKeeps DEF IntegrationNext

(* The inductive invariant of an external system: what a call holds passed    *)
(* the checks, what it left behind is what its row says, and a switch is      *)
(* counted once before it is recorded (Switch, RecordSwitch, TestCall).       *)
THEOREM IntegrationInvariance ==
  ASSUME IntegrationConstantsOK
  PROVE  IntegrationSpec => []IntegrationIInv
<1>1. IntegrationInit => IntegrationIInv
  BY IntegrationInitInvariant
<1>2. IntegrationIInv /\ [IntegrationNext]_integrationVars => IntegrationIInv'
  BY IntegrationNextInvariant
<1> QED
  BY <1>1, <1>2, PTL DEF IntegrationSpec

(* Systems, credentials, calls and their rows keep their shapes.              *)
THEOREM IntegrationTypeCorrect ==
  ASSUME IntegrationConstantsOK
  PROVE  IntegrationSpec => []IntegrationTypeOK
<1>1. IntegrationIInv => IntegrationTypeOK
  BY DEF IntegrationIInv, IntegrationRanges
<1> QED
  BY <1>1, IntegrationInvariance, PTL

(* However many operators switch, edit and call at once, each record tells    *)
(* what was done: the rows of calls what left, and the audit each switch once *)
(* (test_call, activate_external_system, deactivate_external_system).         *)
THEOREM RecordsTrue ==
  ASSUME IntegrationConstantsOK
  PROVE  IntegrationSpec => []RecordsAreTrue
<1>1. IntegrationIInv => RecordsAreTrue
  BY DEF IntegrationIInv, CallIsTrue, SendsWhatPassed, TellsIt, RecordsAreTrue, RowTellsWhatLeft
<1> QED
  BY <1>1, IntegrationInvariance, PTL

(* A system that is switched off comes back by its activation alone: an edit  *)
(* that was decided before is refused under the lock (update_external_system, *)
(* activate_external_system).                                                 *)
THEOREM ActivationRevives ==
  ASSUME IntegrationConstantsOK
  PROVE  IntegrationSpec => OnlyActivationRevives
<1> DEFINE Revived == \E a \in Operators : admin[a].at = "switching" /\ admin[a].way = "on"
                                           /\ admin'[a].at = "auditing"
<1>1. ASSUME IntegrationIInv, [IntegrationNext]_integrationVars,
             system = "INACTIVE", system' # "INACTIVE"
      PROVE  Revived
  <2>1. admin \in [Operators -> Edits]
    BY <1>1 DEF IntegrationIInv, IntegrationRanges
  <2>2. ASSUME UNCHANGED system
        PROVE  FALSE
    BY <1>1, <2>2
  <2>3. CASE UNCHANGED integrationVars \/ Configure \/ NextDay \/ \E code \in Others : TenantComes(code)
    <3>1. UNCHANGED system
      BY <2>3 DEF integrationVars, Configure, CreateEndpoint, UpdateEndpoint, CreateCredential,
                  UpdateCredential, SoftDelete, SystemKept, NextDay, TenantComes, adminVars
    <3> QED
      BY <2>2, <3>1
  <2>4. ASSUME NEW c \in Calls, TestCall(c)
        PROVE  FALSE
    <3>1. UNCHANGED system
      BY <2>4 DEF TestCall, ReadSystem, ReadEndpoint, Refuse, Choose, ResolveAndCheck, RefuseSecret, Send,
                  Record, LoseCall, Reads, adminVars
    <3> QED
      BY <2>2, <3>1
  <2>5. ASSUME NEW a \in Operators, Administer(a)
        PROVE  Revived
    <3>1. CASE Switch(a)
      <4>1. /\ admin[a].at = "switching" /\ admin[a].way \in Ways
            /\ system # Target(admin[a].way) /\ system' = Target(admin[a].way)
            /\ admin' = [admin EXCEPT ![a] = [at |-> "auditing", way |-> admin[a].way]]
        BY <1>1, <2>1, <3>1 DEF Switch, Edits, EndEdit
      <4>2. admin[a].way = "on" /\ admin'[a].at = "auditing"
        BY <1>1, <2>1, <4>1 DEF Target, Ways
      <4> QED
        BY <4>1, <4>2
    <3>2. ASSUME ~Switch(a)
          PROVE  UNCHANGED system
      BY <1>1, <2>5, <3>2 DEF Administer, ReadForUpdate, Update, ReadForSwitch, RecordSwitch, Abandon,
                              MoveBound, ReadForWindow, SystemKept
    <3> QED
      BY <2>2, <3>1, <3>2
  <2> QED
    BY <1>1, <2>3, <2>4, <2>5 DEF IntegrationNext
<1>2. IntegrationIInv /\ [IntegrationNext]_integrationVars
        => [system = "INACTIVE" /\ system' # "INACTIVE" => Revived]_integrationVars
  BY <1>1
<1> QED
  BY <1>2, IntegrationInvariance, PTL DEF IntegrationSpec, OnlyActivationRevives

-----------------------------------------------------------------------------
(* Drafts, their types and their forms                                     *)

Rows == Types \cup Documents \cup Forms \cup Parties \cup {"counter"}

RequestRows ==
    [at : Places, on : Types \cup Documents \cup Forms \cup {None},
     locks : SUBSET Rows, shares : SUBSET Rows,
     form : Forms \cup {None}, text : Texts \cup {None}, party : Parties \cup {None},
     flows : SUBSET (Flows \cup SUBSET Flows), number : Nat]

Published(f) == f \in Forms /\ form[f] # Absent /\ form[f].status = "PUBLISHED"
Made == {d \in Documents : doc[d] # Absent}

\* What types and documents bind stays as it was published, and the highest
\* revision is there to be read.
BindsThePublished ==
    /\ \A t \in Types : type[t] # Absent /\ type[t].form # None => Published(type[t].form)
    /\ \A d \in Made : doc[d].form # None => Published(doc[d].form)
HighestIsThere ==
    \/ \A f \in Forms : form[f] = Absent
    \/ \E g \in Forms : form[g] # Absent
         /\ \A f \in Forms : form[f] # Absent => form[f].revision <= form[g].revision

LocksExclude ==
    \A r, q \in Requests :
        r # q => request[r].locks \cap (request[q].locks \cup request[q].shares) = {}

\* What each request has read of the rows that it holds is so still.
Creates(r) ==
    LET q == request[r]
    IN  /\ q.at \in {"typed", "numbered"} => q.on \in Types
        /\ q.at = "checked" => q.on \in Types \cup Documents
        /\ q.at \in {"typed", "checked", "numbered"} /\ q.on \in Types =>
             /\ q.on \in q.locks /\ type[q.on].state = "live"
             /\ q.form = type[q.on].form /\ q.text = DefinitionOf(q.form)
        /\ q.at = "numbered" => "counter" \in q.locks /\ q.number = counter
Updates(r) ==
    LET q == request[r]
    IN  /\ q.at \in {"opened", "governed"} => q.on \in Documents
        /\ q.at \in {"opened", "checked", "governed"} /\ q.on \in Documents =>
             doc[q.on].state = "live" /\ q.on \in q.locks
        /\ q.at = "governed" =>
             q.text = HeldTo(q.on) /\ (doc[q.on].form = None => doc[q.on].type \in q.locks)
Links(r) ==
    LET q == request[r]
    IN  /\ q.shares \cap retired = {}
        /\ q.at \in {"typed", "opened", "checked", "numbered", "governed"} /\ q.party # None =>
             q.party \in q.shares \/ (q.on \in Documents /\ doc[q.on].party = q.party)
Binds(r) ==
    LET q == request[r]
    IN  /\ q.at \in {"binding", "read"} => q.flows \in SUBSET Flows
        /\ q.at \in {"read", "compared", "bound", "retiring"} => q.on \in Types
        /\ q.at = "binding" /\ q.form # None => Published(q.form)
        /\ q.at \in {"compared", "bound", "retiring"} =>
             q.on \in q.locks /\ type[q.on].state = "live"
        /\ q.at \in {"compared", "bound"} => \A flows \in q.flows : type[q.on].flows = flows
        /\ q.at = "bound" /\ q.form # type[q.on].form =>
             MayRebind(q.on) /\ (q.form # None => Published(q.form))
Revises(r) ==
    LET q == request[r]
    IN  /\ q.at \in {"revising", "saving"} => q.text \in Texts
        /\ q.at = "revising" => q.number # 0
        /\ q.at \in {"saving", "publishing"} => q.on \in Forms
        /\ q.at = "publishing" =>
             q.on \in q.locks /\ IsDraft(q.on) /\ form[q.on].text \in Publishable
Stands(r) == Creates(r) /\ Updates(r) /\ Links(r) /\ Binds(r) /\ Revises(r)

DraftsIInv ==
    /\ DraftsTypeOK /\ request \in [Requests -> RequestRows]
    /\ DataFitsItsForm /\ DraftsHaveTheirRecords
    /\ ReferencesAreGapless /\ IsFiniteSet(Made)
    /\ BindsThePublished /\ HighestIsThere
    /\ LocksExclude /\ \A r \in Requests : Stands(r)

LEMMA FreshIsAbsent ==
  ASSUME NEW rows, HasFresh(rows)
  PROVE  Fresh(rows) \in DOMAIN rows /\ rows[Fresh(rows)] = Absent
BY DEF HasFresh, Fresh

LEMMA NamesDiffer ==
  ASSUME DraftsConstantsOK
  PROVE  /\ \A t \in Types : t \notin Documents /\ t \notin Forms /\ t \notin Parties /\ t # "counter" /\ t # None
         /\ \A d \in Documents : d \notin Forms /\ d \notin Parties /\ d # "counter" /\ d # None
         /\ \A f \in Forms : f \notin Parties /\ f # "counter" /\ f # None
         /\ \A p \in Parties : p # "counter" /\ p # None
         /\ \A x \in Texts : x # None
BY DEF DraftsConstantsOK

LEMMA RowsAre ==
  ASSUME DraftsConstantsOK, DraftsIInv
  PROVE  /\ \A t \in Types : type[t] = Absent \/ type[t] \in TypeRows
         /\ \A f \in Forms : form[f] = Absent \/ form[f] \in FormRows
         /\ \A d \in Documents : doc[d] = Absent \/ doc[d] \in DocRows
         /\ DOMAIN type = Types /\ DOMAIN form = Forms /\ DOMAIN doc = Documents
         /\ \A r \in Requests : request[r] \in RequestRows
         /\ DOMAIN request = Requests /\ counter \in Nat \ {0} /\ retired \subseteq Parties
         /\ Absent.state = "absent" /\ Absent \notin TypeRows \cup FormRows \cup DocRows
BY DEF DraftsIInv, DraftsTypeOK, Absent, TypeRows, FormRows, DocRows

\* A request whose rows are as it has read them stands where it stood.
LEMMA OthersStand ==
  ASSUME DraftsConstantsOK, DraftsIInv, NEW q \in Requests, NEW v, request[q] = v, request'[q] = v,
         \A t \in Types : t \in v.locks /\ type[t].state = "live" => type'[t] = type[t],
         \A d \in Documents : d \in v.locks /\ doc[d].state = "live" => doc'[d] = doc[d],
         \A f \in Forms : Published(f) => Published(f)' /\ form'[f].text = form[f].text,
         \A f \in Forms : f \in v.locks /\ form[f].state = "live" => form'[f] = form[f],
         "counter" \in v.locks => counter' = counter,
         v.shares \cap retired' \subseteq retired,
         \A d \in Documents : doc'[d].state = "live" =>
            \/ doc[d].state = "live" /\ doc'[d].type = doc[d].type /\ doc'[d].form = doc[d].form
            \/ doc'[d].type \notin v.locks
  PROVE  Stands(q)'
<1>1. Stands(q) /\ v \in RequestRows /\ v.form \in Forms \cup {None}
  BY RowsAre DEF DraftsIInv, RequestRows
<1>2. ASSUME NEW f \in Forms \cup {None}, f # None => Published(f)
      PROVE  DefinitionOf(f)' = DefinitionOf(f)
  BY <1>2 DEF DefinitionOf
<1>3. ASSUME NEW t \in Types, t \in v.locks, type[t].state = "live"
      PROVE  /\ type'[t] = type[t] /\ type[t].form \in Forms \cup {None}
             /\ type[t].form # None => Published(type[t].form)
             /\ DefinitionOf(type[t].form)' = DefinitionOf(type[t].form)
  <2>1. type'[t] = type[t] /\ type[t] # Absent
    BY <1>3 DEF Absent
  <2>2. type[t] \in TypeRows
    BY <2>1, RowsAre
  <2> PICK f : f = type[t].form
    OBVIOUS
  <2>3. f \in Forms \cup {None} /\ (f # None => Published(f)) /\ f = type'[t].form
    BY <2>1, <2>2 DEF TypeRows, DraftsIInv, BindsThePublished
  <2>4. DefinitionOf(f)' = DefinitionOf(f)
    BY <1>2, <2>3
  <2> QED
    BY <2>1, <2>3, <2>4 DEF DefinitionOf
<1>4. Creates(q)'
  <2>1. ASSUME NEW t \in Types, v.on = t, t \in v.locks, type[t].state = "live",
               v.form = type[t].form, v.text = DefinitionOf(v.form)
        PROVE  type'[t] = type[t] /\ v.text = DefinitionOf(v.form)'
    BY <1>2, <1>3, <2>1
  <2>2. v.at \in {"typed", "checked", "numbered"} /\ v.on \in Types =>
          /\ v.on \in v.locks /\ type'[v.on].state = "live"
          /\ v.form = type'[v.on].form /\ v.text = DefinitionOf(v.form)'
    BY <1>1, <2>1 DEF Stands, Creates
  <2>3. v.at = "numbered" => "counter" \in v.locks /\ v.number = counter'
    BY <1>1 DEF Stands, Creates
  <2> QED
    BY <1>1, <2>2, <2>3 DEF Stands, Creates, DefinitionOf
<1>5. Updates(q)'
  <2>1. ASSUME NEW d \in Documents, v.at = "governed", v.on = d
        PROVE  v.text = HeldTo(d)' /\ (doc'[d].form = None => doc'[d].type \in v.locks)
    <3>1. /\ doc[d].state = "live" /\ d \in v.locks /\ v.text = HeldTo(d)
          /\ doc[d].form = None => doc[d].type \in v.locks
      BY <1>1, <2>1 DEF Stands, Updates
    <3>2. doc'[d] = doc[d] /\ doc[d] \in DocRows /\ d \in Made
      BY <3>1, RowsAre DEF Absent, Made
    <3> PICK f, t : f = doc[d].form /\ t = doc[d].type
      OBVIOUS
    <3>3. f \in Forms \cup {None} /\ t \in Types /\ type[t].state = "live"
      BY <3>1, <3>2 DEF DocRows, DraftsIInv, DraftsHaveTheirRecords, LiveDocs
    <3>4. CASE f # None
      <4>1. Published(f)
        BY <3>2, <3>4 DEF DraftsIInv, BindsThePublished
      <4>2. DefinitionOf(f)' = DefinitionOf(f)
        BY <1>2, <3>3, <4>1
      <4> QED
        BY <3>1, <3>2, <3>4, <4>2 DEF HeldTo, DefinitionOf
    <3>5. CASE f = None
      <4>1. type'[t] = type[t] /\ DefinitionOf(type[t].form)' = DefinitionOf(type[t].form)
        BY <1>3, <3>1, <3>3, <3>5
      <4> QED
        BY <3>1, <3>2, <3>5, <4>1 DEF HeldTo, DefinitionOf
    <3> QED
      BY <3>4, <3>5
  <2>2. \A d \in Documents : d \in v.locks /\ doc[d].state = "live" => doc'[d].state = "live"
    OBVIOUS
  <2>3. /\ v.at \in {"opened", "governed"} => v.on \in Documents
        /\ v.at \in {"opened", "checked", "governed"} /\ v.on \in Documents =>
             doc[v.on].state = "live" /\ v.on \in v.locks
    BY <1>1 DEF Stands, Updates
  <2>4. v.at = "governed" => v.text = HeldTo(v.on)' /\ (doc'[v.on].form = None => doc'[v.on].type \in v.locks)
    BY <2>1, <2>3
  <2> QED
    BY <2>2, <2>3, <2>4 DEF Updates, HeldTo, DefinitionOf
<1>6. Links(q)'
  <2>1. ASSUME NEW d \in Documents, v.on = d,
               v.at \in {"typed", "opened", "checked", "numbered", "governed"}
        PROVE  doc'[d] = doc[d]
    BY <1>1, <2>1, NamesDiffer DEF Stands, Creates, Updates
  <2> QED
    BY <1>1, <2>1 DEF Stands, Links
<1>7. Binds(q)'
  <2>1. ASSUME NEW t \in Types, v.on = t, v.at \in {"compared", "bound", "retiring"}
        PROVE  t \in v.locks /\ type'[t] = type[t] /\ type[t].state = "live"
    BY <1>1, <2>1 DEF Stands, Binds
  <2>2. ASSUME NEW t \in Types, t \in v.locks, MayRebind(t)
        PROVE  MayRebind(t)'
    BY <2>2 DEF MayRebind, Of, LiveDocs
  <2>3. v.form # None => v.form \in Forms
    BY <1>1 DEF RequestRows
  <2>4. ASSUME NEW t \in Types, v.at = "bound", v.on = t, v.form # type'[t].form
        PROVE  MayRebind(t)' /\ (v.form # None => Published(v.form)')
    BY <1>1, <2>1, <2>2, <2>3, <2>4 DEF Stands, Binds
  <2>5. /\ v.at \in {"binding", "read"} => v.flows \in SUBSET Flows
        /\ v.at \in {"read", "compared", "bound", "retiring"} => v.on \in Types
        /\ v.at = "binding" /\ v.form # None => Published(v.form)'
    BY <1>1, <2>3 DEF Stands, Binds
  <2>6. /\ v.at \in {"compared", "bound", "retiring"} =>
             v.on \in v.locks /\ type'[v.on].state = "live"
        /\ v.at \in {"compared", "bound"} => \A flows \in v.flows : type'[v.on].flows = flows
    BY <1>1, <2>1, <2>5 DEF Stands, Binds
  <2>7. v.at = "bound" /\ v.form # type'[v.on].form =>
          MayRebind(v.on)' /\ (v.form # None => Published(v.form)')
    BY <2>4, <2>5
  <2> QED
    BY <2>5, <2>6, <2>7 DEF Binds, MayRebind, Of, LiveDocs, Published
<1>8. Revises(q)'
  BY <1>1 DEF Stands, Revises, IsDraft
<1> QED
  BY <1>4, <1>5, <1>6, <1>7, <1>8 DEF Stands

\* A request that has taken only what was free, and stands, changes nothing else.
LEMMA RequestMoves ==
  ASSUME DraftsConstantsOK, DraftsIInv, RequestsOnly, NEW r \in Requests, NEW q \in RequestRows,
         request' = [request EXCEPT ![r] = q],
         \A x \in q.locks : x \in request[r].locks \/ Free(x),
         \A x \in q.shares : x \in request[r].shares \/ Sharable(x),
         Stands(r)'
  PROVE  DraftsIInv'
<1>1. /\ UNCHANGED <<type, form, doc, counter, retired>>
      /\ request' \in [Requests -> RequestRows]
      /\ request'[r] = q /\ \A s \in Requests \ {r} : request'[s] = request[s]
  BY DEF RequestsOnly, DraftsIInv
<1>2. \A s \in Requests : Stands(s)'
  <2> SUFFICES ASSUME NEW s \in Requests, s # r
               PROVE  Stands(s)'
    OBVIOUS
  <2> PICK v : v = request[s]
    OBVIOUS
  <2>1. \A f \in Forms : Published(f) => Published(f)'
    BY <1>1 DEF Published
  <2> QED
    BY <1>1, <2>1, OthersStand
<1>3. LocksExclude'
  BY <1>1 DEF DraftsIInv, LocksExclude, Free, Sharable
<1>4. DraftsTypeOK'
  BY <1>1 DEF RequestRows, DraftsIInv, DraftsTypeOK
<1>5. DataFitsItsForm' /\ DraftsHaveTheirRecords'
  BY <1>1 DEF DraftsIInv, DataFitsItsForm, DraftsHaveTheirRecords, LiveDocs, HeldTo, DefinitionOf
<1>6. ReferencesAreGapless' /\ IsFiniteSet(Made)'
  BY <1>1 DEF DraftsIInv, ReferencesAreGapless, Made
<1>7. BindsThePublished' /\ HighestIsThere'
  BY <1>1 DEF DraftsIInv, BindsThePublished, HighestIsThere, Published, Made
<1> QED
  BY <1>1, <1>2, <1>3, <1>4, <1>5, <1>6, <1>7 DEF DraftsIInv

LEMMA NoRequestStands ==
  ASSUME NEW r \in Requests, request'[r] = NoRequest
  PROVE  Stands(r)' /\ NoRequest \in RequestRows
BY DEF NoRequest, Stands, Creates, Updates, Links, Binds, Revises, RequestRows, Places

LEMMA HighestIsANumber ==
  ASSUME DraftsConstantsOK, DraftsIInv
  PROVE  HighestRevision \in Nat
<1> DEFINE taken == {form[f].revision : f \in {g \in Forms : form[g] # Absent}}
<1>1. taken \subseteq Nat
  BY RowsAre DEF FormRows
<1>2. CASE taken = {}
  BY <1>2 DEF HighestRevision
<1>3. CASE taken # {}
  <2>1. \E n \in taken : \A m \in taken : m <= n
    BY <1>3 DEF DraftsIInv, HighestIsThere
  <2>2. (CHOOSE n \in taken : \A m \in taken : m <= n) \in taken
    BY <2>1
  <2> QED
    BY <1>1, <1>3, <2>2 DEF HighestRevision
<1> QED
  BY <1>2, <1>3

\* The steps that only read, lock and compare.
LEMMA FailKeeps ==
  ASSUME DraftsConstantsOK, DraftsIInv, NEW r \in Requests, Fail(r)
  PROVE  DraftsIInv'
<1>1. request' = [request EXCEPT ![r] = NoRequest] /\ RequestsOnly
  BY DEF Fail, EndRequest
<1>2. request'[r] = NoRequest
  BY <1>1 DEF DraftsIInv
<1>3. NoRequest.locks = {} /\ NoRequest.shares = {}
  BY DEF NoRequest
<1> QED
  BY <1>1, <1>2, <1>3, NoRequestStands, RequestMoves

LEMMA OpeningKeeps ==
  ASSUME DraftsConstantsOK, DraftsIInv, NEW r \in Requests, 
         \/ \E t \in Types : LockPinnedForm(r, t)
         \/ \E d \in Documents : OpenDraft(r, d)
  PROVE  DraftsIInv'
<1>1. ASSUME NEW t \in Types, LockPinnedForm(r, t)
      PROVE  DraftsIInv'
  <2> DEFINE q == [NoRequest EXCEPT !.at = "typed", !.on = t, !.locks = {t},
                                    !.form = type[t].form, !.text = DefinitionOf(type[t].form)]
  <2>1. type[t] \in TypeRows /\ type[t].state = "live" /\ Free(t) /\ RequestsOnly
    BY <1>1, RowsAre DEF LockPinnedForm, Absent
  <2> PICK f, x : f = type[t].form /\ x = DefinitionOf(f)
    OBVIOUS
  <2>2. f \in Forms \cup {None} /\ (f # None => form[f] \in FormRows)
    BY <2>1, RowsAre DEF TypeRows, DraftsIInv, BindsThePublished, Published, Absent
  <2>3. x \in Texts \cup {None}
    BY <2>2 DEF DefinitionOf, FormRows
  <2>4. q \in RequestRows
    BY <2>2, <2>3 DEF NoRequest, RequestRows, Places, Rows
  <2>5. q.at = "typed" /\ q.on = t /\ q.locks = {t} /\ q.shares = {} /\ q.form = f /\ q.text = x /\ q.party = None
    BY DEF NoRequest
  <2>6. request' = [request EXCEPT ![r] = q]
    BY <1>1 DEF LockPinnedForm
  <2> HIDE DEF q
  <2>7. request'[r] = q
    BY <2>6 DEF DraftsIInv
  <2>8. Stands(r)'
    BY <2>1, <2>5, <2>7, NamesDiffer DEF RequestsOnly, Stands, Creates, Updates, Links, Binds, Revises, DefinitionOf
  <2> QED
    BY <2>1, <2>4, <2>5, <2>6, <2>8, RequestMoves
<1>2. ASSUME NEW d \in Documents, OpenDraft(r, d)
      PROVE  DraftsIInv'
  <2> DEFINE q == [NoRequest EXCEPT !.at = "opened", !.on = d, !.locks = {d}, !.party = doc[d].party]
  <2>1. doc[d] \in DocRows /\ doc[d].state = "live" /\ Free(d) /\ RequestsOnly
    BY <1>2, RowsAre DEF OpenDraft, LiveDocs, Absent
  <2>4. q \in RequestRows
    BY <2>1 DEF NoRequest, RequestRows, Places, Rows, DocRows
  <2>5. q.at = "opened" /\ q.on = d /\ q.locks = {d} /\ q.shares = {} /\ q.party = doc[d].party
    BY DEF NoRequest
  <2>6. request' = [request EXCEPT ![r] = q]
    BY <1>2 DEF OpenDraft
  <2> HIDE DEF q
  <2>7. request'[r] = q
    BY <2>6 DEF DraftsIInv
  <2>8. Stands(r)'
    BY <2>1, <2>5, <2>7, NamesDiffer DEF RequestsOnly, Stands, Creates, Updates, Links, Binds, Revises
  <2> QED
    BY <2>1, <2>4, <2>5, <2>6, <2>8, RequestMoves
<1> QED
  BY <1>1, <1>2

\* Links: a party that a request names is held, or is the draft's already.
LEMMA LinkingKeeps ==
  ASSUME DraftsConstantsOK, DraftsIInv, NEW r \in Requests,
         \/ \E p \in Parties : LinkEntity(r, p)
         \/ \E cleared \in BOOLEAN : LinkNothing(r, cleared)
  PROVE  DraftsIInv'
<1> PICK v : v = request[r]
  OBVIOUS
<1>0. v \in RequestRows /\ Stands(r) /\ r \in DOMAIN request
  BY RowsAre DEF DraftsIInv
<1>1. ASSUME NEW p \in Parties \cup {None}, NEW shares \in SUBSET Rows, RequestsOnly,
             request' = [request EXCEPT ![r] = [v EXCEPT !.at = "checked", !.party = p, !.shares = shares]],
             v.at \in {"typed", "opened"}, shares \cap retired = {},
             \A x \in shares : x \in request[r].shares \/ Sharable(x),
             p = None \/ p \in shares \/ (p = v.party /\ shares = v.shares)
      PROVE  DraftsIInv'
  <2> DEFINE q == [v EXCEPT !.at = "checked", !.party = p, !.shares = shares]
  <2>1. /\ q.at = "checked" /\ q.on = v.on /\ q.locks = v.locks /\ q.shares = shares /\ q.form = v.form
        /\ q.text = v.text /\ q.party = p /\ q.flows = v.flows /\ q.number = v.number /\ q \in RequestRows
    BY <1>0, <1>1 DEF RequestRows, Places, Rows
  <2>2. request' = [request EXCEPT ![r] = q]
    BY <1>1
  <2> HIDE DEF q
  <2>3. request'[r] = q
    BY <1>0, <2>2
  <2>4. UNCHANGED <<type, form, doc, counter, retired>>
    BY <1>1 DEF RequestsOnly
  <2>5. Creates(r)'
    BY <1>0, <1>1, <2>1, <2>3, <2>4, NamesDiffer DEF Stands, Creates, Updates, DefinitionOf
  <2>6. Updates(r)'
    BY <1>0, <1>1, <2>1, <2>3, <2>4, NamesDiffer DEF Stands, Creates, Updates
  <2>7. Links(r)'
    BY <1>0, <1>1, <2>1, <2>3, <2>4, NamesDiffer DEF Stands, Links
  <2>8. Binds(r)' /\ Revises(r)'
    BY <2>1, <2>3 DEF Binds, Revises
  <2> QED
    BY <1>1, <2>1, <2>2, <2>5, <2>6, <2>7, <2>8, RequestMoves DEF Stands
<1>2. ASSUME NEW p \in Parties, LinkEntity(r, p)
      PROVE  DraftsIInv'
  <2>1. request' = [request EXCEPT ![r] = [v EXCEPT !.at = "checked", !.party = p, !.shares = {p}]]
    BY <1>0, <1>2 DEF LinkEntity, RequestRows
  <2>2. /\ v.at \in {"typed", "opened"} /\ {p} \cap retired = {} /\ Sharable(p) /\ RequestsOnly
        /\ {p} \in SUBSET Rows
    BY <1>2 DEF LinkEntity, Rows
  <2>3. p \in Parties \cup {None} /\ p \in {p} /\ \A x \in {p} : Sharable(x)
    BY <2>2
  <2> DEFINE held == {p}
  <2>4. /\ held \in SUBSET Rows /\ held \cap retired = {} /\ p \in held
        /\ request' = [request EXCEPT ![r] = [v EXCEPT !.at = "checked", !.party = p, !.shares = held]]
        /\ \A x \in held : x \in request[r].shares \/ Sharable(x)
    BY <2>1, <2>2, <2>3
  <2> HIDE DEF held
  <2> QED
    BY <1>1, <2>2, <2>3, <2>4
<1>3. ASSUME NEW cleared \in BOOLEAN, LinkNothing(r, cleared)
      PROVE  DraftsIInv'
  <2> PICK p : p = IF cleared THEN None ELSE v.party
    OBVIOUS
  <2> DEFINE w == [v EXCEPT !.at = "checked", !.party = p]
  <2>3. w = [v EXCEPT !.at = "checked", !.party = p, !.shares = v.shares]
    BY <1>0 DEF RequestRows
  <2>4. request' = [request EXCEPT ![r] = w]
    BY <1>0, <1>3 DEF LinkNothing, RequestRows
  <2>1. request' = [request EXCEPT ![r] = [v EXCEPT !.at = "checked", !.party = p, !.shares = v.shares]]
    BY <2>3, <2>4
  <2>2. /\ v.at \in {"typed", "opened"} /\ RequestsOnly /\ v.shares \cap retired = {}
        /\ p \in Parties \cup {None} /\ v.shares \in SUBSET Rows
    BY <1>0, <1>3 DEF LinkNothing, Stands, Links, RequestRows
  <2> QED
    BY <1>1, <2>1, <2>2
<1> QED
  BY <1>2, <1>3

LEMMA AllocateKeeps ==
  ASSUME DraftsConstantsOK, DraftsIInv, NEW r \in Requests, AllocateReference(r)
  PROVE  DraftsIInv'
<1> PICK v : v = request[r]
  OBVIOUS
<1> DEFINE q == [v EXCEPT !.at = "numbered", !.number = counter, !.locks = @ \cup {"counter"}]
<1>0. v \in RequestRows /\ Stands(r) /\ r \in DOMAIN request /\ counter \in Nat
  BY RowsAre DEF DraftsIInv
<1>1. v.at = "checked" /\ v.on \in Types /\ Free("counter") /\ RequestsOnly
  BY DEF AllocateReference
<1>2. request' = [request EXCEPT ![r] = q]
  BY <1>0 DEF AllocateReference, RequestRows
<1>3. /\ q.at = "numbered" /\ q.on = v.on /\ q.locks = v.locks \cup {"counter"} /\ q.shares = v.shares
      /\ q.form = v.form /\ q.text = v.text /\ q.party = v.party /\ q.number = counter
      /\ q \in RequestRows
  BY <1>0 DEF RequestRows, Places, Rows
<1> HIDE DEF q
<1>4. request'[r] = q /\ UNCHANGED <<type, form, doc, counter, retired>>
  BY <1>0, <1>1, <1>2 DEF RequestsOnly
<1>5. Creates(r)'
  BY <1>0, <1>1, <1>3, <1>4 DEF Stands, Creates, DefinitionOf
<1>6. Links(r)'
  BY <1>0, <1>1, <1>3, <1>4 DEF Stands, Links
<1>7. Updates(r)' /\ Binds(r)' /\ Revises(r)'
  BY <1>3, <1>4 DEF Updates, Binds, Revises
<1> QED
  BY <1>1, <1>2, <1>3, <1>5, <1>6, <1>7, RequestMoves DEF Stands

LEMMA FindingTheFormKeeps ==
  ASSUME DraftsConstantsOK, DraftsIInv, NEW r \in Requests, PinnedFormOf(r)
  PROVE  DraftsIInv'
<1> PICK v, d : v = request[r] /\ d = v.on
  OBVIOUS
<1>0. v \in RequestRows /\ Stands(r) /\ r \in DOMAIN request
  BY RowsAre DEF DraftsIInv
<1>1. v.at = "checked" /\ d \in Documents /\ RequestsOnly
  BY DEF PinnedFormOf
<1>2. doc[d].state = "live" /\ d \in v.locks /\ d \in Made /\ d \in LiveDocs
  BY <1>0, <1>1 DEF Stands, Updates, Made, LiveDocs, Absent
<1> PICK f, t : f = doc[d].form /\ t = doc[d].type
  OBVIOUS
<1>3. f \in Forms \cup {None} /\ t \in Types /\ (f # None => Published(f)) /\ type[t].state = "live"
  BY <1>1, <1>2, RowsAre DEF Made, DocRows, DraftsIInv, BindsThePublished, DraftsHaveTheirRecords
<1>4. /\ type[t].form \in Forms \cup {None}
      /\ type[t].form # None => Published(type[t].form)
  BY <1>3, RowsAre DEF TypeRows, Absent, DraftsIInv, BindsThePublished
<1>5. ASSUME NEW g \in Forms \cup {None}, g # None => Published(g)
      PROVE  DefinitionOf(g) \in Texts \cup {None}
  BY <1>5, RowsAre DEF DefinitionOf, Published, FormRows
<1>6. ASSUME NEW locks \in SUBSET Rows, NEW x, x = HeldTo(d), x \in Texts \cup {None},
             request' = [request EXCEPT ![r] = [v EXCEPT !.at = "governed", !.locks = locks, !.text = x]],
             v.locks \subseteq locks, \A y \in locks : y \in v.locks \/ Free(y),
             f = None => t \in locks
      PROVE  DraftsIInv'
  <2> DEFINE q == [v EXCEPT !.at = "governed", !.locks = locks, !.text = x]
  <2>1. /\ q.at = "governed" /\ q.on = d /\ q.locks = locks /\ q.shares = v.shares
        /\ q.text = x /\ q.party = v.party /\ q \in RequestRows
    BY <1>0, <1>6 DEF RequestRows, Places
  <2>2. request' = [request EXCEPT ![r] = q]
    BY <1>6
  <2> HIDE DEF q
  <2>3. request'[r] = q /\ UNCHANGED <<type, form, doc, counter, retired>>
    BY <1>0, <1>1, <2>2 DEF RequestsOnly
  <2>4. Updates(r)'
    BY <1>1, <1>2, <1>6, <2>1, <2>3 DEF Updates, HeldTo, DefinitionOf
  <2>5. Links(r)'
    BY <1>0, <1>1, <2>1, <2>3 DEF Stands, Links
  <2>6. Creates(r)' /\ Binds(r)' /\ Revises(r)'
    BY <2>1, <2>3 DEF Creates, Binds, Revises
  <2> QED
    BY <1>1, <1>6, <2>1, <2>2, <2>4, <2>5, <2>6, RequestMoves DEF Stands
<1>7. CASE f # None
  <2>1. DefinitionOf(f) = HeldTo(d)
    BY <1>7 DEF HeldTo
  <2>4. request' = [request EXCEPT ![r] = [v EXCEPT !.at = "governed", !.text = DefinitionOf(f)]]
    BY <1>0, <1>7 DEF PinnedFormOf, RequestRows
  <2>5. [v EXCEPT !.at = "governed", !.locks = v.locks, !.text = DefinitionOf(f)]
          = [v EXCEPT !.at = "governed", !.text = DefinitionOf(f)]
    BY <1>0 DEF RequestRows
  <2>2. request' = [request EXCEPT ![r] = [v EXCEPT !.at = "governed", !.locks = v.locks, !.text = DefinitionOf(f)]]
    BY <2>4, <2>5
  <2>3. DefinitionOf(f) \in Texts \cup {None} /\ v.locks \in SUBSET Rows
    BY <1>0, <1>3, <1>5 DEF RequestRows
  <2> QED
    BY <1>6, <1>7, <2>1, <2>2, <2>3
<1>8. CASE f = None
  <2>1. DefinitionOf(type[t].form) = HeldTo(d)
    BY <1>8 DEF HeldTo
  <2>2. request' = [request EXCEPT ![r] = [v EXCEPT !.at = "governed", !.locks = v.locks \cup {t},
                                                    !.text = DefinitionOf(type[t].form)]]
    BY <1>0, <1>3, <1>8 DEF PinnedFormOf, RequestRows
  <2>3. DefinitionOf(type[t].form) \in Texts \cup {None} /\ v.locks \cup {t} \in SUBSET Rows /\ Free(t)
    BY <1>0, <1>3, <1>4, <1>5, <1>8 DEF RequestRows, Rows, PinnedFormOf
  <2> QED
    BY <1>6, <1>8, <2>1, <2>2, <2>3
<1> QED
  BY <1>7, <1>8

\* A request that begins, and holds what was free.
LEMMA BeginningKeeps ==
  ASSUME DraftsConstantsOK, DraftsIInv, NEW r \in Requests,
         \/ \E f \in Forms \cup {None}, flows \in SUBSET Flows : CreateType(r, f, flows)
         \/ \E t \in Types : ReadType(r, t) \/ LockRetiringType(r, t)
         \/ \E text \in Texts : ReadHighest(r, text)
         \/ \E f \in Forms : LockForPublish(r, f) \/ \E text \in Texts : ReadForm(r, f, text)
  PROVE  DraftsIInv'
<1>0. r \in DOMAIN request
  BY RowsAre
<1>1. ASSUME NEW f \in Forms \cup {None}, NEW flows \in SUBSET Flows, CreateType(r, f, flows)
      PROVE  DraftsIInv'
  <2> DEFINE q == [NoRequest EXCEPT !.at = "binding", !.shares = {f} \ {None}, !.form = f, !.flows = flows]
  <2>1. RequestsOnly /\ (f # None => f \in Forms /\ Bindable(f)) /\ request' = [request EXCEPT ![r] = q]
    BY <1>1 DEF CreateType
  <2>2. q.at = "binding" /\ q.locks = {} /\ q.shares = {f} \ {None} /\ q.form = f /\ q.flows = flows
    BY DEF NoRequest
  <2>3. q \in RequestRows
    BY DEF NoRequest, RequestRows, Places, Rows
  <2> HIDE DEF q
  <2>4. request'[r] = q /\ UNCHANGED <<type, form, doc, counter, retired>>
    BY <1>0, <2>1 DEF RequestsOnly
  <2>5. Links(r)'
    BY <2>1, <2>2, <2>4, NamesDiffer, RowsAre DEF Links
  <2>6. Binds(r)'
    BY <2>1, <2>2, <2>4 DEF Binds, Bindable, Published, Absent
  <2>7. Creates(r)' /\ Updates(r)' /\ Revises(r)'
    BY <2>2, <2>4 DEF Creates, Updates, Revises
  <2> QED
    BY <2>1, <2>2, <2>3, <2>5, <2>6, <2>7, RequestMoves DEF Stands, Bindable
<1>2. ASSUME NEW t \in Types, ReadType(r, t)
      PROVE  DraftsIInv'
  <2> DEFINE q == [NoRequest EXCEPT !.at = "read", !.on = t, !.flows = type[t].flows]
  <2>1. RequestsOnly /\ type[t].state = "live" /\ request' = [request EXCEPT ![r] = q]
    BY <1>2 DEF ReadType
  <2>2. type[t].flows \in SUBSET Flows
    BY <2>1, RowsAre DEF TypeRows, Absent
  <2>3. q.at = "read" /\ q.on = t /\ q.locks = {} /\ q.shares = {} /\ q.flows = type[t].flows
    BY DEF NoRequest
  <2>4. q \in RequestRows
    BY <2>2 DEF NoRequest, RequestRows, Places, Rows
  <2> HIDE DEF q
  <2>5. request'[r] = q
    BY <1>0, <2>1
  <2>6. Stands(r)'
    BY <2>2, <2>3, <2>5 DEF Stands, Creates, Updates, Links, Binds, Revises
  <2> QED
    BY <2>1, <2>3, <2>4, <2>6, RequestMoves
<1>3. ASSUME NEW t \in Types, LockRetiringType(r, t)
      PROVE  DraftsIInv'
  <2> DEFINE q == [NoRequest EXCEPT !.at = "retiring", !.on = t, !.locks = {t}]
  <2>1. /\ RequestsOnly /\ type[t].state = "live" /\ Free(t) /\ request' = [request EXCEPT ![r] = q]
    BY <1>3 DEF LockRetiringType
  <2>2. q.at = "retiring" /\ q.on = t /\ q.locks = {t} /\ q.shares = {}
    BY DEF NoRequest
  <2>3. q \in RequestRows
    BY DEF NoRequest, RequestRows, Places, Rows
  <2> HIDE DEF q
  <2>4. request'[r] = q /\ UNCHANGED type
    BY <1>0, <2>1 DEF RequestsOnly
  <2>5. Stands(r)'
    BY <2>1, <2>2, <2>4 DEF Stands, Creates, Updates, Links, Binds, Revises
  <2> QED
    BY <2>1, <2>2, <2>3, <2>5, RequestMoves
<1>4. ASSUME NEW text \in Texts, ReadHighest(r, text)
      PROVE  DraftsIInv'
  <2> DEFINE q == [NoRequest EXCEPT !.at = "revising", !.text = text, !.number = HighestRevision + 1]
  <2>1. RequestsOnly /\ request' = [request EXCEPT ![r] = q]
    BY <1>4 DEF ReadHighest
  <2> PICK n : n = HighestRevision + 1
    OBVIOUS
  <2>2. n \in Nat /\ n # 0
    BY HighestIsANumber
  <2>3. q.at = "revising" /\ q.text = text /\ q.locks = {} /\ q.shares = {} /\ q.number = n
    BY DEF NoRequest
  <2>4. q \in RequestRows
    BY <2>2 DEF NoRequest, RequestRows, Places, Rows
  <2> HIDE DEF q
  <2>5. request'[r] = q
    BY <1>0, <2>1
  <2>6. Stands(r)'
    BY <2>2, <2>3, <2>5 DEF Stands, Creates, Updates, Links, Binds, Revises
  <2> QED
    BY <2>1, <2>3, <2>4, <2>6, RequestMoves
<1>5. ASSUME NEW f \in Forms, LockForPublish(r, f)
      PROVE  DraftsIInv'
  <2> DEFINE q == [NoRequest EXCEPT !.at = "publishing", !.on = f, !.locks = {f}]
  <2>1. /\ RequestsOnly /\ IsDraft(f) /\ Free(f) /\ form[f].text \in Publishable
        /\ request' = [request EXCEPT ![r] = q]
    BY <1>5 DEF LockForPublish
  <2>2. q.at = "publishing" /\ q.on = f /\ q.locks = {f} /\ q.shares = {}
    BY DEF NoRequest
  <2>3. q \in RequestRows
    BY DEF NoRequest, RequestRows, Places, Rows
  <2> HIDE DEF q
  <2>4. request'[r] = q /\ UNCHANGED form
    BY <1>0, <2>1 DEF RequestsOnly
  <2>5. Stands(r)'
    BY <2>1, <2>2, <2>4 DEF Stands, Creates, Updates, Links, Binds, Revises, IsDraft
  <2> QED
    BY <2>1, <2>2, <2>3, <2>5, RequestMoves
<1>6. ASSUME NEW f \in Forms, NEW text \in Texts, ReadForm(r, f, text)
      PROVE  DraftsIInv'
  <2> DEFINE q == [NoRequest EXCEPT !.at = "saving", !.on = f, !.text = text]
  <2>1. RequestsOnly /\ request' = [request EXCEPT ![r] = q]
    BY <1>6 DEF ReadForm
  <2>2. q.at = "saving" /\ q.on = f /\ q.text = text /\ q.locks = {} /\ q.shares = {}
    BY DEF NoRequest
  <2>3. q \in RequestRows
    BY DEF NoRequest, RequestRows, Places, Rows
  <2> HIDE DEF q
  <2>4. request'[r] = q
    BY <1>0, <2>1
  <2>5. Stands(r)'
    BY <2>2, <2>4 DEF Stands, Creates, Updates, Links, Binds, Revises
  <2> QED
    BY <2>1, <2>2, <2>3, <2>5, RequestMoves
<1> QED
  BY <1>1, <1>2, <1>3, <1>4, <1>5, <1>6

\* A type that is compared and bound anew, under its lock.
LEMMA RebindingKeeps ==
  ASSUME DraftsConstantsOK, DraftsIInv, NEW r \in Requests,
         \/ \E stated \in BOOLEAN : LockType(r, stated)
         \/ \E f \in Forms \cup {None} : CheckBindings(r, f)
  PROVE  DraftsIInv'
<1> PICK v, t : v = request[r] /\ t = v.on
  OBVIOUS
<1>0. v \in RequestRows /\ Stands(r) /\ r \in DOMAIN request
  BY RowsAre DEF DraftsIInv
<1>1. ASSUME NEW stated \in BOOLEAN, LockType(r, stated)
      PROVE  DraftsIInv'
  <2> PICK flows : flows = IF stated THEN {v.flows} ELSE {}
    OBVIOUS
  <2> DEFINE q == [v EXCEPT !.at = "compared", !.locks = {t}, !.flows = flows]
  <2>1. /\ v.at = "read" /\ RequestsOnly /\ type[t].state = "live" /\ Free(t)
        /\ stated => v.flows = type[t].flows
    BY <1>1 DEF LockType
  <2>2. request' = [request EXCEPT ![r] = q]
    BY <1>0, <1>1 DEF LockType, RequestRows
  <2>3. t \in Types /\ v.flows \in SUBSET Flows /\ v.shares \cap retired = {}
    BY <1>0, <2>1 DEF Stands, Binds, Links
  <2>8. "compared" \in Places /\ {t} \in SUBSET Rows /\ flows \in SUBSET (Flows \cup SUBSET Flows)
    BY <2>3 DEF Places, Rows
  <2>4. /\ q.at = "compared" /\ q.on = t /\ q.locks = {t} /\ q.shares = v.shares /\ q.flows = flows
        /\ q \in RequestRows
    BY <1>0, <2>8 DEF RequestRows
  <2> HIDE DEF q
  <2>5. request'[r] = q /\ UNCHANGED <<type, form, doc, counter, retired>>
    BY <1>0, <2>1, <2>2 DEF RequestsOnly
  <2>6. Links(r)' /\ Creates(r)' /\ Updates(r)' /\ Revises(r)'
    BY <2>3, <2>4, <2>5 DEF Links, Creates, Updates, Revises
  <2>7. Binds(r)'
    BY <2>1, <2>3, <2>4, <2>5 DEF Binds
  <2> QED
    BY <2>1, <2>2, <2>4, <2>6, <2>7, RequestMoves DEF Stands
<1>2. ASSUME NEW f \in Forms \cup {None}, CheckBindings(r, f)
      PROVE  DraftsIInv'
  <2>9. PICK shares : shares = IF f # type[t].form THEN {f} \ {None} ELSE {}
    OBVIOUS
  <2> DEFINE q == [v EXCEPT !.at = "bound", !.form = f, !.shares = shares]
  <2>1. /\ v.at = "compared" /\ RequestsOnly
        /\ f # type[t].form => (f # None => Bindable(f)) /\ MayRebind(t)
    BY <1>2 DEF CheckBindings
  <2>2. request' = [request EXCEPT ![r] = q]
    BY <1>0, <1>2, <2>9 DEF CheckBindings, RequestRows
  <2>3. /\ t \in Types /\ t \in v.locks /\ type[t].state = "live" /\ \A flows \in v.flows : type[t].flows = flows
        /\ shares \subseteq Forms /\ \A x \in shares : Sharable(x)
    BY <1>0, <2>1, <2>9 DEF Stands, Binds, Bindable
  <2>8. "bound" \in Places /\ shares \in SUBSET Rows
    BY <2>3 DEF Places, Rows
  <2>4. /\ q.at = "bound" /\ q.on = t /\ q.locks = v.locks /\ q.shares = shares /\ q.flows = v.flows
        /\ q.form = f /\ q \in RequestRows
    BY <1>0, <2>8 DEF RequestRows
  <2> HIDE DEF q
  <2>5. request'[r] = q /\ UNCHANGED <<type, form, doc, counter, retired>>
    BY <1>0, <2>1, <2>2 DEF RequestsOnly
  <2>6. Links(r)' /\ Creates(r)' /\ Updates(r)' /\ Revises(r)'
    BY <2>3, <2>4, <2>5, NamesDiffer, RowsAre DEF Links, Creates, Updates, Revises
  <2>7. Binds(r)'
    BY <2>1, <2>3, <2>4, <2>5, <2>9 DEF Binds, Bindable, Published, Absent, MayRebind, Of, LiveDocs
  <2> QED
    BY <2>1, <2>2, <2>3, <2>4, <2>6, <2>7, RequestMoves DEF Stands
<1> QED
  BY <1>1, <1>2

-----------------------------------------------------------------------------
\* Requests that hold none of the rows X, which change, stand where they stood.
LEMMA RestStand ==
  ASSUME DraftsConstantsOK, DraftsIInv, NEW X, NEW S \in SUBSET Requests,
         \A s \in S : request'[s] = request[s] /\ X \cap request[s].locks = {}
                      /\ request[s].shares \cap retired' \subseteq retired,
         \A t \in Types \ X : type[t].state = "live" => type'[t] = type[t],
         \A d \in Documents \ X : doc[d].state = "live" => doc'[d] = doc[d],
         \A f \in Forms : Published(f) => Published(f)' /\ form'[f].text = form[f].text,
         \A f \in Forms \ X : form[f].state = "live" => form'[f] = form[f],
         "counter" \in X \/ counter' = counter,
         \A d \in Documents : doc'[d].state = "live" =>
            \/ doc[d].state = "live" /\ doc'[d].type = doc[d].type /\ doc'[d].form = doc[d].form
            \/ doc'[d].type \in X
  PROVE  \A s \in S : Stands(s)'
<1> SUFFICES ASSUME NEW s \in S
             PROVE  Stands(s)'
  OBVIOUS
<1> PICK v : v = request[s]
  OBVIOUS
<1>1. s \in Requests /\ request'[s] = v /\ X \cap v.locks = {} /\ v.shares \cap retired' \subseteq retired
  OBVIOUS
<1> QED
  BY <1>1, OthersStand

\* When a request ends, the others hold what they held.
LEMMA EndsRight ==
  ASSUME DraftsConstantsOK, DraftsIInv, NEW r \in Requests, EndRequest(r)
  PROVE  /\ request' \in [Requests -> RequestRows] /\ LocksExclude' /\ Stands(r)'
         /\ \A s \in Requests : request'[s].at \in Places
         /\ \A s \in Requests \ {r} :
              request'[s] = request[s] /\ request[r].locks \cap request[s].locks = {}
<1>1. r \in DOMAIN request /\ NoRequest \in RequestRows /\ NoRequest.locks = {} /\ NoRequest.shares = {}
  BY RowsAre DEF NoRequest, RequestRows, Places
<1>2. request'[r] = NoRequest /\ request' \in [Requests -> RequestRows]
      /\ \A s \in Requests \ {r} : request'[s] = request[s]
  BY <1>1 DEF EndRequest, DraftsIInv
<1>3. LocksExclude'
  BY <1>1, <1>2 DEF DraftsIInv, LocksExclude
<1> QED
  BY <1>2, <1>3, NoRequestStands DEF DraftsIInv, LocksExclude, RequestRows

\* What is in force of a row is kept apart from who holds it.
RequestsStand ==
    /\ request \in [Requests -> RequestRows] /\ LocksExclude
    /\ \A r \in Requests : request[r].at \in Places /\ Stands(r)

LEMMA FormsKeep ==
  ASSUME DraftsConstantsOK, DraftsIInv, UNCHANGED <<type, doc, counter, retired>>,
         form' \in [Forms -> {Absent} \cup FormRows], HighestIsThere', RequestsStand',
         \A f \in Forms : Published(f) => Published(f)' /\ form'[f].text = form[f].text,
         \A f \in Forms : Published(f)' => form'[f].text \in Publishable
  PROVE  DraftsIInv'
<1>1. DraftsTypeOK'
  BY DEF DraftsIInv, DraftsTypeOK, RequestsStand
<1>2. BindsThePublished'
  <2>1. \A f : Published(f) => Published(f)'
    BY DEF Published
  <2> QED
    BY <2>1 DEF DraftsIInv, BindsThePublished, Made
<1>3. ASSUME NEW f, f = None \/ Published(f)
      PROVE  DefinitionOf(f)' = DefinitionOf(f)
  BY <1>3 DEF DefinitionOf, Published
<1>4. DataFitsItsForm'
  <2> SUFFICES ASSUME NEW d \in Documents, doc[d].state = "live"
               PROVE  doc[d].filled = HeldTo(d)'
    BY DEF DataFitsItsForm, LiveDocs
  <2> PICK f, t : f = doc[d].form /\ t = doc[d].type
    OBVIOUS
  <2>1. d \in Made /\ d \in LiveDocs /\ doc[d] \in DocRows
    BY RowsAre DEF Made, LiveDocs, Absent
  <2>2. t \in Types /\ type[t].state = "live" /\ type[t] # Absent /\ doc[d].filled = HeldTo(d)
        /\ (f # None => Published(f))
    BY <2>1 DEF DraftsIInv, DraftsHaveTheirRecords, DataFitsItsForm, DocRows, Absent, BindsThePublished
  <2> PICK g : g = type[t].form
    OBVIOUS
  <2>3. g = None \/ Published(g)
    BY <2>2 DEF DraftsIInv, BindsThePublished
  <2>4. DefinitionOf(f)' = DefinitionOf(f) /\ DefinitionOf(g)' = DefinitionOf(g)
    BY <1>3, <2>2, <2>3
  <2> QED
    BY <2>2, <2>4 DEF HeldTo, DefinitionOf
<1>5. DraftsHaveTheirRecords'
  <2>1. \A t \in Types : type[t].state = "live" /\ type[t].form # None => Published(type[t].form)'
    BY <1>2 DEF BindsThePublished, Absent
  <2>2. \A d \in LiveDocs' : type'[doc'[d].type].state = "live"
    BY DEF LiveDocs, DraftsIInv, DraftsHaveTheirRecords
  <2> QED
    BY <2>1, <2>2 DEF DraftsHaveTheirRecords, Published
<1>6. ReferencesAreGapless' /\ IsFiniteSet(Made)'
  BY DEF DraftsIInv, ReferencesAreGapless, Made
<1> QED
  BY <1>1, <1>2, <1>4, <1>5, <1>6 DEF DraftsIInv, RequestsStand

LEMMA InsertFormKeeps ==
  ASSUME DraftsConstantsOK, DraftsIInv, NEW r \in Requests, InsertForm(r)
  PROVE  DraftsIInv'
<1> PICK v, f : v = request[r] /\ f = Fresh(form)
  OBVIOUS
<1>0. v \in RequestRows /\ Stands(r) /\ v.at = "revising" /\ v.text \in Texts /\ v.number \in Nat \ {0}
  BY RowsAre DEF DraftsIInv, InsertForm, Stands, Revises, RequestRows
<1> DEFINE new == [state |-> "live", status |-> "DRAFT", text |-> v.text, revision |-> v.number]
<1>1. /\ f \in Forms /\ form[f] = Absent /\ form' = [form EXCEPT ![f] = new]
      /\ EndRequest(r) /\ UNCHANGED <<type, doc, counter, retired>>
  BY FreshIsAbsent, RowsAre DEF InsertForm
<1>2. new \in FormRows /\ new.status = "DRAFT" /\ new.revision \in Nat /\ new # Absent
  BY <1>0 DEF FormRows, Absent
<1> HIDE DEF new
<1>3. form' \in [Forms -> {Absent} \cup FormRows] /\ form'[f] = new
      /\ \A g \in Forms \ {f} : form'[g] = form[g]
  BY <1>1, <1>2 DEF DraftsIInv, DraftsTypeOK
<1>4. \A g \in Forms : Published(g) => g # f
  BY <1>1 DEF Published
<1>5. \A g \in Forms : Published(g)' => Published(g) /\ form'[g] = form[g]
  BY <1>2, <1>3 DEF Published
<1>6. \A g \in Forms : Published(g) => Published(g)' /\ form'[g].text = form[g].text
  BY <1>3, <1>4 DEF Published
<1>7. \A g \in Forms : Published(g)' => form'[g].text \in Publishable
  BY <1>5 DEF DraftsIInv, DraftsHaveTheirRecords, Published
<1>8. HighestIsThere'
  <2>1. \A g \in Forms : form[g] = Absent \/ form[g].revision \in Nat
    BY RowsAre DEF FormRows
  <2>2. CASE \A g \in Forms : form[g] = Absent
    BY <1>1, <1>2, <1>3, <2>2 DEF HighestIsThere
  <2>3. CASE \E g \in Forms : form[g] # Absent
               /\ \A h \in Forms : form[h] # Absent => form[h].revision <= form[g].revision
    <3> PICK g \in Forms : form[g] # Absent
               /\ \A h \in Forms : form[h] # Absent => form[h].revision <= form[g].revision
      BY <2>3
    <3>1. g # f /\ form'[g] = form[g] /\ form[g].revision \in Nat
      BY <1>1, <1>3, <2>1
    <3>2. CASE new.revision <= form[g].revision
      BY <1>3, <3>1, <3>2 DEF HighestIsThere
    <3>3. CASE form[g].revision <= new.revision
      <4>1. \A h \in Forms : form'[h] # Absent => form'[h].revision <= new.revision
        BY <1>2, <1>3, <2>1, <3>1, <3>3
      <4> QED
        BY <1>1, <1>2, <1>3, <4>1 DEF HighestIsThere
    <3> QED
      BY <1>2, <3>1, <3>2, <3>3
  <2> QED
    BY <2>2, <2>3 DEF DraftsIInv, HighestIsThere
<1>9. RequestsStand'
  <2> DEFINE S == Requests \ {r}
  <2>1. \A s \in S : request'[s] = request[s] /\ {} \cap request[s].locks = {}
                     /\ request[s].shares \cap retired' \subseteq retired
    BY <1>1, EndsRight
  <2>2. \A g \in Forms : form[g].state = "live" => form'[g] = form[g]
    BY <1>1, <1>3 DEF Absent
  <2>4. /\ S \in SUBSET Requests
        /\ \A t \in Types \ {} : type[t].state = "live" => type'[t] = type[t]
        /\ \A d \in Documents \ {} : doc[d].state = "live" => doc'[d] = doc[d]
        /\ \A g \in Forms \ {} : form[g].state = "live" => form'[g] = form[g]
        /\ "counter" \in {} \/ counter' = counter
    BY <1>1, <2>2
  <2>5. \A d \in Documents : doc'[d].state = "live" =>
          \/ doc[d].state = "live" /\ doc'[d].type = doc[d].type /\ doc'[d].form = doc[d].form
          \/ doc'[d].type \in {}
    BY <1>1
  <2> HIDE DEF S
  <2>3. \A s \in S : Stands(s)'
    BY <1>6, <2>1, <2>4, <2>5, RestStand
  <2> QED
    BY <1>1, <2>3, EndsRight DEF RequestsStand, S
<1> QED
  BY <1>1, <1>3, <1>6, <1>7, <1>8, <1>9, FormsKeep

\* A draft that is saved, published or deleted: what was published stays.
LEMMA FormStepKeeps ==
  ASSUME DraftsConstantsOK, DraftsIInv, NEW f \in Forms, NEW stored \in FormRows,
         form' = [form EXCEPT ![f] = stored], form[f] # Absent, stored.revision = form[f].revision,
         UNCHANGED <<type, doc, counter, retired>>,
         Published(f) => stored.status = "PUBLISHED" /\ stored.text = form[f].text,
         stored.status = "PUBLISHED" => stored.text \in Publishable,
         \/ UNCHANGED request /\ \A s \in Requests : f \notin request[s].locks
         \/ \E r \in Requests : EndRequest(r) /\ \A s \in Requests \ {r} : f \notin request[s].locks
  PROVE  DraftsIInv'
<1>1. form' \in [Forms -> {Absent} \cup FormRows] /\ form'[f] = stored /\ stored # Absent
      /\ \A g \in Forms \ {f} : form'[g] = form[g]
  BY RowsAre DEF DraftsIInv, DraftsTypeOK
<1>2. \A g \in Forms : Published(g) => Published(g)' /\ form'[g].text = form[g].text
  BY <1>1 DEF Published
<1>3. \A g \in Forms : Published(g)' => form'[g].text \in Publishable
  BY <1>1 DEF Published, DraftsIInv, DraftsHaveTheirRecords
<1>4. HighestIsThere'
  <2>1. \A g \in Forms : (form'[g] = Absent <=> form[g] = Absent)
                         /\ (form[g] # Absent => form'[g].revision = form[g].revision)
    BY <1>1
  <2> QED
    BY <2>1 DEF DraftsIInv, HighestIsThere
<1>5. ASSUME NEW S \in SUBSET Requests,
             \A s \in S : request'[s] = request[s] /\ f \notin request[s].locks
      PROVE  \A s \in S : Stands(s)'
  <2>1. \A s \in S : request'[s] = request[s] /\ {f} \cap request[s].locks = {}
                     /\ request[s].shares \cap retired' \subseteq retired
    BY <1>5
  <2>2. \A g \in Forms \ {f} : form[g].state = "live" => form'[g] = form[g]
    BY <1>1
  <2> QED
    BY <1>2, <2>1, <2>2, RestStand
<1>6. RequestsStand'
  <2>1. CASE UNCHANGED request /\ \A s \in Requests : f \notin request[s].locks
    <3>1. \A s \in Requests : Stands(s)'
      BY <1>5, <2>1
    <3> QED
      BY <2>1, <3>1 DEF RequestsStand, DraftsIInv, DraftsTypeOK, LocksExclude
  <2>2. ASSUME NEW r \in Requests, EndRequest(r), \A s \in Requests \ {r} : f \notin request[s].locks
        PROVE  RequestsStand'
    <3>1. \A s \in Requests \ {r} : Stands(s)'
      BY <1>5, <2>2, EndsRight
    <3> QED
      BY <2>2, <3>1, EndsRight DEF RequestsStand
  <2> QED
    BY <2>1, <2>2
<1> QED
  BY <1>1, <1>2, <1>3, <1>4, <1>6, FormsKeep

LEMMA SavingKeeps ==
  ASSUME DraftsConstantsOK, DraftsIInv,
         \/ \E r \in Requests : UpdateDraft(r) \/ PublishForm(r)
         \/ \E f \in Forms : DeleteForm(f)
  PROVE  DraftsIInv'
<1>1. ASSUME NEW r \in Requests, UpdateDraft(r)
      PROVE  DraftsIInv'
  <2> PICK v, f : v = request[r] /\ f = v.on
    OBVIOUS
  <2>1. f \in Forms /\ v.text \in Texts /\ IsDraft(f) /\ Free(f) /\ EndRequest(r)
        /\ UNCHANGED <<type, doc, counter, retired>> /\ form' = [form EXCEPT ![f].text = v.text]
    BY <1>1 DEF UpdateDraft, DraftsIInv, Stands, Revises
  <2> PICK stored : stored = [form[f] EXCEPT !.text = v.text]
    OBVIOUS
  <2>2. form[f] \in FormRows /\ form[f] # Absent /\ ~Published(f)
    BY <2>1, RowsAre DEF IsDraft, Absent, Published
  <2>3. stored \in FormRows /\ stored.revision = form[f].revision /\ stored.status = "DRAFT"
    BY <2>1, <2>2 DEF FormRows, IsDraft
  <2>4. form' = [form EXCEPT ![f] = stored]
    BY <2>1
  <2> QED
    BY <2>1, <2>2, <2>3, <2>4, FormStepKeeps DEF Free
<1>2. ASSUME NEW r \in Requests, PublishForm(r)
      PROVE  DraftsIInv'
  <2> PICK v, f : v = request[r] /\ f = v.on
    OBVIOUS
  <2>1. /\ f \in Forms /\ IsDraft(f) /\ f \in v.locks /\ form[f].text \in Publishable /\ EndRequest(r)
        /\ UNCHANGED <<type, doc, counter, retired>> /\ form' = [form EXCEPT ![f].status = "PUBLISHED"]
    BY <1>2 DEF PublishForm, DraftsIInv, Stands, Revises
  <2>8. PICK stored : stored = [form[f] EXCEPT !.status = "PUBLISHED"]
    OBVIOUS
  <2>2. form[f] \in FormRows /\ form[f] # Absent
    BY <2>1, RowsAre DEF IsDraft, Absent
  <2>3. stored \in FormRows /\ stored.revision = form[f].revision /\ stored.text = form[f].text /\ stored.status = "PUBLISHED"
    BY <2>2, <2>8 DEF FormRows
  <2>4. form' = [form EXCEPT ![f] = stored]
    BY <2>1, <2>8
  <2>5. \A s \in Requests \ {r} : f \notin request[s].locks
    BY <2>1, EndsRight
  <2>6. \E s \in Requests : EndRequest(s) /\ \A q \in Requests \ {s} : f \notin request[q].locks
    BY <2>1, <2>5
  <2>7. /\ UNCHANGED <<type, doc, counter, retired>> /\ stored.text \in Publishable
        /\ stored.status = "PUBLISHED" /\ stored.text = form[f].text
    BY <2>1, <2>3
  <2> QED
    BY <2>1, <2>2, <2>3, <2>4, <2>6, <2>7, FormStepKeeps
<1>3. ASSUME NEW f \in Forms, DeleteForm(f)
      PROVE  DraftsIInv'
  <2>1. form[f].state = "live" /\ Free(f) /\ form' = [form EXCEPT ![f].state = "deleted"]
        /\ UNCHANGED <<type, doc, counter, retired, request>>
    BY <1>3 DEF DeleteForm
  <2> PICK stored : stored = [form[f] EXCEPT !.state = "deleted"]
    OBVIOUS
  <2>2. form[f] \in FormRows /\ form[f] # Absent
    BY <2>1, RowsAre DEF Absent
  <2>3. stored \in FormRows /\ stored.revision = form[f].revision /\ stored.text = form[f].text /\ stored.status = form[f].status
    BY <2>2 DEF FormRows
  <2>4. form' = [form EXCEPT ![f] = stored]
    BY <2>1
  <2>5. stored.status = "PUBLISHED" => stored.text \in Publishable
    BY <2>2, <2>3 DEF DraftsIInv, DraftsHaveTheirRecords
  <2> QED
    BY <2>1, <2>2, <2>3, <2>4, <2>5, FormStepKeeps DEF Free, Published
<1> QED
  BY <1>1, <1>2, <1>3

\* A type that changes under its lock moves no draft to another definition.
LEMMA TypeStepKeeps ==
  ASSUME DraftsConstantsOK, DraftsIInv, NEW r \in Requests, EndRequest(r),
         NEW t \in Types, NEW stored \in TypeRows, type' = [type EXCEPT ![t] = stored],
         UNCHANGED <<form, doc, counter, retired>>,
         stored.form # None => Published(stored.form),
         type[t].state = "live" => t \in request[r].locks,
         \A d \in Of(t) : stored.state = "live" /\ (doc[d].form = None => stored.form = type[t].form)
  PROVE  DraftsIInv'
<1>1. type' \in [Types -> {Absent} \cup TypeRows] /\ type'[t] = stored
      /\ \A u \in Types \ {t} : type'[u] = type[u]
  BY RowsAre DEF DraftsIInv, DraftsTypeOK
<1>2. \A f : Published(f)' <=> Published(f)
  BY DEF Published
<1>3. RequestsStand'
  <2> DEFINE S == Requests \ {r}
             X == IF type[t].state = "live" THEN {t} ELSE {}
  <2>1. \A s \in S : request'[s] = request[s] /\ X \cap request[s].locks = {}
                     /\ request[s].shares \cap retired' \subseteq retired
    BY EndsRight
  <2>2. \A u \in Types \ X : type[u].state = "live" => type'[u] = type[u]
    BY <1>1
  <2>3. S \in SUBSET Requests
    OBVIOUS
  <2> HIDE DEF S, X
  <2>4. \A s \in S : Stands(s)'
    BY <1>2, <2>1, <2>2, <2>3, RestStand
  <2> QED
    BY <2>4, EndsRight DEF RequestsStand, S
<1>4. BindsThePublished'
  BY <1>1, <1>2 DEF DraftsIInv, BindsThePublished, Made
<1>5. ASSUME NEW d \in Documents, doc[d].state = "live"
      PROVE  doc[d].filled = HeldTo(d)' /\ type'[doc[d].type].state = "live"
  <2>1. d \in LiveDocs /\ doc[d] \in DocRows
    BY <1>5, RowsAre DEF LiveDocs, Absent
  <2>2. doc[d].filled = HeldTo(d) /\ doc[d].type \in Types /\ type[doc[d].type].state = "live"
    BY <2>1 DEF DraftsIInv, DataFitsItsForm, DraftsHaveTheirRecords, DocRows
  <2>3. CASE doc[d].type = t
    BY <1>1, <2>1, <2>2, <2>3 DEF HeldTo, DefinitionOf, Of
  <2>4. CASE doc[d].type # t
    BY <1>1, <2>2, <2>4 DEF HeldTo, DefinitionOf
  <2> QED
    BY <2>3, <2>4
<1>6. DataFitsItsForm' /\ DraftsHaveTheirRecords'
  <2>1. \A u \in Types : type'[u].state = "live" /\ type'[u].form # None => form[type'[u].form].status = "PUBLISHED"
    BY <1>4 DEF BindsThePublished, Published, Absent
  <2> QED
    BY <1>5, <2>1 DEF DataFitsItsForm, DraftsHaveTheirRecords, LiveDocs, DraftsIInv
<1>7. ReferencesAreGapless' /\ IsFiniteSet(Made)' /\ HighestIsThere'
  BY DEF DraftsIInv, ReferencesAreGapless, Made, HighestIsThere
<1>8. DraftsTypeOK'
  BY <1>1, <1>3 DEF DraftsIInv, DraftsTypeOK, RequestsStand
<1> QED
  BY <1>3, <1>4, <1>6, <1>7, <1>8 DEF DraftsIInv, RequestsStand

LEMMA TypesKeep ==
  ASSUME DraftsConstantsOK, DraftsIInv, NEW r \in Requests,
         InsertType(r) \/ (\E flows \in SUBSET Flows : UpdateType(r, flows)) \/ DeleteType(r)
  PROVE  DraftsIInv'
<1> PICK v, t : v = request[r] /\ t = v.on
  OBVIOUS
<1>0. v \in RequestRows /\ Stands(r)
  BY RowsAre DEF DraftsIInv
<1>1. CASE InsertType(r)
  <2> PICK u : u = Fresh(type)
    OBVIOUS
  <2>1. /\ u \in Types /\ type[u] = Absent /\ type[u].state = "absent" /\ EndRequest(r)
        /\ type' = [type EXCEPT ![u] = [state |-> "live", form |-> v.form, flows |-> v.flows]]
        /\ UNCHANGED <<form, doc, counter, retired>>
    BY <1>1, FreshIsAbsent, RowsAre DEF InsertType
  <2> PICK stored : stored = [state |-> "live", form |-> v.form, flows |-> v.flows]
    OBVIOUS
  <2>2. v.at = "binding"
    BY <1>1 DEF InsertType
  <2>3. stored \in TypeRows /\ stored.form = v.form /\ (v.form # None => Published(v.form))
    BY <1>0, <2>2 DEF Stands, Binds, RequestRows, TypeRows
  <2>4. Of(u) = {}
    BY <2>1 DEF DraftsIInv, DraftsHaveTheirRecords, Of
  <2> QED
    BY <2>1, <2>3, <2>4, TypeStepKeeps
<1>2. ASSUME NEW flows \in SUBSET Flows, UpdateType(r, flows)
      PROVE  DraftsIInv'
  <2>1. /\ v.at = "bound" /\ EndRequest(r) /\ UNCHANGED <<form, doc, counter, retired>>
        /\ type' = [type EXCEPT ![t].form = v.form, ![t].flows = flows]
    BY <1>2 DEF UpdateType
  <2>2. /\ t \in Types /\ t \in v.locks /\ type[t].state = "live"
        /\ v.form # type[t].form => MayRebind(t) /\ (v.form # None => Published(v.form))
    BY <1>0, <2>1 DEF Stands, Binds
  <2>3. type[t] \in TypeRows /\ type[t] # Absent
    BY <2>2, RowsAre DEF Absent
  <2>4. PICK stored : stored = [type[t] EXCEPT !.form = v.form, !.flows = flows]
    OBVIOUS
  <2>5. stored \in TypeRows /\ stored.form = v.form /\ stored.state = "live"
    BY <1>0, <2>2, <2>3, <2>4 DEF TypeRows, RequestRows
  <2>6. type' = [type EXCEPT ![t] = stored]
    BY <2>1, <2>2, <2>4, RowsAre
  <2>7. stored.form # None => Published(stored.form)
    BY <2>2, <2>3, <2>5 DEF DraftsIInv, BindsThePublished
  <2>8. \A d \in Of(t) : stored.state = "live" /\ (doc[d].form = None => stored.form = type[t].form)
    BY <2>2, <2>5 DEF MayRebind
  <2>9. EndRequest(r) /\ UNCHANGED <<form, doc, counter, retired>> /\ t \in Types /\ t \in request[r].locks
    BY <2>1, <2>2
  <2> QED
    BY ONLY DraftsConstantsOK, DraftsIInv, <2>5, <2>6, <2>7, <2>8, <2>9, TypeStepKeeps, Zenon
<1>3. CASE DeleteType(r)
  <2>1. /\ v.at = "retiring" /\ EndRequest(r) /\ UNCHANGED <<form, doc, counter, retired>>
        /\ Of(t) = {} /\ type' = [type EXCEPT ![t].state = "deleted"]
    BY <1>3 DEF DeleteType
  <2>2. t \in Types /\ t \in v.locks /\ type[t].state = "live"
    BY <1>0, <2>1 DEF Stands, Binds
  <2>3. type[t] \in TypeRows /\ type[t] # Absent
    BY <2>2, RowsAre DEF Absent
  <2> PICK stored : stored = [type[t] EXCEPT !.state = "deleted"]
    OBVIOUS
  <2>4. stored \in TypeRows /\ stored.form = type[t].form
    BY <2>3 DEF TypeRows
  <2>5. type' = [type EXCEPT ![t] = stored] /\ (stored.form # None => Published(stored.form))
    BY <2>1, <2>2, <2>3, <2>4, RowsAre DEF DraftsIInv, BindsThePublished
  <2> QED
    BY <2>1, <2>2, <2>4, <2>5, TypeStepKeeps
<1> QED
  BY <1>1, <1>2, <1>3

-----------------------------------------------------------------------------
\* A draft that is saved or deleted is still what it was created as.
LEMMA DraftStepKeeps ==
  ASSUME DraftsConstantsOK, DraftsIInv, NEW d \in Documents, NEW stored \in DocRows,
         doc' = [doc EXCEPT ![d] = stored], doc[d].state = "live",
         stored.type = doc[d].type, stored.form = doc[d].form, stored.ref = doc[d].ref,
         stored.state = "live" => stored.filled = HeldTo(d),
         UNCHANGED <<type, form, counter, retired>>,
         \/ UNCHANGED request /\ \A s \in Requests : d \notin request[s].locks
         \/ \E r \in Requests : EndRequest(r) /\ \A s \in Requests \ {r} : d \notin request[s].locks
  PROVE  DraftsIInv'
<1>1. doc' \in [Documents -> {Absent} \cup DocRows] /\ doc'[d] = stored /\ stored # Absent /\ doc[d] # Absent
      /\ \A e \in Documents \ {d} : doc'[e] = doc[e]
  BY RowsAre DEF DraftsIInv, DraftsTypeOK, Absent
<1>2. Made' = Made /\ \A e \in Made : doc'[e].ref = doc[e].ref
  BY <1>1 DEF Made
<1>3. \A f : Published(f)' <=> Published(f)
  BY DEF Published
<1>4. ASSUME NEW S \in SUBSET Requests,
             \A s \in S : request'[s] = request[s] /\ d \notin request[s].locks
      PROVE  \A s \in S : Stands(s)'
  <2> DEFINE X == {d}
  <2>1. \A s \in S : request'[s] = request[s] /\ X \cap request[s].locks = {}
                     /\ request[s].shares \cap retired' \subseteq retired
    BY <1>4
  <2>2. \A e \in Documents \ X : doc[e].state = "live" => doc'[e] = doc[e]
    BY <1>1
  <2>3. \A e \in Documents : doc'[e].state = "live" =>
          \/ doc[e].state = "live" /\ doc'[e].type = doc[e].type /\ doc'[e].form = doc[e].form
          \/ doc'[e].type \in X
    BY <1>1
  <2>4. /\ \A t \in Types \ X : type[t].state = "live" => type'[t] = type[t]
        /\ \A f \in Forms : Published(f) => Published(f)' /\ form'[f].text = form[f].text
        /\ \A f \in Forms \ X : form[f].state = "live" => form'[f] = form[f]
        /\ "counter" \in X \/ counter' = counter
    BY <1>3
  <2> HIDE DEF X
  <2> QED
    BY <2>1, <2>2, <2>3, <2>4, RestStand
<1>5. RequestsStand'
  <2>1. CASE UNCHANGED request /\ \A s \in Requests : d \notin request[s].locks
    <3>1. \A s \in Requests : Stands(s)'
      BY <1>4, <2>1
    <3> QED
      BY <2>1, <3>1 DEF RequestsStand, DraftsIInv, DraftsTypeOK, LocksExclude
  <2>2. ASSUME NEW r \in Requests, EndRequest(r), \A s \in Requests \ {r} : d \notin request[s].locks
        PROVE  RequestsStand'
    <3>1. \A s \in Requests \ {r} : Stands(s)'
      BY <1>4, <2>2, EndsRight
    <3> QED
      BY <2>2, <3>1, EndsRight DEF RequestsStand
  <2> QED
    BY <2>1, <2>2
<1>6. BindsThePublished' /\ HighestIsThere'
  BY <1>1, <1>2, <1>3 DEF DraftsIInv, BindsThePublished, HighestIsThere, Made
<1>7. DataFitsItsForm' /\ DraftsHaveTheirRecords'
  <2>1. \A e \in Documents : doc'[e].state = "live" =>
          e \in LiveDocs /\ doc'[e].type = doc[e].type /\ doc'[e].form = doc[e].form
          /\ (e # d => doc'[e].filled = doc[e].filled)
    BY <1>1 DEF LiveDocs
  <2>2. \A e \in LiveDocs' : doc'[e].filled = HeldTo(e) /\ type[doc'[e].type].state = "live"
    BY <1>1, <2>1 DEF DraftsIInv, DataFitsItsForm, DraftsHaveTheirRecords, LiveDocs
  <2>3. \A e \in LiveDocs' : HeldTo(e)' = HeldTo(e)
    BY <2>1 DEF HeldTo, DefinitionOf, LiveDocs
  <2> QED
    BY <2>2, <2>3 DEF DraftsIInv, DataFitsItsForm, DraftsHaveTheirRecords
<1>8. ReferencesAreGapless' /\ IsFiniteSet(Made)'
  <2> PICK M : M = Made
    OBVIOUS
  <2>1. IsFiniteSet(M) /\ {doc[e].ref : e \in M} = 1..(counter - 1) /\ Cardinality(M) = counter - 1
    BY DEF DraftsIInv, ReferencesAreGapless, Made
  <2>2. {doc'[e].ref : e \in M} = {doc[e].ref : e \in M}
    BY <1>2
  <2>3. {doc'[e].ref : e \in M} = 1..(counter' - 1) /\ Cardinality(M) = counter' - 1
    BY <2>1, <2>2
  <2> QED
    BY <1>2, <2>1, <2>3 DEF ReferencesAreGapless, Made
<1>9. DraftsTypeOK'
  BY <1>1, <1>5 DEF DraftsIInv, DraftsTypeOK, RequestsStand
<1> QED
  BY <1>5, <1>6, <1>7, <1>8, <1>9 DEF DraftsIInv, RequestsStand

LEMMA DraftsKeep ==
  ASSUME DraftsConstantsOK, DraftsIInv,
         (\E r \in Requests : UpdateDocument(r)) \/ (\E d \in Documents : DeleteDocument(d))
  PROVE  DraftsIInv'
<1>1. ASSUME NEW r \in Requests, UpdateDocument(r)
      PROVE  DraftsIInv'
  <2> PICK v, d : v = request[r] /\ d = v.on
    OBVIOUS
  <2>1. /\ v.at \in {"checked", "governed"} /\ d \in Documents /\ EndRequest(r)
        /\ UNCHANGED <<type, form, counter, retired>>
        /\ doc' = [doc EXCEPT ![d].party = v.party,
                              ![d].filled = IF v.at = "governed" THEN v.text ELSE @]
    BY <1>1 DEF UpdateDocument
  <2>2. /\ v \in RequestRows /\ doc[d].state = "live" /\ d \in v.locks
        /\ v.at = "governed" => v.text = HeldTo(d)
    BY <2>1, RowsAre DEF DraftsIInv, Stands, Updates
  <2>3. doc[d] \in DocRows /\ d \in LiveDocs
    BY <2>1, <2>2, RowsAre DEF Absent, LiveDocs
  <2>4. doc[d].filled = HeldTo(d)
    BY <2>3 DEF DraftsIInv, DataFitsItsForm
  <2>5. PICK stored : stored = [doc[d] EXCEPT !.party = v.party,
                                        !.filled = IF v.at = "governed" THEN v.text ELSE @]
    OBVIOUS
  <2>10. /\ stored = [doc[d] EXCEPT !.party = v.party, !.filled = HeldTo(d)]
        /\ v.party \in Parties \cup {None} /\ HeldTo(d) \in Texts \cup {None}
    BY <2>2, <2>3, <2>4, <2>5 DEF DocRows, RequestRows
  <2>6. /\ stored \in DocRows /\ stored.type = doc[d].type /\ stored.form = doc[d].form /\ stored.ref = doc[d].ref
        /\ stored.filled = HeldTo(d)
    BY <2>3, <2>10 DEF DocRows
  <2>7. doc' = [doc EXCEPT ![d] = stored]
    BY <2>1, <2>3, <2>5, RowsAre DEF DocRows
  <2>8. \A s \in Requests \ {r} : d \notin request[s].locks
    BY <2>1, <2>2, EndsRight
  <2>9. d \in Documents /\ doc[d].state = "live" /\ UNCHANGED <<type, form, counter, retired>> /\ EndRequest(r)
    BY <2>1, <2>2
  <2> QED
    BY <2>6, <2>7, <2>8, <2>9, DraftStepKeeps
<1>2. ASSUME NEW d \in Documents, DeleteDocument(d)
      PROVE  DraftsIInv'
  <2>1. /\ d \in LiveDocs /\ Free(d) /\ doc' = [doc EXCEPT ![d].state = "deleted"]
        /\ UNCHANGED <<type, form, counter, retired, request>>
    BY <1>2 DEF DeleteDocument
  <2>2. doc[d] \in DocRows /\ doc[d].state = "live"
    BY <2>1, RowsAre DEF LiveDocs, Absent
  <2> PICK stored : stored = [doc[d] EXCEPT !.state = "deleted"]
    OBVIOUS
  <2>3. /\ stored \in DocRows /\ stored.type = doc[d].type /\ stored.form = doc[d].form /\ stored.ref = doc[d].ref
        /\ stored.state = "deleted"
    BY <2>2 DEF DocRows
  <2>4. doc' = [doc EXCEPT ![d] = stored]
    BY <2>1, <2>2, RowsAre
  <2> QED
    BY <2>1, <2>2, <2>3, <2>4, DraftStepKeeps DEF Free
<1> QED
  BY <1>1, <1>2

LEMMA CreateDocumentKeeps ==
  ASSUME DraftsConstantsOK, DraftsIInv, NEW r \in Requests, CreateDocument(r)
  PROVE  DraftsIInv'
<1> PICK v, t, d : v = request[r] /\ t = v.on /\ d = Fresh(doc)
  OBVIOUS
<1>1. v \in RequestRows /\ Stands(r) /\ v.at = "numbered"
  BY RowsAre DEF DraftsIInv, CreateDocument
<1>2. /\ t \in Types /\ t \in v.locks /\ type[t].state = "live" /\ v.form = type[t].form
      /\ v.text = DefinitionOf(v.form) /\ "counter" \in v.locks /\ v.number = counter
  BY <1>1 DEF Stands, Creates
<1> DEFINE new == [state |-> "live", type |-> t, form |-> v.form, ref |-> v.number,
                   party |-> v.party, filled |-> v.text]
<1>3. /\ d \in Documents /\ doc[d] = Absent /\ doc' = [doc EXCEPT ![d] = new] /\ counter' = counter + 1
      /\ EndRequest(r) /\ UNCHANGED <<type, form, retired>>
  BY <1>2, FreshIsAbsent, RowsAre DEF CreateDocument
<1>4. /\ new \in DocRows /\ new.state = "live" /\ new.type = t /\ new.form = v.form /\ new.ref = counter
      /\ new.filled = v.text
  BY <1>1, <1>2, RowsAre DEF DocRows, RequestRows
<1> HIDE DEF new
<1>5. doc' \in [Documents -> {Absent} \cup DocRows] /\ doc'[d] = new /\ new # Absent
      /\ \A e \in Documents \ {d} : doc'[e] = doc[e]
  BY <1>3, <1>4, RowsAre DEF DraftsIInv, DraftsTypeOK
<1>6. \A f : Published(f)' <=> Published(f)
  BY <1>3 DEF Published
<1>7. Made' = Made \cup {d} /\ d \notin Made /\ counter \in Nat \ {0}
  BY <1>3, <1>5, RowsAre DEF Made
<1>8. RequestsStand'
  <2> DEFINE S == Requests \ {r}
             X == {t, "counter"}
  <2>1. \A s \in S : request'[s] = request[s] /\ X \cap request[s].locks = {}
                     /\ request[s].shares \cap retired' \subseteq retired
    BY <1>2, <1>3, EndsRight
  <2>2. \A e \in Documents \ X : doc[e].state = "live" => doc'[e] = doc[e]
    BY <1>3, <1>5 DEF Absent
  <2>3. \A e \in Documents : doc'[e].state = "live" =>
          \/ doc[e].state = "live" /\ doc'[e].type = doc[e].type /\ doc'[e].form = doc[e].form
          \/ doc'[e].type \in X
    BY <1>4, <1>5
  <2>4. S \in SUBSET Requests /\ "counter" \in X
    OBVIOUS
  <2> HIDE DEF S, X
  <2>5. \A s \in S : Stands(s)'
    BY <1>3, <1>6, <2>1, <2>2, <2>3, <2>4, RestStand
  <2> QED
    BY <1>3, <2>5, EndsRight DEF RequestsStand, S
<1>9. BindsThePublished' /\ HighestIsThere'
  <2>1. type[t] # Absent
    BY <1>2 DEF Absent
  <2>2. v.form # None => Published(v.form)
    BY <1>2, <2>1 DEF DraftsIInv, BindsThePublished
  <2> QED
    BY <1>3, <1>4, <1>5, <1>6, <1>7, <2>2 DEF DraftsIInv, BindsThePublished, HighestIsThere, Made
<1>10. DataFitsItsForm' /\ DraftsHaveTheirRecords'
  <2>1. LiveDocs' = LiveDocs \cup {d} /\ d \notin LiveDocs
    BY <1>3, <1>4, <1>5 DEF LiveDocs, Absent
  <2>2. \A e \in LiveDocs : doc'[e] = doc[e]
    BY <1>5, <2>1 DEF LiveDocs
  <2>3. \A e \in LiveDocs : HeldTo(e)' = HeldTo(e)
    BY <1>3, <2>2 DEF HeldTo, DefinitionOf
  <2>4. doc'[d].filled = HeldTo(d)'
    BY <1>2, <1>3, <1>4, <1>5 DEF HeldTo, DefinitionOf
  <2> QED
    BY <1>2, <1>3, <1>4, <1>5, <2>1, <2>2, <2>3, <2>4
    DEF DraftsIInv, DataFitsItsForm, DraftsHaveTheirRecords
<1>11. ReferencesAreGapless' /\ IsFiniteSet(Made)'
  <2> PICK M : M = Made
    OBVIOUS
  <2>1. IsFiniteSet(M) /\ {doc[e].ref : e \in M} = 1..(counter - 1) /\ Cardinality(M) = counter - 1
    BY DEF DraftsIInv, ReferencesAreGapless, Made
  <2>2. IsFiniteSet(M \cup {d}) /\ Cardinality(M \cup {d}) = Cardinality(M) + 1
    BY <1>7, <2>1, FS_AddElement
  <2>3. Cardinality(M \cup {d}) = counter
    BY <1>7, <2>1, <2>2
  <2>4. {doc'[e].ref : e \in M \cup {d}} = {doc[e].ref : e \in M} \cup {counter}
    BY <1>4, <1>5, <1>7 DEF Made
  <2>5. 1..(counter - 1) \cup {counter} = 1..(counter' - 1) /\ counter' - 1 = counter
    BY <1>3, <1>7
  <2>6. {doc'[e].ref : e \in M \cup {d}} = 1..(counter' - 1)
    BY <2>1, <2>4, <2>5
  <2>7. Cardinality(M \cup {d}) = counter' - 1
    BY <2>3, <2>5
  <2> QED
    BY <1>7, <2>2, <2>6, <2>7 DEF ReferencesAreGapless, Made
<1>12. DraftsTypeOK'
  BY <1>3, <1>5, <1>7, <1>8 DEF DraftsIInv, DraftsTypeOK, RequestsStand
<1> QED
  BY <1>8, <1>9, <1>10, <1>11, <1>12 DEF DraftsIInv, RequestsStand

LEMMA DeletePartyKeeps ==
  ASSUME DraftsConstantsOK, DraftsIInv, NEW p \in Parties, DeleteParty(p)
  PROVE  DraftsIInv'
<1>1. /\ \A s \in Requests : p \notin request[s].shares
      /\ retired' = retired \cup {p} /\ UNCHANGED <<type, form, doc, counter, request>>
  BY DEF DeleteParty, Free
<1>2. \A f : Published(f)' <=> Published(f)
  BY <1>1 DEF Published
<1>3. \A s \in Requests : Stands(s)'
  <2> DEFINE S == Requests
             X == {}
  <2>1. \A s \in S : request'[s] = request[s] /\ X \cap request[s].locks = {}
                     /\ request[s].shares \cap retired' \subseteq retired
    BY <1>1
  <2>2. S \in SUBSET Requests
    OBVIOUS
  <2> HIDE DEF S, X
  <2>3. \A s \in S : Stands(s)'
    BY <1>1, <1>2, <2>1, <2>2, RestStand
  <2> QED
    BY <2>3 DEF S
<1>4. DraftsTypeOK' /\ LocksExclude'
  BY <1>1 DEF DraftsIInv, DraftsTypeOK, LocksExclude
<1>5. DataFitsItsForm' /\ DraftsHaveTheirRecords'
  BY <1>1 DEF DraftsIInv, DataFitsItsForm, DraftsHaveTheirRecords, LiveDocs, HeldTo, DefinitionOf
<1>6. ReferencesAreGapless' /\ IsFiniteSet(Made)'
  BY <1>1 DEF DraftsIInv, ReferencesAreGapless, Made
<1>7. BindsThePublished'
  BY <1>1, <1>2 DEF DraftsIInv, BindsThePublished, Made
<1>8. HighestIsThere'
  BY <1>1 DEF DraftsIInv, HighestIsThere
<1> QED
  BY <1>1, <1>3, <1>4, <1>5, <1>6, <1>7, <1>8 DEF DraftsIInv

LEMMA DraftsInitInvariant ==
  ASSUME DraftsConstantsOK, DraftsInit
  PROVE  DraftsIInv
<1>1. /\ \A t \in Types : type[t].state = "absent" /\ type[t] = Absent
      /\ \A f \in Forms : form[f] = Absent
      /\ \A d \in Documents : doc[d].state = "absent" /\ doc[d] = Absent
      /\ \A r \in Requests : request[r] = NoRequest
  BY DEF DraftsInit, Absent
<1>2. NoRequest \in RequestRows /\ NoRequest.at = "idle" /\ NoRequest.locks = {} /\ NoRequest.shares = {}
  BY DEF NoRequest, RequestRows, Places
<1>3. DraftsTypeOK /\ request \in [Requests -> RequestRows]
  BY <1>1, <1>2 DEF DraftsInit, DraftsTypeOK, Places
<1>4. Made = {} /\ LiveDocs = {}
  BY <1>1 DEF Made, LiveDocs
<1>5. ReferencesAreGapless /\ IsFiniteSet(Made)
  <2>1. {doc[d].ref : d \in {}} = 1..(counter - 1) /\ Cardinality({}) = counter - 1
    BY FS_EmptySet DEF DraftsInit
  <2> QED
    BY <1>4, <2>1, FS_EmptySet DEF ReferencesAreGapless, Made
<1>6. DataFitsItsForm /\ DraftsHaveTheirRecords /\ BindsThePublished /\ HighestIsThere
  BY <1>1, <1>4 DEF DataFitsItsForm, DraftsHaveTheirRecords, BindsThePublished, HighestIsThere
<1>7. LocksExclude
  BY <1>1, <1>2 DEF LocksExclude
<1>8. \A r \in Requests : Stands(r)
  BY <1>1 DEF NoRequest, Stands, Creates, Updates, Links, Binds, Revises
<1> QED
  BY <1>3, <1>5, <1>6, <1>7, <1>8 DEF DraftsIInv

LEMMA DraftsNextInvariant ==
  ASSUME DraftsConstantsOK, DraftsIInv, [DraftsNext]_draftVars
  PROVE  DraftsIInv'
<1>1. ASSUME NEW r \in Requests, Fail(r)
      PROVE  DraftsIInv'
  BY <1>1, FailKeeps
<1>2. ASSUME NEW r \in Requests, NEW t \in Types,
             LockPinnedForm(r, t) \/ ReadType(r, t) \/ LockRetiringType(r, t)
      PROVE  DraftsIInv'
  BY <1>2, OpeningKeeps, BeginningKeeps
<1>3. ASSUME NEW r \in Requests, NEW d \in Documents, OpenDraft(r, d)
      PROVE  DraftsIInv'
  BY <1>3, OpeningKeeps
<1>4. ASSUME NEW r \in Requests,
             (\E p \in Parties : LinkEntity(r, p)) \/ (\E cleared \in BOOLEAN : LinkNothing(r, cleared))
      PROVE  DraftsIInv'
  BY <1>4, LinkingKeeps
<1>5. ASSUME NEW r \in Requests,
             AllocateReference(r) \/ CreateDocument(r) \/ PinnedFormOf(r) \/ UpdateDocument(r)
      PROVE  DraftsIInv'
  BY <1>5, AllocateKeeps, CreateDocumentKeeps, FindingTheFormKeeps, DraftsKeep
<1>6. ASSUME NEW r \in Requests, NEW flows \in SUBSET Flows,
             UpdateType(r, flows) \/ \E f \in Forms \cup {None} : CreateType(r, f, flows)
      PROVE  DraftsIInv'
  BY <1>6, TypesKeep, BeginningKeeps
<1>7. ASSUME NEW r \in Requests,
             (\E stated \in BOOLEAN : LockType(r, stated)) \/ (\E f \in Forms \cup {None} : CheckBindings(r, f))
      PROVE  DraftsIInv'
  BY <1>7, RebindingKeeps
<1>8. ASSUME NEW r \in Requests, InsertType(r) \/ DeleteType(r)
      PROVE  DraftsIInv'
  BY <1>8, TypesKeep
<1>9. ASSUME NEW r \in Requests,
             \/ \E text \in Texts : ReadHighest(r, text)
             \/ \E f \in Forms : LockForPublish(r, f)
             \/ \E f \in Forms, text \in Texts : ReadForm(r, f, text)
      PROVE  DraftsIInv'
  BY <1>9, BeginningKeeps
<1>10. ASSUME NEW r \in Requests, InsertForm(r) \/ UpdateDraft(r) \/ PublishForm(r)
       PROVE  DraftsIInv'
  BY <1>10, InsertFormKeeps, SavingKeeps
<1>11. CASE \/ \E d \in Documents : DeleteDocument(d)
            \/ \E p \in Parties : DeleteParty(p)
            \/ \E f \in Forms : DeleteForm(f)
  BY <1>11, DraftsKeep, DeletePartyKeeps, SavingKeeps
<1>12. CASE UNCHANGED draftVars
  <2>1. UNCHANGED <<type, form, doc, counter, retired>> /\ UNCHANGED request
    BY <1>12 DEF draftVars
  <2>2. \A f : Published(f)' <=> Published(f)
    BY <2>1 DEF Published
  <2>3. \A r \in Requests : Stands(r)'
    <3> DEFINE S == Requests
               X == {}
    <3>1. \A s \in S : request'[s] = request[s] /\ X \cap request[s].locks = {}
                       /\ request[s].shares \cap retired' \subseteq retired
      BY <2>1
    <3>2. S \in SUBSET Requests
      OBVIOUS
    <3> HIDE DEF S, X
    <3>3. \A s \in S : Stands(s)'
      BY <2>1, <2>2, <3>1, <3>2, RestStand
    <3> QED
      BY <3>3 DEF S
  <2>4. DraftsTypeOK' /\ LocksExclude' /\ HighestIsThere'
    BY <2>1 DEF DraftsIInv, DraftsTypeOK, LocksExclude, HighestIsThere
  <2>5. DataFitsItsForm' /\ DraftsHaveTheirRecords'
    BY <2>1 DEF DraftsIInv, DataFitsItsForm, DraftsHaveTheirRecords, LiveDocs, HeldTo, DefinitionOf
  <2>6. ReferencesAreGapless' /\ IsFiniteSet(Made)' /\ BindsThePublished'
    BY <2>1, <2>2 DEF DraftsIInv, ReferencesAreGapless, Made, BindsThePublished
  <2> QED
    BY <2>1, <2>3, <2>4, <2>5, <2>6 DEF DraftsIInv
<1> QED
  BY <1>1, <1>2, <1>3, <1>4, <1>5, <1>6, <1>7, <1>8, <1>9, <1>10, <1>11, <1>12 DEF DraftsNext

(* The inductive invariant of drafts: what each request has read of the rows  *)
(* that it holds is so still, and what was published stays as it was          *)
(* (lock_pinned_form, pinned_form_of, lock_type_binding, lock_for_publish).   *)
THEOREM DraftsInvariance ==
  ASSUME DraftsConstantsOK
  PROVE  DraftsSpec => []DraftsIInv
<1>1. DraftsInit => DraftsIInv
  BY DraftsInitInvariant
<1>2. DraftsIInv /\ [DraftsNext]_draftVars => DraftsIInv'
  BY DraftsNextInvariant
<1> QED
  BY <1>1, <1>2, PTL DEF DraftsSpec

(* Types, revisions, drafts and requests keep the shapes of their rows.       *)
THEOREM DraftsTypeCorrect ==
  ASSUME DraftsConstantsOK
  PROVE  DraftsSpec => []DraftsTypeOK
<1>1. DraftsIInv => DraftsTypeOK
  BY DEF DraftsIInv
<1> QED
  BY <1>1, DraftsInvariance, PTL

(* No order of creations, updates, rebindings, publications and deletions     *)
(* holds a draft to a definition that its data was not evaluated against,     *)
(* takes its type away, binds what was not published, or gives a reference    *)
(* twice or leaves one out (create_document, update_document, update_type,    *)
(* delete_type, publish_form, allocate_reference).                            *)
THEOREM DraftsWhole ==
  ASSUME DraftsConstantsOK
  PROVE  DraftsSpec => []DraftsAreWhole
<1>1. DraftsIInv => DraftsAreWhole
  BY DEF DraftsIInv, DraftsAreWhole
<1> QED
  BY <1>1, DraftsInvariance, PTL

\* Drafts are written by a creation, an update and a deletion.
LEMMA WhoWritesDrafts ==
  ASSUME [DraftsNext]_draftVars
  PROVE  \/ \E r \in Requests : CreateDocument(r) \/ UpdateDocument(r)
         \/ \E d \in Documents : DeleteDocument(d)
         \/ UNCHANGED doc
<1>1. ASSUME NEW r \in Requests,
             \/ Fail(r)
             \/ \E t \in Types : LockPinnedForm(r, t) \/ ReadType(r, t) \/ LockRetiringType(r, t)
             \/ \E d \in Documents : OpenDraft(r, d)
             \/ \E p \in Parties : LinkEntity(r, p)
             \/ \E cleared \in BOOLEAN : LinkNothing(r, cleared)
             \/ AllocateReference(r) \/ PinnedFormOf(r)
      PROVE  UNCHANGED doc
  BY <1>1 DEF Fail, LockPinnedForm, ReadType, LockRetiringType, OpenDraft, LinkEntity, LinkNothing,
              AllocateReference, PinnedFormOf, RequestsOnly
<1>2. ASSUME NEW r \in Requests,
             \/ \E flows \in SUBSET Flows :
                  \/ UpdateType(r, flows)
                  \/ \E f \in Forms \cup {None} : CreateType(r, f, flows)
             \/ \E stated \in BOOLEAN : LockType(r, stated)
             \/ InsertType(r) \/ DeleteType(r)
             \/ \E f \in Forms \cup {None} : CheckBindings(r, f)
      PROVE  UNCHANGED doc
  BY <1>2 DEF UpdateType, CreateType, LockType, InsertType, DeleteType, CheckBindings, RequestsOnly
<1>3. ASSUME NEW r \in Requests,
             \/ \E text \in Texts : ReadHighest(r, text)
             \/ \E f \in Forms : LockForPublish(r, f)
             \/ \E f \in Forms, text \in Texts : ReadForm(r, f, text)
             \/ InsertForm(r) \/ UpdateDraft(r) \/ PublishForm(r)
      PROVE  UNCHANGED doc
  BY <1>3 DEF ReadHighest, LockForPublish, ReadForm, InsertForm, UpdateDraft, PublishForm, RequestsOnly
<1>4. ASSUME (\E p \in Parties : DeleteParty(p)) \/ (\E f \in Forms : DeleteForm(f))
      PROVE  UNCHANGED doc
  BY <1>4 DEF DeleteParty, DeleteForm
<1> QED
  BY <1>1, <1>2, <1>3, <1>4 DEF DraftsNext, draftVars

(* A draft comes to be linked to a party only while that is live: the one     *)
(* that its request names is held from its check to the commit                *)
(* (lock_linked_entity, delete_party).                                        *)
THEOREM LinkedLive ==
  ASSUME DraftsConstantsOK
  PROVE  DraftsSpec => LinkedToTheLive
<1>1. ASSUME DraftsConstantsOK, DraftsIInv, [DraftsNext]_draftVars, NEW d \in Documents,
             doc'[d].state = "live", doc'[d].party # None,
             doc'[d].party # (IF d \in LiveDocs THEN doc[d].party ELSE None)
      PROVE  doc'[d].party \notin retired
  <2>0. doc[d] = Absent \/ doc[d] \in DocRows
    BY <1>1, RowsAre
  <2>1. CASE \E r \in Requests : CreateDocument(r)
    <3> PICK r \in Requests : CreateDocument(r)
      BY <2>1
    <3> PICK v, e : v = request[r] /\ e = Fresh(doc)
      OBVIOUS
    <3>1. v.at = "numbered" /\ Stands(r) /\ v \in RequestRows
      BY <1>1, RowsAre DEF CreateDocument, DraftsIInv
    <3>2. v.on \in Types /\ v.on \notin Documents
      BY <1>1, <3>1, NamesDiffer DEF Stands, Creates
    <3>3. v.party # None => v.party \notin retired
      BY <3>1, <3>2 DEF Stands, Links
    <3>4. doc' = [doc EXCEPT ![e] = [state |-> "live", type |-> v.on, form |-> v.form, ref |-> v.number,
                                     party |-> v.party, filled |-> v.text]]
      BY DEF CreateDocument
    <3>5. d # e => doc'[d] = doc[d]
      BY <3>4
    <3>6. d = e => doc'[d].party = v.party
      BY <1>1, <3>4, RowsAre
    <3> QED
      BY <1>1, <3>3, <3>5, <3>6 DEF LiveDocs
  <2>2. CASE \E r \in Requests : UpdateDocument(r)
    <3> PICK r \in Requests : UpdateDocument(r)
      BY <2>2
    <3> PICK v, e : v = request[r] /\ e = v.on
      OBVIOUS
    <3>1. v.at \in {"checked", "governed"} /\ e \in Documents /\ Stands(r)
      BY <1>1 DEF UpdateDocument, DraftsIInv
    <3>2. doc[e].state = "live" /\ e \in LiveDocs /\ doc[e] \in DocRows
      BY <1>1, <3>1, RowsAre DEF Stands, Updates, LiveDocs, Absent
    <3>3. v.party # None => v.party \notin retired \/ doc[e].party = v.party
      BY <3>1 DEF Stands, Links
    <3>4. doc' = [doc EXCEPT ![e].party = v.party,
                             ![e].filled = IF v.at = "governed" THEN v.text ELSE @]
      BY DEF UpdateDocument
    <3>5. d # e => doc'[d] = doc[d]
      BY <1>1, <3>2, <3>4, RowsAre DEF DocRows
    <3>6. d = e => doc'[d].party = v.party
      BY <1>1, <3>2, <3>4, RowsAre DEF DocRows
    <3> QED
      BY <1>1, <3>2, <3>3, <3>5, <3>6 DEF LiveDocs
  <2>3. CASE \E e \in Documents : DeleteDocument(e)
    <3> PICK e \in Documents : DeleteDocument(e)
      BY <2>3
    <3>1. e \in LiveDocs /\ doc[e] \in DocRows /\ doc' = [doc EXCEPT ![e].state = "deleted"]
      BY <1>1, RowsAre DEF DeleteDocument, LiveDocs, Absent
    <3>2. d # e /\ doc'[d] = doc[d]
      BY <1>1, <3>1, RowsAre DEF DocRows
    <3> QED
      BY <1>1, <3>2 DEF LiveDocs
  <2>4. CASE UNCHANGED doc
    BY <1>1, <2>4 DEF LiveDocs
  <2> QED
    BY <1>1, <2>1, <2>2, <2>3, <2>4, WhoWritesDrafts
<1>2. DraftsIInv /\ [DraftsNext]_draftVars =>
        [\A d \in Documents :
           LET linked == doc'[d].state = "live" /\ doc'[d].party # None
               before == IF d \in LiveDocs THEN doc[d].party ELSE None
           IN  linked /\ doc'[d].party # before => doc'[d].party \notin retired]_draftVars
  BY <1>1
<1> QED
  BY <1>2, DraftsInvariance, PTL DEF DraftsSpec, LinkedToTheLive

(* The bindings that an update replaces are those that its caller said it     *)
(* read: they are compared under the lock that the update commits with        *)
(* (lock_type_binding, same_bindings, replace_workflows).                     *)
THEOREM Replaces ==
  ASSUME DraftsConstantsOK
  PROVE  DraftsSpec => ReplacesWhatWasRead
<1>1. DraftsIInv =>
        [\A r \in Requests :
           request[r].at = "bound" /\ type' # type /\ request'[r] # request[r] =>
             \A flows \in request[r].flows : type[request[r].on].flows = flows]_draftVars
  BY DEF DraftsIInv, Stands, Binds
<1> QED
  BY <1>1, DraftsInvariance, PTL DEF ReplacesWhatWasRead

-----------------------------------------------------------------------------
(* What comes late starts from what is: an edit of a system that was switched *)
(* off meanwhile, a link to a party that was deleted, and bindings that were  *)
(* replaced by another request are all refused under the lock that the commit *)
(* is made with.                                                              *)
THEOREM ChangesStart ==
  ASSUME IntegrationConstantsOK, DraftsConstantsOK
  PROVE  IntegrationSpec /\ DraftsSpec => ChangesStartFromWhatIs
<1>1. IntegrationSpec => OnlyActivationRevives
  BY ActivationRevives
<1>2. DraftsSpec => LinkedToTheLive /\ ReplacesWhatWasRead
  BY LinkedLive, Replaces, PTL
<1> QED
  BY <1>1, <1>2, PTL DEF ChangesStartFromWhatIs

-----------------------------------------------------------------------------
(***************************************************************************)
(* Numbering                                                               *)
(***************************************************************************)

\* The row of a bucket is held by the gapless submission that has its next
\* number, and by no other.
LocksInv ==
    \A k \in Keys :
        /\ holder[k] = {d \in Docs : sub[d].pc = "numbered" /\ ~sub[d].tolerant /\ sub[d].key = k}
        /\ \A d, e \in holder[k] : d = e
        /\ \A d \in holder[k] : sub[d].number = NextOf(k)

Committed(d) == d \in Numbered /\ (sub[d].pc = "submitted" \/ sub[d].tolerant)

\* What is committed is below the counter.
CountedInv ==
    \A d \in Docs : Committed(d) /\ sub[d].key \notin rewound => sub[d].number < bucket[sub[d].key]

NumberingIInv == TypeOK /\ LocksInv /\ CountedInv /\ EveryNumberIsAccountedFor /\ NoNumberIsTakenTwice

-----------------------------------------------------------------------------
(* What TypeOK says of one submission, by where it stands.                 *)
LEMMA SubmissionFields ==
    ASSUME TypeOK, NEW d \in Docs
    PROVE  /\ sub[d].pc \in {"draft", "begun", "judged", "numbered", "submitted"}
           /\ sub[d].pc = "begun" => sub[d].at \in Times /\ sub[d].tolerant \in BOOLEAN
           /\ sub[d].pc = "judged" => sub[d].key \in Keys /\ sub[d].tolerant \in BOOLEAN
           /\ sub[d].pc \in {"numbered", "submitted"} =>
                /\ sub[d] \in WithNumber
                /\ sub[d].key \in Keys /\ sub[d].tolerant \in BOOLEAN
                /\ sub[d].number \in Nat \ {0} /\ sub[d].number <= MaxNumber
<1>1. sub[d] \in {Draft} \cup Begun \cup Judged \cup WithNumber
  BY DEF TypeOK
<1>2. CASE sub[d] = Draft
  BY <1>2 DEF Draft
<1>3. CASE sub[d] \in Begun
  BY <1>3 DEF Begun
<1>4. CASE sub[d] \in Judged
  BY <1>4 DEF Judged
<1>5. CASE sub[d] \in WithNumber
  BY <1>5, BoundsAssumption DEF WithNumber
<1> QED
  BY <1>1, <1>2, <1>3, <1>4, <1>5

(* The bucket an allocation or an edit names is one of the type's.         *)
LEMMA KeyType ==
    /\ \A s \in Scopes, d \in Docs, at \in Times : Key(s, Department[d], at) \in Keys
    /\ \A s \in Scopes, at \in Times :
        (IF s = "DEPARTMENT_YEAR" THEN <<>> ELSE Key(s, 0, at)) \in Keys
<1>1. ASSUME NEW s \in Scopes, NEW d \in Docs, NEW at \in Times
      PROVE  Key(s, Department[d], at) \in Keys
  BY DEF Keys
<1>2. ASSUME NEW s \in Scopes, NEW at \in Times
      PROVE  (IF s = "DEPARTMENT_YEAR" THEN <<>> ELSE Key(s, 0, at)) \in Keys
  <2>1. PICK d \in Docs : TRUE
    BY DocsAssumption
  <2>2. CASE s = "DEPARTMENT_YEAR"
    <3>1. Key("GLOBAL", Department[d], at) = <<>>
      BY DEF Key
    <3>2. Key("GLOBAL", Department[d], at) \in Keys
      BY DEF Keys
    <3> QED
      BY <2>2, <3>1, <3>2
  <2>3. CASE s # "DEPARTMENT_YEAR"
    <3>1. s \in {"GLOBAL", "YEAR", "MONTH"}
      BY <2>3, ScopesAssumption
    <3>2. Key(s, 0, at) = Key(s, Department[d], at)
      BY <3>1 DEF Key
    <3> QED
      BY <2>3, <3>2, <1>1
  <2> QED
    BY <2>2, <2>3
<1> QED
  BY <1>1, <1>2

(* What the counter hands out is positive, and not below it.               *)
LEMMA NextOfType ==
    ASSUME TypeOK, NEW k \in Keys
    PROVE  NextOf(k) \in Nat \ {0} /\ bucket[k] <= NextOf(k) /\ (bucket[k] # 0 => NextOf(k) = bucket[k])
BY DEF TypeOK, NextOf

-----------------------------------------------------------------------------
(* Types                                                                   *)

(* The initial states have the type.                                       *)
LEMMA NumberingInitType == Init => TypeOK
  BY DEF Init, TypeOK, Draft, NoEdit

(* Every step keeps it.                                                    *)
LEMMA NumberingNextType == TypeOK /\ [Next]_vars => TypeOK'
<1> SUFFICES ASSUME TypeOK, [Next]_vars PROVE TypeOK'
  OBVIOUS
<1> USE DEF TypeOK
<1>1. ASSUME NEW d \in Docs, Begin(d) PROVE TypeOK'
  BY <1>1 DEF Begin, Begun
<1>2. ASSUME NEW d \in Docs, Judge(d) PROVE TypeOK'
  <2>1. rule \in Rules /\ rule.scope \in Scopes
    BY <1>2 DEF Judge, Rules
  <2>2. sub[d].at \in Times /\ sub[d].tolerant \in BOOLEAN
    BY <1>2, SubmissionFields DEF Judge
  <2>3. Key(rule.scope, Department[d], sub[d].at) \in Keys
    BY <2>1, <2>2, KeyType
  <2> DEFINE new == [pc |-> "judged", tolerant |-> sub[d].tolerant,
                     key |-> Key(rule.scope, Department[d], sub[d].at)]
  <2>4. new \in Judged
    BY <2>2, <2>3 DEF Judged
  <2>5. sub' = [sub EXCEPT ![d] = new]
    BY <1>2 DEF Judge
  <2> HIDE DEF new
  <2>6. sub' \in [Docs -> {Draft} \cup Begun \cup Judged \cup WithNumber]
    BY <2>4, <2>5
  <2> QED
    BY <1>2, <2>6 DEF Judge
<1>3. ASSUME NEW d \in Docs, TakeNumber(d) PROVE TypeOK'
  <2>1. sub[d].key \in Keys /\ sub[d].tolerant \in BOOLEAN
    BY <1>3, SubmissionFields DEF TakeNumber
  <2>2. NextOf(sub[d].key) \in Nat \ {0} /\ NextOf(sub[d].key) <= MaxNumber
    BY <1>3, <2>1, NextOfType DEF TakeNumber
  <2> DEFINE new == [pc |-> "numbered", tolerant |-> sub[d].tolerant,
                     key |-> sub[d].key, number |-> NextOf(sub[d].key)]
  <2>3. new \in WithNumber
    BY <2>1, <2>2, BoundsAssumption DEF WithNumber
  <2>4. sub' = [sub EXCEPT ![d] = new]
    BY <1>3 DEF TakeNumber
  <2>5. bucket' \in [Keys -> Nat] /\ holder' \in [Keys -> SUBSET Docs]
    BY <1>3, <2>1, <2>2 DEF TakeNumber
  <2> HIDE DEF new
  <2>6. sub' \in [Docs -> {Draft} \cup Begun \cup Judged \cup WithNumber]
    BY <2>3, <2>4
  <2> QED
    BY <1>3, <2>5, <2>6 DEF TakeNumber
<1>4. ASSUME NEW d \in Docs, Commit(d) PROVE TypeOK'
  <2>1. sub[d] \in WithNumber /\ sub[d].key \in Keys /\ sub[d].number + 1 \in Nat
    BY <1>4, SubmissionFields DEF Commit
  <2>2. [sub[d] EXCEPT !.pc = "submitted"] \in WithNumber
    BY <2>1 DEF WithNumber
  <2>3. sub' = [sub EXCEPT ![d] = [sub[d] EXCEPT !.pc = "submitted"]]
    BY <1>4 DEF Commit
  <2>4. sub' \in [Docs -> {Draft} \cup Begun \cup Judged \cup WithNumber]
    BY <2>2, <2>3
  <2>5. bucket' \in [Keys -> Nat] /\ holder' \in [Keys -> SUBSET Docs]
    BY <1>4, <2>1 DEF Commit
  <2> QED
    BY <1>4, <2>4, <2>5 DEF Commit
<1>5. ASSUME NEW d \in Docs, RollBack(d) PROVE TypeOK'
  <2>1. sub' \in [Docs -> {Draft} \cup Begun \cup Judged \cup WithNumber]
    BY <1>5 DEF RollBack
  <2>2. holder' \in [Keys -> SUBSET Docs]
    BY <1>5 DEF RollBack
  <2>3. lost' \subseteq Keys \X Nat
    BY <1>5, SubmissionFields DEF RollBack, NumberOf
  <2> QED
    BY <1>5, <2>1, <2>2, <2>3 DEF RollBack
<1>6. ASSUME NEW a \in Admins, NEW r \in Rules, NEW seed \in 0..MaxNumber, ReadIssued(a, r, seed)
      PROVE TypeOK'
  <2> DEFINE key == IF r.scope = "DEPARTMENT_YEAR" THEN <<>> ELSE Key(r.scope, 0, now)
  <2>1. r.scope \in Scopes
    BY DEF Rules
  <2>2. key \in Keys
    BY <2>1, KeyType
  <2>3. edit' = [edit EXCEPT ![a] = [pc |-> "read", rule |-> r, seed |-> seed, key |-> key]]
    BY <1>6 DEF ReadIssued
  <2> HIDE DEF key
  <2>4. edit' \in [Admins -> {NoEdit} \cup Edit]
    BY <2>2, <2>3 DEF Edit
  <2> QED
    BY <1>6, <2>4 DEF ReadIssued
<1>7. ASSUME NEW a \in Admins, SetRule(a) PROVE TypeOK'
  <2>1. edit[a] \in Edit
    BY <1>7 DEF SetRule, NoEdit
  <2>2. edit[a].rule \in Rules /\ edit[a].seed \in Nat /\ edit[a].key \in Keys
    BY <2>1, BoundsAssumption DEF Edit
  <2>3. bucket' \in [Keys -> Nat] /\ rewound' \subseteq Keys
    BY <1>7, <2>2 DEF SetRule
  <2>4. skipped' \subseteq Keys \X Nat
    <3>1. NextOf(edit[a].key) \in Nat
      BY <2>2, NextOfType
    <3>2. {<<edit[a].key, n>> : n \in NextOf(edit[a].key)..(edit[a].seed - 1)} \subseteq Keys \X Nat
      BY <2>2, <3>1
    <3> QED
      BY <1>7, <3>2 DEF SetRule
  <2>5. edit' \in [Admins -> {NoEdit} \cup Edit] /\ edits' \in Nat
    BY <1>7 DEF SetRule
  <2> QED
    BY <1>7, <2>2, <2>3, <2>4, <2>5 DEF SetRule
<1>8. CASE ClearRule
  BY <1>8 DEF ClearRule
<1>9. CASE Tick
  BY <1>9 DEF Tick
<1>10. CASE UNCHANGED vars
  BY <1>10 DEF vars
<1> QED
  BY <1>1, <1>2, <1>3, <1>4, <1>5, <1>6, <1>7, <1>8, <1>9, <1>10 DEF Next

-----------------------------------------------------------------------------
(* The numbers                                                             *)

Rest == LocksInv /\ CountedInv /\ EveryNumberIsAccountedFor /\ NoNumberIsTakenTwice

(* A step that neither gives, takes nor returns a number and leaves the    *)
(* buckets alone keeps everything said of them.                            *)
LEMMA Frame ==
    ASSUME NumberingIInv, UNCHANGED <<bucket, holder, lost, skipped, rewound>>,
           \A d \in Docs : \/ sub'[d] = sub[d]
                           \/ d \notin Numbered /\ sub'[d].pc \notin {"numbered", "submitted"}
    PROVE  Rest'
<1>1. Numbered' = Numbered /\ \A d \in Numbered : sub'[d] = sub[d]
  BY DEF Numbered
<1>2. \A d \in Numbered : NumberOf(d)' = NumberOf(d)
  BY <1>1 DEF NumberOf
<1>3. \A k \in Keys : NextOf(k)' = NextOf(k)
  BY DEF NextOf
<1>4. LocksInv'
  BY <1>1, <1>3 DEF NumberingIInv, LocksInv, Numbered
<1>5. CountedInv'
  BY <1>1 DEF NumberingIInv, CountedInv, Committed
<1>6. EveryNumberIsAccountedFor'
  BY <1>1, <1>2 DEF NumberingIInv, EveryNumberIsAccountedFor
<1>7. NoNumberIsTakenTwice'
  BY <1>1, <1>2 DEF NumberingIInv, NoNumberIsTakenTwice
<1> QED
  BY <1>4, <1>5, <1>6, <1>7 DEF Rest

(* A number is taken: nobody has the row, so nobody has that number.       *)
LEMMA TakeNumberStep ==
    ASSUME NumberingIInv, NEW d \in Docs, TakeNumber(d)
    PROVE  Rest'
<1> DEFINE k == sub[d].key
           n == NextOf(k)
<1>1. TypeOK
  BY DEF NumberingIInv
<1>2. k \in Keys /\ sub[d].tolerant \in BOOLEAN /\ sub[d].pc = "judged" /\ holder[k] = {}
  BY <1>1, SubmissionFields DEF TakeNumber
<1>3. n \in Nat \ {0} /\ bucket[k] <= n /\ bucket[k] \in Nat /\ (bucket[k] # 0 => n = bucket[k])
  BY <1>1, <1>2, NextOfType DEF TypeOK
<1>4. /\ sub'[d] = [pc |-> "numbered", tolerant |-> sub[d].tolerant, key |-> k, number |-> n]
      /\ \A e \in Docs : e # d => sub'[e] = sub[e]
  BY <1>1 DEF TakeNumber, TypeOK
<1>5. d \notin Numbered /\ Numbered' = Numbered \cup {d}
  BY <1>2, <1>4 DEF Numbered
<1>6. NumberOf(d)' = <<k, n>> /\ \A e \in Numbered : NumberOf(e)' = NumberOf(e)
  BY <1>4, <1>5 DEF NumberOf, Numbered
<1>7. UNCHANGED <<lost, skipped, rewound>>
  BY DEF TakeNumber
<1>8. \A e \in Numbered : sub[e].key \in Keys /\ sub[e].number \in Nat
  BY <1>1, SubmissionFields DEF Numbered
\* Who has a number of this bucket has it committed, so below the counter.
<1>9. ASSUME NEW e \in Numbered, sub[e].key = k, k \notin rewound
      PROVE  sub[e].number < bucket[k]
  <2>1. e \in Docs /\ Committed(e)
    BY <1>1, <1>2, <1>9, SubmissionFields DEF NumberingIInv, LocksInv, Committed, Numbered
  <2> QED
    BY <2>1, <1>9 DEF NumberingIInv, CountedInv
<1>10. NoNumberIsTakenTwice'
  <2>1. ASSUME NEW e \in Numbered, NumberOf(e) = <<k, n>> PROVE k \in rewound
    BY <2>1, <1>3, <1>8, <1>9 DEF NumberOf
  <2> SUFFICES ASSUME NEW e \in Numbered', NEW f \in Numbered', e # f, NumberOf(e)' = NumberOf(f)'
               PROVE  sub'[e].key \in rewound'
    BY DEF NoNumberIsTakenTwice
  <2>2. CASE e = d
    <3>1. f \in Numbered /\ NumberOf(f) = <<k, n>>
      BY <2>2, <1>5, <1>6
    <3> QED
      BY <3>1, <2>1, <2>2, <1>4, <1>7
  <2>3. CASE f = d
    <3>1. e \in Numbered /\ NumberOf(e) = <<k, n>> /\ sub[e].key = k
      BY <2>3, <1>5, <1>6 DEF NumberOf
    <3>2. sub'[e].key = k
      BY <3>1, <2>3, <1>4 DEF Numbered
    <3> QED
      BY <3>1, <3>2, <2>1, <1>7
  <2>4. CASE e # d /\ f # d
    <3>1. e \in Numbered /\ f \in Numbered /\ NumberOf(e) = NumberOf(f) /\ sub'[e] = sub[e]
      BY <2>4, <1>4, <1>5, <1>6 DEF Numbered
    <3> QED
      BY <3>1, <1>7 DEF NumberingIInv, NoNumberIsTakenTwice
  <2> QED
    BY <2>2, <2>3, <2>4
<1>11. CASE sub[d].tolerant
  <2>1. bucket' = [bucket EXCEPT ![k] = n + 1] /\ holder' = holder
    BY <1>11 DEF TakeNumber
  <2>2. \A j \in Keys : bucket'[j] = IF j = k THEN n + 1 ELSE bucket[j]
    BY <2>1, <1>1 DEF TypeOK
  <2>3. LocksInv'
    <3> SUFFICES ASSUME NEW j \in Keys
                 PROVE  /\ holder'[j] = {e \in Docs : sub'[e].pc = "numbered" /\ ~sub'[e].tolerant /\ sub'[e].key = j}
                        /\ \A e, f \in holder'[j] : e = f
                        /\ \A e \in holder'[j] : sub'[e].number = NextOf(j)'
      BY DEF LocksInv
    <3>1. holder'[j] = holder[j] /\ d \notin holder[j]
      BY <2>1, <1>2 DEF NumberingIInv, LocksInv
    <3>2. holder[j] # {} => j # k
      BY <1>2
    <3>3. j # k => NextOf(j)' = NextOf(j)
      BY <2>2 DEF NextOf
    <3>4. holder'[j] = {e \in Docs : sub'[e].pc = "numbered" /\ ~sub'[e].tolerant /\ sub'[e].key = j}
      BY <3>1, <1>2, <1>4, <1>11 DEF NumberingIInv, LocksInv
    <3> QED
      BY <3>1, <3>2, <3>3, <3>4, <1>4 DEF NumberingIInv, LocksInv
  <2>4. CountedInv'
    <3> SUFFICES ASSUME NEW e \in Docs, Committed(e)', sub'[e].key \notin rewound
                 PROVE  sub'[e].number < bucket'[sub'[e].key]
      BY <1>7 DEF CountedInv
    <3>1. CASE e = d
      BY <3>1, <1>2, <1>3, <1>4, <2>2
    <3>2. CASE e # d
      <4>1. sub'[e] = sub[e] /\ Committed(e) /\ e \in Numbered
        BY <3>2, <1>4 DEF Committed, Numbered
      <4>2. sub[e].number < bucket[sub[e].key]
        BY <4>1 DEF NumberingIInv, CountedInv
      <4> QED
        BY <4>1, <4>2, <1>3, <1>8, <2>2
    <3> QED
      BY <3>1, <3>2
  <2>5. EveryNumberIsAccountedFor'
    <3> SUFFICES ASSUME NEW j \in Keys, NEW i \in 1..(bucket'[j] - 1)
                 PROVE  \/ \E e \in Numbered' : NumberOf(e)' = <<j, i>>
                        \/ <<j, i>> \in lost \cup skipped
      BY <1>7 DEF EveryNumberIsAccountedFor
    <3>1. CASE j = k /\ i = n
      BY <3>1, <1>5, <1>6
    <3>2. CASE ~(j = k /\ i = n)
      <4>1. i \in 1..(bucket[j] - 1)
        BY <3>2, <2>2, <1>1, <1>3 DEF NextOf, TypeOK
      <4>2. \/ \E e \in Numbered : NumberOf(e) = <<j, i>>
            \/ <<j, i>> \in lost \cup skipped
        BY <4>1 DEF NumberingIInv, EveryNumberIsAccountedFor
      <4> QED
        BY <4>2, <1>5, <1>6
    <3> QED
      BY <3>1, <3>2
  <2> QED
    BY <2>3, <2>4, <2>5, <1>10 DEF Rest
<1>12. CASE ~sub[d].tolerant
  <2>1. holder' = [holder EXCEPT ![k] = {d}] /\ bucket' = bucket
    BY <1>12 DEF TakeNumber
  <2>2. \A j \in Keys : holder'[j] = IF j = k THEN {d} ELSE holder[j]
    BY <2>1, <1>1 DEF TypeOK
  <2>3. LocksInv'
    <3> SUFFICES ASSUME NEW j \in Keys
                 PROVE  /\ holder'[j] = {e \in Docs : sub'[e].pc = "numbered" /\ ~sub'[e].tolerant /\ sub'[e].key = j}
                        /\ \A e, f \in holder'[j] : e = f
                        /\ \A e \in holder'[j] : sub'[e].number = NextOf(j)'
      BY DEF LocksInv
    <3>1. NextOf(j)' = NextOf(j)
      BY <2>1 DEF NextOf
    <3>2. holder'[j] = {e \in Docs : sub'[e].pc = "numbered" /\ ~sub'[e].tolerant /\ sub'[e].key = j}
      BY <2>2, <1>2, <1>4, <1>12 DEF NumberingIInv, LocksInv
    <3> QED
      BY <3>1, <3>2, <2>2, <1>2, <1>4 DEF NumberingIInv, LocksInv
  <2>4. CountedInv'
    BY <2>1, <1>4, <1>5, <1>7, <1>12 DEF NumberingIInv, CountedInv, Committed
  <2>5. EveryNumberIsAccountedFor'
    BY <2>1, <1>5, <1>6, <1>7 DEF NumberingIInv, EveryNumberIsAccountedFor
  <2> QED
    BY <2>3, <2>4, <2>5, <1>10 DEF Rest
<1> QED
  BY <1>2, <1>11, <1>12

(* A submission commits: its number is still the next one.                 *)
LEMMA CommitStep ==
    ASSUME NumberingIInv, NEW d \in Docs, Commit(d)
    PROVE  Rest'
<1> DEFINE k == sub[d].key
           n == sub[d].number
<1>1. TypeOK
  BY DEF NumberingIInv
<1>2. k \in Keys /\ sub[d].tolerant \in BOOLEAN /\ sub[d].pc = "numbered" /\ n \in Nat \ {0}
  BY <1>1, SubmissionFields DEF Commit
<1>3. /\ sub'[d].pc = "submitted" /\ sub'[d].tolerant = sub[d].tolerant
      /\ sub'[d].key = k /\ sub'[d].number = n
      /\ \A e \in Docs : e # d => sub'[e] = sub[e]
  BY <1>1, <1>2, SubmissionFields DEF Commit, TypeOK, WithNumber
<1>4. d \in Numbered /\ Numbered' = Numbered
  BY <1>2, <1>3 DEF Numbered
<1>5. \A e \in Numbered : NumberOf(e)' = NumberOf(e) /\ sub'[e].key = sub[e].key
  BY <1>3 DEF NumberOf, Numbered
<1>6. UNCHANGED <<lost, skipped, rewound>>
  BY DEF Commit
<1>7. NoNumberIsTakenTwice'
  BY <1>4, <1>5, <1>6 DEF NumberingIInv, NoNumberIsTakenTwice
<1>8. CASE sub[d].tolerant
  <2>1. UNCHANGED <<bucket, holder>>
    BY <1>8 DEF Commit
  <2>2. \A j \in Keys : d \notin holder[j]
    BY <1>8 DEF NumberingIInv, LocksInv
  <2>3. LocksInv'
    <3> SUFFICES ASSUME NEW j \in Keys
                 PROVE  /\ holder'[j] = {e \in Docs : sub'[e].pc = "numbered" /\ ~sub'[e].tolerant /\ sub'[e].key = j}
                        /\ \A e, f \in holder'[j] : e = f
                        /\ \A e \in holder'[j] : sub'[e].number = NextOf(j)'
      BY DEF LocksInv
    <3>1. NextOf(j)' = NextOf(j)
      BY <2>1 DEF NextOf
    <3> QED
      BY <3>1, <2>1, <2>2, <1>3, <1>8 DEF NumberingIInv, LocksInv
  <2>4. CountedInv'
    BY <2>1, <1>3, <1>4, <1>6, <1>8 DEF NumberingIInv, CountedInv, Committed
  <2>5. EveryNumberIsAccountedFor'
    BY <2>1, <1>4, <1>5, <1>6 DEF NumberingIInv, EveryNumberIsAccountedFor
  <2> QED
    BY <2>3, <2>4, <2>5, <1>7 DEF Rest
<1>9. CASE ~sub[d].tolerant
  <2>1. bucket' = [bucket EXCEPT ![k] = n + 1] /\ holder' = [holder EXCEPT ![k] = {}]
    BY <1>9 DEF Commit
  <2>2. \A j \in Keys : /\ bucket'[j] = IF j = k THEN n + 1 ELSE bucket[j]
                        /\ holder'[j] = IF j = k THEN {} ELSE holder[j]
    BY <2>1, <1>1 DEF TypeOK
  <2>3. holder[k] = {d} /\ n = NextOf(k)
    BY <1>2, <1>9 DEF NumberingIInv, LocksInv
  <2>4. bucket[k] \in Nat /\ bucket[k] <= n /\ (bucket[k] # 0 => n = bucket[k])
    BY <1>1, <1>2, <2>3, NextOfType DEF TypeOK
  <2>5. LocksInv'
    <3> SUFFICES ASSUME NEW j \in Keys
                 PROVE  /\ holder'[j] = {e \in Docs : sub'[e].pc = "numbered" /\ ~sub'[e].tolerant /\ sub'[e].key = j}
                        /\ \A e, f \in holder'[j] : e = f
                        /\ \A e \in holder'[j] : sub'[e].number = NextOf(j)'
      BY DEF LocksInv
    <3>1. holder[j] = {e \in Docs : sub[e].pc = "numbered" /\ ~sub[e].tolerant /\ sub[e].key = j}
      BY DEF NumberingIInv, LocksInv
    <3>2. CASE j = k
      BY <3>1, <3>2, <2>2, <2>3, <1>3
    <3>3. CASE j # k
      <4>1. NextOf(j)' = NextOf(j)
        BY <3>3, <2>2 DEF NextOf
      <4> QED
        BY <4>1, <3>1, <3>3, <2>2, <1>3 DEF NumberingIInv, LocksInv
    <3> QED
      BY <3>2, <3>3
  <2>6. CountedInv'
    <3> SUFFICES ASSUME NEW e \in Docs, Committed(e)', sub'[e].key \notin rewound
                 PROVE  sub'[e].number < bucket'[sub'[e].key]
      BY <1>6 DEF CountedInv
    <3>1. CASE e = d
      BY <3>1, <1>2, <1>3, <2>2
    <3>2. CASE e # d
      <4>1. sub'[e] = sub[e] /\ Committed(e) /\ e \in Numbered
        BY <3>2, <1>3, <1>4 DEF Committed
      <4>2. sub[e].number < bucket[sub[e].key]
        BY <4>1 DEF NumberingIInv, CountedInv
      <4>3. sub[e].key \in Keys /\ sub[e].number \in Nat
        BY <4>1, <1>1, SubmissionFields DEF Numbered
      <4> QED
        BY <4>1, <4>2, <4>3, <2>2, <2>4, <1>2
    <3> QED
      BY <3>1, <3>2
  <2>7. EveryNumberIsAccountedFor'
    <3> SUFFICES ASSUME NEW j \in Keys, NEW i \in 1..(bucket'[j] - 1)
                 PROVE  \/ \E e \in Numbered' : NumberOf(e)' = <<j, i>>
                        \/ <<j, i>> \in lost \cup skipped
      BY <1>6 DEF EveryNumberIsAccountedFor
    <3>1. CASE j = k /\ i = n
      <4>1. NumberOf(d)' = <<j, i>>
        BY <3>1, <1>3 DEF NumberOf
      <4> QED
        BY <4>1, <1>4
    <3>2. CASE ~(j = k /\ i = n)
      <4>1. i \in 1..(bucket[j] - 1)
        BY <3>2, <2>2, <2>3, <2>4, NextOfType, <1>1, <1>2 DEF NextOf
      <4>2. \/ \E e \in Numbered : NumberOf(e) = <<j, i>>
            \/ <<j, i>> \in lost \cup skipped
        BY <4>1 DEF NumberingIInv, EveryNumberIsAccountedFor
      <4> QED
        BY <4>2, <1>4, <1>5
    <3> QED
      BY <3>1, <3>2
  <2> QED
    BY <2>5, <2>6, <2>7, <1>7 DEF Rest
<1> QED
  BY <1>2, <1>8, <1>9

(* A submission rolls back: a gapless number was not counted yet, and a    *)
(* tolerant one is lost.                                                   *)
LEMMA RollBackStep ==
    ASSUME NumberingIInv, NEW d \in Docs, RollBack(d)
    PROVE  Rest'
<1>1. TypeOK
  BY DEF NumberingIInv
<1>2. sub'[d] = Draft /\ sub'[d].pc = "draft" /\ \A e \in Docs : e # d => sub'[e] = sub[e]
  BY <1>1 DEF RollBack, TypeOK, Draft
<1>3. UNCHANGED <<bucket, skipped, rewound>>
  BY DEF RollBack
<1>4. Numbered' = Numbered \ {d}
  BY <1>2 DEF Numbered
<1>5. \A e \in Numbered' : NumberOf(e)' = NumberOf(e) /\ sub'[e] = sub[e]
  BY <1>2, <1>4 DEF NumberOf, Numbered
<1>6. \A k \in Keys : holder'[k] = holder[k] \ {d} /\ NextOf(k)' = NextOf(k)
  BY <1>3 DEF RollBack, NextOf
<1>7. LocksInv'
  <2> SUFFICES ASSUME NEW j \in Keys
               PROVE  /\ holder'[j] = {e \in Docs : sub'[e].pc = "numbered" /\ ~sub'[e].tolerant /\ sub'[e].key = j}
                      /\ \A e, f \in holder'[j] : e = f
                      /\ \A e \in holder'[j] : sub'[e].number = NextOf(j)'
    BY DEF LocksInv
  <2> QED
    BY <1>2, <1>6 DEF NumberingIInv, LocksInv
<1>8. CountedInv'
  BY <1>2, <1>3, <1>4 DEF NumberingIInv, CountedInv, Committed
<1>9. NoNumberIsTakenTwice'
  BY <1>3, <1>4, <1>5 DEF NumberingIInv, NoNumberIsTakenTwice
<1>10. EveryNumberIsAccountedFor'
  <2> SUFFICES ASSUME NEW j \in Keys, NEW i \in 1..(bucket[j] - 1)
               PROVE  \/ \E e \in Numbered' : NumberOf(e)' = <<j, i>>
                      \/ <<j, i>> \in lost' \cup skipped
    BY <1>3 DEF EveryNumberIsAccountedFor
  <2>1. lost \subseteq lost'
    BY DEF RollBack
  <2>2. CASE <<j, i>> \in lost \cup skipped
    BY <2>1, <2>2
  <2>3. ASSUME NEW e \in Numbered, NumberOf(e) = <<j, i>>
        PROVE  (\E f \in Numbered' : NumberOf(f)' = <<j, i>>) \/ <<j, i>> \in lost'
    <3>1. CASE e # d
      BY <3>1, <2>3, <1>4, <1>5
    <3>2. CASE e = d
      <4>1. sub[d].pc = "numbered" /\ sub[d].key = j /\ sub[d].number = i
        BY <3>2, <2>3 DEF NumberOf, RollBack, Numbered
      <4>2. sub[d].tolerant
        <5> SUFFICES ASSUME ~sub[d].tolerant PROVE FALSE
          OBVIOUS
        <5>1. i = NextOf(j)
          BY <4>1 DEF NumberingIInv, LocksInv
        <5> QED
          BY <5>1, <1>1, NextOfType DEF TypeOK
      <4> QED
        BY <4>1, <4>2, <2>3, <3>2 DEF RollBack
    <3> QED
      BY <3>1, <3>2
  <2> QED
    BY <2>2, <2>3 DEF NumberingIInv, EveryNumberIsAccountedFor
<1> QED
  BY <1>7, <1>8, <1>9, <1>10 DEF Rest

(* An edit sets the rule, and may set a counter nobody holds.              *)
LEMMA SetRuleStep ==
    ASSUME NumberingIInv, NEW a \in Admins, SetRule(a)
    PROVE  Rest'
<1> DEFINE k == edit[a].key
           n == edit[a].seed
<1>1. TypeOK
  BY DEF NumberingIInv
<1>2. CASE n = 0
  <2>1. UNCHANGED <<bucket, holder, sub, lost, skipped, rewound>>
    BY <1>2 DEF SetRule
  <2> QED
    BY <2>1, Frame
<1>3. CASE n # 0
  <2>1. edit[a] \in Edit
    BY <1>1 DEF SetRule, NoEdit, TypeOK
  <2>2. k \in Keys /\ n \in Nat \ {0}
    BY <2>1, <1>3, BoundsAssumption DEF Edit
  <2>3. /\ holder[k] = {} /\ UNCHANGED <<holder, sub, lost>>
        /\ bucket' = [bucket EXCEPT ![k] = n]
        /\ skipped' = skipped \cup {<<k, i>> : i \in NextOf(k)..(n - 1)}
        /\ rewound' = IF n < bucket[k] THEN rewound \cup {k} ELSE rewound
    BY <1>3 DEF SetRule
  <2>4. \A j \in Keys : bucket'[j] = IF j = k THEN n ELSE bucket[j]
    BY <2>3, <1>1 DEF TypeOK
  <2>5. Numbered' = Numbered /\ \A e \in Numbered : NumberOf(e)' = NumberOf(e)
    BY <2>3 DEF Numbered, NumberOf
  <2>6. LocksInv'
    <3> SUFFICES ASSUME NEW j \in Keys, NEW e \in holder[j]
                 PROVE  NextOf(j)' = NextOf(j)
      BY <2>3 DEF NumberingIInv, LocksInv
    <3>1. j # k
      BY <2>3
    <3> QED
      BY <3>1, <2>4 DEF NextOf
  <2>7. CountedInv'
    <3> SUFFICES ASSUME NEW e \in Docs, Committed(e), sub[e].key \notin rewound'
                 PROVE  sub[e].number < bucket'[sub[e].key]
      BY <2>3 DEF CountedInv, Committed, Numbered
    <3>1. sub[e].key \in Keys /\ sub[e].number \in Nat /\ bucket[k] \in Nat
      BY <1>1, <2>2, SubmissionFields DEF Committed, Numbered, TypeOK
    <3>2. sub[e].key \notin rewound
      BY <2>3
    <3>3. sub[e].number < bucket[sub[e].key]
      BY <3>2 DEF NumberingIInv, CountedInv
    <3>4. sub[e].key = k => bucket[k] <= n
      BY <2>2, <2>3, <3>1
    <3> QED
      BY <3>1, <3>3, <3>4, <2>2, <2>4
  <2>8. NoNumberIsTakenTwice'
    BY <2>3, <2>5 DEF NumberingIInv, NoNumberIsTakenTwice
  <2>9. EveryNumberIsAccountedFor'
    <3> SUFFICES ASSUME NEW j \in Keys, NEW i \in 1..(bucket'[j] - 1)
                 PROVE  \/ \E e \in Numbered : NumberOf(e) = <<j, i>>
                        \/ <<j, i>> \in lost \cup skipped'
      BY <2>3, <2>5 DEF EveryNumberIsAccountedFor
    <3>1. CASE i \in 1..(bucket[j] - 1)
      BY <3>1, <2>3 DEF NumberingIInv, EveryNumberIsAccountedFor
    <3>2. CASE i \notin 1..(bucket[j] - 1)
      <4>1. j = k
        BY <3>2, <2>4
      <4>2. bucket[k] \in Nat /\ i \in 1..(n - 1)
        BY <4>1, <1>1, <2>2, <2>4 DEF TypeOK
      <4>3. i \in NextOf(k)..(n - 1)
        BY <3>2, <4>1, <4>2, <2>2 DEF NextOf
      <4> QED
        BY <4>1, <4>3, <2>3
    <3> QED
      BY <3>1, <3>2
  <2> QED
    BY <2>6, <2>7, <2>8, <2>9 DEF Rest
<1> QED
  BY <1>2, <1>3

-----------------------------------------------------------------------------
(* The inductive invariant.                                                *)
THEOREM NumberingInvariance == Spec => []NumberingIInv
<1>1. Init => NumberingIInv
  <2> SUFFICES ASSUME Init PROVE NumberingIInv
    OBVIOUS
  <2>1. Numbered = {}
    BY DEF Init, Numbered, Draft
  <2>2. \A k \in Keys : bucket[k] = 0 /\ holder[k] = {}
    BY DEF Init
  <2>3. LocksInv
    BY <2>1, <2>2 DEF LocksInv, Numbered
  <2> QED
    BY <2>1, <2>2, <2>3, NumberingInitType
    DEF NumberingIInv, CountedInv, Committed, EveryNumberIsAccountedFor, NoNumberIsTakenTwice
<1>2. NumberingIInv /\ [Next]_vars => NumberingIInv'
  <2> SUFFICES ASSUME NumberingIInv, [Next]_vars PROVE Rest'
    BY NumberingNextType DEF NumberingIInv, Rest
  <2>1. ASSUME NEW d \in Docs, Begin(d) \/ Judge(d) PROVE Rest'
    <3>1. UNCHANGED <<bucket, holder, lost, skipped, rewound>>
      BY <2>1 DEF Begin, Judge
    <3>2. sub[d].pc \in {"draft", "begun"} /\ sub'[d].pc \in {"begun", "judged"}
          /\ \A e \in Docs : e # d => sub'[e] = sub[e]
      BY <2>1 DEF Begin, Judge, NumberingIInv, TypeOK
    <3> QED
      BY <3>1, <3>2, Frame DEF Numbered
  <2>2. ASSUME NEW d \in Docs, TakeNumber(d) PROVE Rest'
    BY <2>2, TakeNumberStep
  <2>3. ASSUME NEW d \in Docs, Commit(d) PROVE Rest'
    BY <2>3, CommitStep
  <2>4. ASSUME NEW d \in Docs, RollBack(d) PROVE Rest'
    BY <2>4, RollBackStep
  <2>5. ASSUME NEW a \in Admins, SetRule(a) PROVE Rest'
    BY <2>5, SetRuleStep
  <2>6. CASE UNCHANGED <<bucket, holder, sub, lost, skipped, rewound>>
    BY <2>6, Frame
  <2>7. ASSUME NEW a \in Admins, NEW r \in Rules, NEW seed \in 0..MaxNumber, ReadIssued(a, r, seed)
        PROVE  Rest'
    BY <2>6, <2>7 DEF ReadIssued
  <2>8. CASE ClearRule \/ Tick \/ UNCHANGED vars
    BY <2>6, <2>8 DEF ClearRule, Tick, vars
  <2> QED
    BY <2>1, <2>2, <2>3, <2>4, <2>5, <2>7, <2>8 DEF Next
<1> QED
  BY <1>1, <1>2, PTL DEF Spec

(* Every variable keeps its type.                                          *)
THEOREM NumberingTypeCorrect == Spec => []TypeOK
<1>1. NumberingIInv => TypeOK
  BY DEF NumberingIInv
<1> QED
  BY <1>1, NumberingInvariance, PTL

(* GapPolicy: no number is missing without a reason.                       *)
THEOREM Accounted == Spec => []EveryNumberIsAccountedFor
<1>1. NumberingIInv => EveryNumberIsAccountedFor
  BY DEF NumberingIInv
<1> QED
  BY <1>1, NumberingInvariance, PTL

(* "A duplicate. Never acceptable, under any policy": the counters alone   *)
(* see to it, but where an edit lowered one.                               *)
THEOREM NotTwice == Spec => []NoNumberIsTakenTwice
<1>1. NumberingIInv => NoNumberIsTakenTwice
  BY DEF NumberingIInv
<1> QED
  BY <1>1, NumberingInvariance, PTL
=============================================================================
