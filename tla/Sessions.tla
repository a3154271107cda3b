------------------------------ MODULE Sessions ------------------------------
(***************************************************************************)
(* The sessions of one user: refresh tokens stored by sign-ins, rotated by *)
(* refreshes and revoked by everything else (auth/service.rs,              *)
(* auth/reset.rs, identity/service.rs).                                    *)
(*                                                                         *)
(* The requests are concurrent and the database is PostgreSQL under READ   *)
(* COMMITTED, so a step is a statement, and what a request holds at its    *)
(* place is a lock: the user's row shared by those who will store a token, *)
(* exclusive to a password write, a token's row by the rotation that spent *)
(* it, a reset link's by the redemption that consumed it (ADR-0048).  What *)
(* is not committed is seen by nobody; a revoke of many rows sees those    *)
(* committed when it starts and waits for the locked ones among them.      *)
(*                                                                         *)
(* Hashes are numbered in the order they are stored.  The lockout, the     *)
(* rate limiter, the tenant's status, expiry of tokens, access tokens and  *)
(* the audit are left out: they refuse requests or write what none of this *)
(* reads.                                                                  *)
(***************************************************************************)
EXTENDS Naturals, FiniteSets

CONSTANTS
    AuthRequests, \* the requests under way, of the user and of administrators
    Tokens,   \* the rows of refresh_tokens there may be
    Links,    \* the rows of password_reset_tokens there may be
    Nil,      \* no token, no link, nobody
    MaxHash,  \* how many hashes are stored, the first one included
    MaxOff    \* how often the account may be taken out of use

\* Why a token is revoked: its client should not have it any more, or an
\* administrative act (RevokeReason).
ReplayEvidence == {"rotated", "signed out", "refresh token reuse"}
Reasons == ReplayEvidence \cup {"password changed", "password reset", "account deactivated",
                                "account deleted", "account not active"}

ASSUME NilAssumption ==
    Nil \notin AuthRequests \cup Tokens \cup Links /\ Nil \notin Reasons
ASSUME SessionsBounds == MaxHash \in Nat \ {0} /\ MaxOff \in Nat

VARIABLES
    user,     \* the row of users: hash, status, deleted; off counts the times it left ACTIVE
    share,    \* who holds that row FOR SHARE
    excl,     \* who holds it with an UPDATE, or Nil
    token,    \* the rows of refresh_tokens
    pending,  \* per token, the rotation that revoked it and has not committed, or Nil
    link,     \* the rows of password_reset_tokens
    redeemer, \* per link, the redemption that consumed it and has not committed, or Nil
    auth      \* where each request is and what it read; hash is what its session rests on

sessionVars == <<user, share, excl, token, pending, link, redeemer, auth>>

\* A request that is not under way, and the places of one that is.
Idle == [at |-> "idle", token |-> Nil, link |-> Nil, hash |-> 0, reason |-> Nil, rows |-> {}]
AuthPlaces ==
    {"idle",
     "verified", "storing",                             \* sign_in
     "found", "rotating", "locked", "rotated", "lost",  \* refresh
     "sweeping", "revoking",                            \* revoke_all_for_user on its own
     "changing", "setting", "hashing", "redeeming",     \* password writes before the row
     "invalidating", "held", "ending"}                  \* and with it

\* A row of refresh_tokens: live, or revoked and why.  session is the token its
\* sign-in stored; hash, the hash that sign-in verified, and past, user.off if
\* the account was out of use when the token was stored and else 0, say what a
\* live token rests on.
LiveToken == [state : {"live"}, session : Tokens, hash : 1..MaxHash, past : 0..MaxOff]
DeadToken == [state : Reasons, session : Tokens]
NoToken == [state |-> "absent"]

AuthState == [at : AuthPlaces, token : Tokens \cup {Nil}, link : Links \cup {Nil},
              hash : 0..MaxHash, reason : Reasons \cup {Nil}, rows : SUBSET Tokens]

SessionsTypeOK ==
    /\ user \in [hash : 1..MaxHash, status : {"ACTIVE", "INACTIVE"}, deleted : BOOLEAN,
                 off : 0..MaxOff]
    /\ share \subseteq AuthRequests
    /\ excl \in AuthRequests \cup {Nil}
    /\ token \in [Tokens -> LiveToken \cup DeadToken \cup {NoToken}]
    /\ pending \in [Tokens -> AuthRequests \cup {Nil}]
    /\ link \in [Links -> {"absent", "live", "spent"}]
    /\ redeemer \in [Links -> AuthRequests \cup {Nil}]
    /\ auth \in [AuthRequests -> AuthState]
    /\ excl # Nil => share = {}

LiveTokens == {t \in Tokens : token[t].state = "live"}
LiveLinks == {l \in Links : link[l] = "live"}
Dead(t, reason) == [state |-> reason, session |-> token[t].session]

SessionsInit ==
    /\ user = [hash |-> 1, status |-> "ACTIVE", deleted |-> FALSE, off |-> 0]
    /\ share = {} /\ excl = Nil
    /\ token = [t \in Tokens |-> NoToken]
    /\ pending = [t \in Tokens |-> Nil]
    /\ link = [l \in Links |-> "absent"]
    /\ redeemer = [l \in Links |-> Nil]
    /\ auth = [r \in AuthRequests |-> Idle]

-----------------------------------------------------------------------------
(* Locks.                                                                  *)

RowFree == excl = Nil /\ share = {}

\* As if a rotation updated the user's row before its commit: a share lock
\* that has to become an exclusive one.
ConflictsOfAnUpgrade(r) ==
    CASE auth[r].at \in {"verified", "rotating"} -> {excl}
      [] auth[r].at = "rotated" -> share
      [] auth[r].at \in {"changing", "setting", "redeeming"} /\ ~user.deleted -> share \cup {excl}
      [] OTHER -> {}

\* Whose lock on the user's row conflicts with the one a request needs.
RowConflicts(r) ==
    CASE auth[r].at \in {"verified", "rotating"} -> {excl}
      [] auth[r].at \in {"changing", "setting", "redeeming"} /\ ~user.deleted -> share \cup {excl}
      [] OTHER -> {}

\* Whom a request waits for at its place.
WaitsOn(r) ==
    LET q == auth[r] IN
    (CASE q.at = "locked" -> {pending[q.token]}
       [] q.at \in {"revoking", "ending"} -> {pending[t] : t \in q.rows \cap LiveTokens}
       [] q.at = "hashing" -> {redeemer[q.link]}
       [] q.at = "invalidating" -> {redeemer[l] : l \in LiveLinks}
       [] OTHER -> RowConflicts(r)) \ {r, Nil}

\* The request is at the place and gets the lock its next statement needs.
At(r, place) == auth[r].at = place /\ WaitsOn(r) = {}

Proceeds(r, place) == auth' = [auth EXCEPT ![r].at = place]
Ends(r) == auth' = [auth EXCEPT ![r] = Idle]

-----------------------------------------------------------------------------
(* sign_in.                                                                *)

\* The row is read on the pool and the password is right.  A wrong one moves
\* the lockout's counters only.
ReadCredentials(r) ==
    /\ At(r, "idle")
    /\ ~user.deleted /\ user.status = "ACTIVE"
    /\ auth' = [auth EXCEPT ![r] = [Idle EXCEPT !.at = "verified", !.hash = user.hash]]
    /\ UNCHANGED <<user, share, excl, token, pending, link, redeemer>>

\* As if the hash were not compared with the one that was verified (#788).
LockAnyHash(r) ==
    /\ At(r, "verified")
    /\ IF ~user.deleted
       THEN share' = share \cup {r} /\ Proceeds(r, "storing")
       ELSE UNCHANGED share /\ Ends(r)
    /\ UNCHANGED <<user, excl, token, pending, link, redeemer>>

\* lock_password_hash_for_session, and the comparison.
LockForSignIn(r) ==
    /\ At(r, "verified")
    /\ IF ~user.deleted /\ user.hash = auth[r].hash
       THEN share' = share \cup {r} /\ Proceeds(r, "storing")
       ELSE UNCHANGED share /\ Ends(r)
    /\ UNCHANGED <<user, excl, token, pending, link, redeemer>>

Past == IF user.status = "ACTIVE" THEN 0 ELSE user.off

\* store_session and the commit.  record_successful_login follows and holds
\* nothing.
StoreSignIn(r) ==
    /\ At(r, "storing")
    /\ \E t \in Tokens :
        /\ token[t].state = "absent"
        /\ token' = [token EXCEPT ![t] = [state |-> "live", session |-> t,
                                          hash |-> auth[r].hash, past |-> Past]]
    /\ share' = share \ {r}
    /\ Ends(r)
    /\ UNCHANGED <<user, excl, pending, link, redeemer>>

-----------------------------------------------------------------------------
(* refresh and refuse_revoked.                                             *)

\* A token revoked by an administrative act is refused and nothing changes;
\* one that should not be around any more ends every session.
Refused(r, t) ==
    IF token[t].state \in ReplayEvidence
    THEN auth' = [auth EXCEPT ![r] = [Idle EXCEPT !.at = "sweeping", !.token = t,
                                                        !.reason = "refresh token reuse"]]
    ELSE Ends(r)

FindToken(r, t) ==
    /\ At(r, "idle") /\ token[t].state # "absent"
    /\ IF t \in LiveTokens
       THEN auth' = [auth EXCEPT ![r] = [Idle EXCEPT !.at = "found", !.token = t,
                                                             !.hash = token[t].hash]]
       ELSE Refused(r, t)
    /\ UNCHANGED <<user, share, excl, token, pending, link, redeemer>>

\* As if a refresh relied on the revoke that follows a change of status.
FindAnyUser(r) ==
    /\ At(r, "found")
    /\ IF user.deleted THEN Ends(r) ELSE Proceeds(r, "rotating")
    /\ UNCHANGED <<user, share, excl, token, pending, link, redeemer>>

FindUser(r) ==
    /\ At(r, "found")
    /\ IF user.deleted THEN Ends(r)
       ELSE IF user.status = "ACTIVE" THEN Proceeds(r, "rotating")
       ELSE auth' = [auth EXCEPT ![r] = [Idle EXCEPT !.at = "sweeping",
                                                           !.reason = "account not active"]]
    /\ UNCHANGED <<user, share, excl, token, pending, link, redeemer>>

LockForRotation(r) ==
    /\ At(r, "rotating")
    /\ IF user.deleted
       THEN UNCHANGED share /\ Ends(r)
       ELSE share' = share \cup {r} /\ Proceeds(r, "locked")
    /\ UNCHANGED <<user, excl, token, pending, link, redeemer>>

\* As if the count were discarded (#751).
RotateUncounted(r) ==
    /\ At(r, "locked")
    /\ pending' = [pending EXCEPT ![auth[r].token] = r] /\ Proceeds(r, "rotated")
    /\ UNCHANGED <<user, share, excl, token, link, redeemer>>

\* revoke_refresh_token: the count is the decision.
Rotate(r) ==
    /\ At(r, "locked")
    /\ IF auth[r].token \in LiveTokens
       THEN pending' = [pending EXCEPT ![auth[r].token] = r] /\ Proceeds(r, "rotated")
            /\ UNCHANGED share
       ELSE share' = share \ {r} /\ Proceeds(r, "lost") /\ UNCHANGED pending
    /\ UNCHANGED <<user, excl, token, link, redeemer>>

\* As if the first read's reason were used, which was none.
KeepReason(r) ==
    /\ At(r, "lost")
    /\ auth' = [auth EXCEPT ![r].at = "sweeping", ![r].reason = "refresh token reuse"]
    /\ UNCHANGED <<user, share, excl, token, pending, link, redeemer>>

\* The reason is read again, after the winner's commit.
ReadReason(r) ==
    /\ At(r, "lost")
    /\ Refused(r, auth[r].token)
    /\ UNCHANGED <<user, share, excl, token, pending, link, redeemer>>

\* store_session and the commit.
StoreRotation(r) ==
    LET old == auth[r].token IN
    /\ At(r, "rotated")
    /\ \E t \in Tokens :
        /\ token[t].state = "absent"
        /\ token' = [token EXCEPT ![old] = Dead(old, "rotated"),
                                  ![t] = [state |-> "live", session |-> token[old].session,
                                          hash |-> auth[r].hash, past |-> Past]]
    /\ pending' = [pending EXCEPT ![old] = Nil]
    /\ share' = share \ {r}
    /\ Ends(r)
    /\ UNCHANGED <<user, excl, link, redeemer>>

-----------------------------------------------------------------------------
(* revoke_all_for_user: what it sees when it starts, then what of it is    *)
(* still live once the rows are free.  On its own it commits by itself; in *)
(* a password write, that one's commit is its end.                         *)

StartRevoke(r) ==
    /\ At(r, "sweeping") \/ At(r, "held")
    /\ auth' = [auth EXCEPT ![r].rows = LiveTokens,
                                  ![r].at = IF @ = "held" THEN "ending" ELSE "revoking"]
    /\ UNCHANGED <<user, share, excl, token, pending, link, redeemer>>

\* The tokens after r's revoke.
Revoked(r) ==
    [t \in Tokens |-> IF t \in auth[r].rows \cap LiveTokens
                      THEN Dead(t, auth[r].reason) ELSE token[t]]

FinishRevoke(r) ==
    /\ At(r, "revoking")
    /\ token' = Revoked(r)
    /\ Ends(r)
    /\ UNCHANGED <<user, share, excl, pending, link, redeemer>>

\* sign_out: the row is found by its digest and revoked if it is live.
SignOut(r, t) ==
    /\ At(r, "idle") /\ t \in LiveTokens /\ pending[t] = Nil
    /\ token' = [token EXCEPT ![t] = Dead(t, "signed out")]
    /\ UNCHANGED <<user, share, excl, pending, link, redeemer, auth>>

-----------------------------------------------------------------------------
(* Password writes.                                                        *)

\* change_own_password has verified the current password and hashed the new
\* one; set_password has hashed it.
BeginChange(r) ==
    /\ At(r, "idle")
    /\ \E place \in {"changing", "setting"} :
        /\ place = "changing" => ~user.deleted
        /\ auth' = [auth EXCEPT ![r] = [Idle EXCEPT !.at = place,
                                                          !.reason = "password changed"]]
    /\ UNCHANGED <<user, share, excl, token, pending, link, redeemer>>

\* find_live_reset_token, and the hash of the new password.
FindLink(r, l) ==
    /\ At(r, "idle") /\ link[l] = "live"
    /\ auth' = [auth EXCEPT ![r] = [Idle EXCEPT !.at = "hashing", !.link = l,
                                                      !.reason = "password reset"]]
    /\ UNCHANGED <<user, share, excl, token, pending, link, redeemer>>

\* consume_reset_token.
Consume(r) ==
    /\ At(r, "hashing")
    /\ IF link[auth[r].link] = "live"
       THEN redeemer' = [redeemer EXCEPT ![auth[r].link] = r] /\ Proceeds(r, "redeeming")
       ELSE UNCHANGED redeemer /\ Ends(r)
    /\ UNCHANGED <<user, share, excl, token, pending, link>>

\* A redemption has links to stop, the others only tokens to revoke.
AfterTheRow(r) == IF auth[r].link = Nil THEN "held" ELSE "invalidating"

\* set_password_hash: the row is taken until the commit.  Of a deleted user
\* there is none: set_password says so, the others go on.
TakeRow(r) ==
    /\ At(r, "changing") \/ At(r, "setting") \/ At(r, "redeeming")
    /\ user.hash < MaxHash
    /\ IF user.deleted
       THEN IF auth[r].at = "setting" THEN UNCHANGED excl /\ Ends(r)
            ELSE UNCHANGED excl /\ Proceeds(r, AfterTheRow(r))
       ELSE excl' = r /\ Proceeds(r, AfterTheRow(r))
    /\ UNCHANGED <<user, share, token, pending, link, redeemer>>

\* invalidate_reset_tokens_for_user.
Invalidate(r) ==
    /\ At(r, "invalidating")
    /\ redeemer' = [l \in Links |-> IF l \in LiveLinks THEN r ELSE redeemer[l]]
    /\ Proceeds(r, "held")
    /\ UNCHANGED <<user, share, excl, token, pending, link>>

\* The revoke's rows are free, and everything is committed.
CommitPassword(r) ==
    /\ At(r, "ending")
    /\ token' = Revoked(r)
    /\ user' = IF excl = r THEN [user EXCEPT !.hash = @ + 1] ELSE user
    /\ excl' = IF excl = r THEN Nil ELSE excl
    /\ link' = [l \in Links |-> IF redeemer[l] = r THEN "spent" ELSE link[l]]
    /\ redeemer' = [l \in Links |-> IF redeemer[l] = r THEN Nil ELSE redeemer[l]]
    /\ Ends(r)
    /\ UNCHANGED <<share, pending>>

\* request_reset: a link for an account that was in use when it was read, which
\* it need not be any more.  And the half hour a link is good for, which a
\* redemption that has consumed it does not see pass.
SendLink(l) ==
    /\ link[l] = "absent"
    /\ link' = [link EXCEPT ![l] = "live"]
    /\ UNCHANGED <<user, share, excl, token, pending, redeemer, auth>>

LinkExpires(l) ==
    /\ link[l] = "live" /\ redeemer[l] = Nil
    /\ link' = [link EXCEPT ![l] = "spent"]
    /\ UNCHANGED <<user, share, excl, token, pending, redeemer, auth>>

-----------------------------------------------------------------------------
(* update_user and deactivate_user: a statement for the row, which waits   *)
(* for it, and the revoke as another.                                      *)

TakenOut == [user EXCEPT !.status = "INACTIVE",
                         !.off = IF user.status = "ACTIVE" THEN @ + 1 ELSE @]

Deactivate(r) ==
    /\ At(r, "idle") /\ RowFree /\ ~user.deleted
    /\ user.status = "ACTIVE" => user.off < MaxOff
    /\ \E gone \in BOOLEAN :
        /\ user' = [TakenOut EXCEPT !.deleted = gone]
        /\ auth' = [auth EXCEPT ![r] =
               [Idle EXCEPT !.at = "sweeping",
                            !.reason = IF gone THEN "account deleted" ELSE "account deactivated"]]
    /\ UNCHANGED <<share, excl, token, pending, link, redeemer>>

Activate ==
    /\ RowFree /\ ~user.deleted /\ user.status = "INACTIVE"
    /\ user' = [user EXCEPT !.status = "ACTIVE"]
    /\ UNCHANGED <<share, excl, token, pending, link, redeemer, auth>>

\* Any request may stop at any place: a refusal, a failed statement, a lost
\* connection, a process that died.  Its transaction is rolled back.
Abort(r) ==
    /\ auth[r].at # "idle"
    /\ share' = share \ {r}
    /\ excl' = IF excl = r THEN Nil ELSE excl
    /\ pending' = [t \in Tokens |-> IF pending[t] = r THEN Nil ELSE pending[t]]
    /\ redeemer' = [l \in Links |-> IF redeemer[l] = r THEN Nil ELSE redeemer[l]]
    /\ Ends(r)
    /\ UNCHANGED <<user, token, link>>

Step(r) ==
    \/ ReadCredentials(r) \/ LockForSignIn(r) \/ StoreSignIn(r)
    \/ \E t \in Tokens : FindToken(r, t) \/ SignOut(r, t)
    \/ FindUser(r) \/ LockForRotation(r) \/ Rotate(r) \/ ReadReason(r) \/ StoreRotation(r)
    \/ StartRevoke(r) \/ FinishRevoke(r)
    \/ BeginChange(r) \/ Consume(r) \/ TakeRow(r) \/ Invalidate(r) \/ CommitPassword(r)
    \/ \E l \in Links : FindLink(r, l)
    \/ Deactivate(r) \/ Abort(r)

SessionsNext ==
    \/ \E r \in AuthRequests : Step(r)
    \/ \E l \in Links : SendLink(l) \/ LinkExpires(l)
    \/ Activate

SessionsSpec == SessionsInit /\ [][SessionsNext]_sessionVars

-----------------------------------------------------------------------------
(* Properties.                                                             *)

\* ADR-0048: "a refresh token never outlives a password write, whichever
\* order a sign-in, a rotation and the write run in": a live token belongs to
\* a session that was opened with the password stored now.
LiveTokensKnowThePassword == \A t \in LiveTokens : token[t].hash = user.hash

\* A token is good once: of two refreshes that read it live one renews the
\* session, so that a session never has two tokens (refresh, #751).
OneLiveTokenPerSession ==
    \A t, u \in LiveTokens : token[t].session = token[u].session => t = u

\* Only a copy ends all sessions: a client that has not caught up with an
\* administrator's revoke never does, not even if the revoke overtook its
\* refresh (refuse_revoked, #710).
OnlyReplaySweeps ==
    \A r \in AuthRequests : auth[r].reason = "refresh token reuse" =>
        token[auth[r].token].state \in ReplayEvidence

\* "A status change that lands between the refresh's read and its rotation is
\* refused at the next refresh, so the window is one more access token": while
\* an account is out of use no session is renewed twice, and once its user is
\* deleted nothing is stored, whenever the revoke comes (refresh, ADR-0048).
AccountEndsItsSessions ==
    [][\A r \in AuthRequests :
          /\ StoreSignIn(r) \/ StoreRotation(r) => ~user.deleted
          /\ StoreRotation(r) /\ user.status # "ACTIVE" =>
                 token[auth[r].token].past # user.off]_sessionVars

\* "It closes no cycle": requests never wait for each other in a circle
\* (ADR-0048).
NoLockCycle ==
    \A S \in (SUBSET AuthRequests) \ {{}} : \E r \in S : WaitsOn(r) \cap S = {}

\* What the order of the locks does keep: with as many live links as there may
\* be, no circle closes unless a redemption that stops the user's other links
\* waits in it for one that has consumed its own and has still to do the same.
\* Sign-ins, rotations, revokes and the other password writes close none.
OnlyRedemptionsMeet ==
    \A S \in (SUBSET AuthRequests) \ {{}} :
        (\A r \in S : WaitsOn(r) \cap S # {}) =>
            \E r \in S : /\ auth[r].at = "invalidating"
                        /\ \E p \in WaitsOn(r) \cap S : auth[p].at \in {"redeeming", "invalidating"}
=============================================================================
