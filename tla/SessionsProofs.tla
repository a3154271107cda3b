--------------------------- MODULE SessionsProofs ---------------------------
(***************************************************************************)
(* Proofs about Sessions, for any number of requests, tokens, links and    *)
(* password writes.  The argument is ADR-0048's: those who store a token   *)
(* and those who write a password exclude each other on the user's row, a  *)
(* sign-in that has the row knows the hash stored now, and a password      *)
(* write that has it revokes every token there can be at its commit.       *)
(* Two invariants more, on top of it, say what a refresh of an account out *)
(* of use has read (OffInv) and who holds a reset link (LinkInv).          *)
(***************************************************************************)
EXTENDS Sessions, TLAPS

\* The places at which a request has the user's row, shared or not, and those
\* of a refresh that has read its token.
Sharing == {"storing", "locked", "rotated"}
Writing == {"invalidating", "held", "ending"}
Refreshing == {"found", "rotating", "locked", "rotated", "lost"}
Revoking == {"sweeping", "revoking", "changing", "setting", "hashing", "redeeming"} \cup Writing

\* What a request has read, given the tokens and the hash there are now.
Fits(q, tokens, hash) ==
    /\ q.at \in {"verified", "storing"} \cup Refreshing => q.hash \in 1..MaxHash
    /\ q.at = "storing" => q.hash = hash
    /\ q.at \in Refreshing =>
        /\ q.token \in Tokens /\ tokens[q.token].state # "absent"
        /\ tokens[q.token].state = "live" => q.hash = tokens[q.token].hash
    /\ q.at \in Revoking => q.reason \in Reasons
    /\ q.at = "hashing" => q.link \in Links
    /\ q.reason = "refresh token reuse" =>
        q.token \in Tokens /\ tokens[q.token].state \in ReplayEvidence

RequestsInv == \A r \in AuthRequests : Fits(auth[r], token, user.hash)

\* Who holds which lock is where.
RowInv ==
    /\ share = {r \in AuthRequests : auth[r].at \in Sharing}
    /\ excl # Nil => auth[excl].at \in Writing /\ user.hash < MaxHash
    /\ excl # Nil /\ auth[excl].at = "ending" => LiveTokens \subseteq auth[excl].rows

PendingInv ==
    /\ \A t \in Tokens : pending[t] # Nil =>
        /\ auth[pending[t]].at = "rotated" /\ auth[pending[t]].token = t
        /\ token[t].state = "live"
    /\ \A r \in AuthRequests : auth[r].at = "rotated" => pending[auth[r].token] = r

SessionInv == \A t \in Tokens :
    token[t].state # "absent" => token[token[t].session].state # "absent"

IInv == /\ SessionsTypeOK /\ RequestsInv /\ RowInv /\ PendingInv /\ SessionInv
        /\ LiveTokensKnowThePassword /\ OneLiveTokenPerSession

-----------------------------------------------------------------------------
(* What a row of refresh_tokens is, by its state.                          *)
LEMMA TokenFields ==
    ASSUME SessionsTypeOK, NEW t \in Tokens
    PROVE  /\ token[t].state \in {"absent", "live"} \cup Reasons
           /\ token[t].state = "live" => token[t] \in LiveToken
           /\ token[t].state # "absent" => token[t].session \in Tokens
<1>1. token[t] \in LiveToken \cup DeadToken \cup {NoToken}
  BY DEF SessionsTypeOK
<1>2. CASE token[t] \in LiveToken
  BY <1>2 DEF LiveToken
<1>3. CASE token[t] \in DeadToken
  BY <1>3 DEF DeadToken, Reasons, ReplayEvidence
<1>4. CASE token[t] = NoToken
  BY <1>4 DEF NoToken
<1> QED
  BY <1>1, <1>2, <1>3, <1>4

(* A request that is over fits whatever there is.                          *)
LEMMA IdleFits ==
    /\ Idle \in AuthState
    /\ \A tokens, hash : Fits(Idle, tokens, hash)
<1>1. Idle \in AuthState
  BY SessionsBounds DEF Idle, AuthState, AuthPlaces
<1>2. ASSUME NEW tokens, NEW hash PROVE Fits(Idle, tokens, hash)
  BY NilAssumption DEF Idle, Fits, Refreshing, Revoking, Writing, Reasons, ReplayEvidence
<1> QED
  BY <1>1, <1>2

(* Tokens are stored, and revoked once and for all.                        *)
Ages(t) ==
    \/ token'[t] = token[t]
    \/ token[t].state = "absent" /\ token'[t].state = "live"
    \/ token[t].state = "live" /\ token'[t].state \in Reasons

LEMMA FitsStill ==
    ASSUME \A t \in Tokens : Ages(t), NEW q, NEW hash, NEW hash2, Fits(q, token, hash),
           q.at = "storing" => hash2 = hash
    PROVE  Fits(q, token', hash2)
<1>1. \A t \in Tokens : token[t].state # "absent" => token'[t].state # "absent"
  BY DEF Ages, Reasons, ReplayEvidence
<1>2. \A t \in Tokens : token[t].state # "absent" /\ token'[t].state = "live" => token'[t] = token[t]
  BY DEF Ages, Reasons, ReplayEvidence
<1>3. \A t \in Tokens : token[t].state \in ReplayEvidence => token'[t] = token[t]
  BY DEF Ages, Reasons, ReplayEvidence
<1> QED
  BY <1>1, <1>2, <1>3 DEF Fits

-----------------------------------------------------------------------------
(* What it means that a request waits for nobody.                          *)
LEMMA Granted ==
    ASSUME IInv, NEW r \in AuthRequests, WaitsOn(r) = {}
    PROVE  /\ auth[r].at \in {"verified", "rotating"} => excl = Nil
           /\ auth[r].at \in {"changing", "setting", "redeeming"} /\ ~user.deleted =>
                excl = Nil /\ share = {}
           /\ auth[r].at = "locked" => pending[auth[r].token] = Nil
           /\ auth[r].at \in {"revoking", "ending"} =>
                \A t \in auth[r].rows \cap LiveTokens : pending[t] = Nil
<1> USE NilAssumption DEF IInv, SessionsTypeOK, RowInv
<1>1. ASSUME auth[r].at \in {"verified", "rotating"} PROVE excl = Nil
  BY <1>1 DEF WaitsOn, RowConflicts, Writing
<1>2. ASSUME auth[r].at \in {"changing", "setting", "redeeming"}, ~user.deleted
      PROVE  excl = Nil /\ share = {}
  BY <1>2 DEF WaitsOn, RowConflicts, Writing, Sharing
<1>3. ASSUME auth[r].at = "locked" PROVE pending[auth[r].token] = Nil
  <2>1. auth[r].token \in Tokens
    BY <1>3 DEF RequestsInv, Fits, Refreshing
  <2>2. WaitsOn(r) = {pending[auth[r].token]} \ {r, Nil}
    BY <1>3 DEF WaitsOn
  <2> QED
    BY <1>3, <2>1, <2>2 DEF PendingInv
<1>4. ASSUME auth[r].at \in {"revoking", "ending"}, NEW t \in auth[r].rows \cap LiveTokens
      PROVE  pending[t] = Nil
  <2>1. WaitsOn(r) = {pending[u] : u \in auth[r].rows \cap LiveTokens} \ {r, Nil}
    BY <1>4 DEF WaitsOn
  <2>2. t \in Tokens
    BY DEF LiveTokens
  <2> QED
    BY <1>4, <2>1, <2>2 DEF PendingInv
<1> QED
  BY <1>1, <1>2, <1>3, <1>4

(* A request goes on, and nothing of the user's row, of the tokens or of   *)
(* their locks changes.                                                    *)
LEMMA RequestGoesOn ==
    ASSUME IInv, NEW r \in AuthRequests, NEW q \in AuthState,
           auth' = [auth EXCEPT ![r] = q],
           UNCHANGED <<user, share, excl, token, pending>>,
           link' \in [Links -> {"absent", "live", "spent"}],
           redeemer' \in [Links -> AuthRequests \cup {Nil}],
           Fits(q, token, user.hash),
           auth[r].at \notin Sharing, q.at \notin Sharing,
           excl = r => q.at \in Writing /\ (q.at = "ending" => LiveTokens \subseteq q.rows)
    PROVE  IInv'
<1> USE DEF IInv
<1>1. SessionsTypeOK'
  BY DEF SessionsTypeOK
<1>2. auth'[r] = q /\ \A p \in AuthRequests \ {r} : auth'[p] = auth[p]
  BY DEF SessionsTypeOK
<1>3. RequestsInv'
  BY <1>2 DEF RequestsInv
<1>4. RowInv'
  <2>1. share' = {p \in AuthRequests : auth'[p].at \in Sharing}
    BY <1>2 DEF RowInv
  <2>2. excl' # Nil => auth'[excl'].at \in Writing /\ user'.hash < MaxHash
    BY <1>2 DEF RowInv, SessionsTypeOK
  <2>3. LiveTokens' = LiveTokens
    BY DEF LiveTokens
  <2>4. excl' # Nil /\ auth'[excl'].at = "ending" => LiveTokens' \subseteq auth'[excl'].rows
    BY <1>2, <2>3 DEF RowInv, SessionsTypeOK
  <2> QED
    BY <2>1, <2>2, <2>4 DEF RowInv
<1>5. PendingInv'
  BY <1>2 DEF PendingInv, SessionsTypeOK, Sharing
<1>6. SessionInv'
  BY DEF SessionInv
<1>7. LiveTokensKnowThePassword' /\ OneLiveTokenPerSession'
  BY DEF LiveTokensKnowThePassword, OneLiveTokenPerSession, LiveTokens
<1> QED
  BY <1>1, <1>3, <1>4, <1>5, <1>6, <1>7

(* It ends, likewise.                                                      *)
LEMMA RequestEnds ==
    ASSUME IInv, NEW r \in AuthRequests, Ends(r),
           UNCHANGED <<user, share, excl, token, pending>>,
           link' \in [Links -> {"absent", "live", "spent"}],
           redeemer' \in [Links -> AuthRequests \cup {Nil}],
           auth[r].at \notin Sharing, excl # r
    PROVE  IInv'
<1>1. Idle.at \notin Sharing
  BY DEF Idle, Sharing
<1> QED
  BY <1>1, IdleFits, RequestGoesOn DEF Ends

-----------------------------------------------------------------------------
(* The steps.                                                              *)

(* A token that is presented and revoked: whatever the request was.        *)
LEMMA RefusedKeeps ==
    ASSUME IInv, NEW r \in AuthRequests, NEW t \in Tokens, Refused(r, t), token[t].state # "absent",
           UNCHANGED <<user, share, excl, token, pending, link, redeemer>>,
           auth[r].at \notin Sharing, excl # r
    PROVE  IInv'
<1> DEFINE q == [Idle EXCEPT !.at = "sweeping", !.token = t, !.reason = "refresh token reuse"]
<1>1. /\ link' \in [Links -> {"absent", "live", "spent"}]
      /\ redeemer' \in [Links -> AuthRequests \cup {Nil}]
  BY DEF IInv, SessionsTypeOK
<1>2. CASE token[t].state \in ReplayEvidence
  <2>1. q \in AuthState
    BY IdleFits DEF AuthState, AuthPlaces, Reasons, ReplayEvidence
  <2>2. Fits(q, token, user.hash)
    BY <1>2 DEF Fits, Idle, Refreshing, Revoking, Reasons, ReplayEvidence
  <2>3. q.at \notin Sharing
    BY DEF Idle, Sharing
  <2>4. auth' = [auth EXCEPT ![r] = q]
    BY <1>2 DEF Refused
  <2> HIDE DEF q
  <2> QED
    BY <1>1, <2>1, <2>2, <2>3, <2>4, RequestGoesOn
<1>3. CASE token[t].state \notin ReplayEvidence
  <2>1. Ends(r)
    BY <1>3 DEF Refused
  <2> QED
    BY <1>1, <2>1, RequestEnds
<1> QED
  BY <1>2, <1>3

(* sign_in, its read.                                                      *)
LEMMA ReadCredentialsKeeps ==
    ASSUME IInv, NEW r \in AuthRequests, ReadCredentials(r) PROVE IInv'
<1> DEFINE q == [Idle EXCEPT !.at = "verified", !.hash = user.hash]
<1>1. user.hash \in 1..MaxHash /\ auth \in [AuthRequests -> AuthState]
  BY DEF IInv, SessionsTypeOK
<1>2. q \in AuthState
  <2>1. user.hash \in 0..MaxHash
    BY <1>1, SessionsBounds
  <2> QED
    BY <2>1, IdleFits DEF AuthState, AuthPlaces
<1>3. Fits(q, token, user.hash)
  BY <1>1, NilAssumption DEF Fits, Idle, Refreshing, Revoking, Writing, Reasons, ReplayEvidence
<1>4. auth[r].at \notin Sharing /\ q.at \notin Sharing /\ excl # r
  BY NilAssumption DEF ReadCredentials, At, Sharing, IInv, RowInv, Writing, Idle
<1>5. auth' = [auth EXCEPT ![r] = q]
  BY DEF ReadCredentials
<1> HIDE DEF q
<1> QED
  BY <1>2, <1>3, <1>4, <1>5, RequestGoesOn DEF ReadCredentials, IInv, SessionsTypeOK

(* refresh, its reads.                                                     *)
LEMMA FindTokenKeeps ==
    ASSUME IInv, NEW r \in AuthRequests, NEW t \in Tokens, FindToken(r, t) PROVE IInv'
<1> DEFINE q == [Idle EXCEPT !.at = "found", !.token = t, !.hash = token[t].hash]
<1>1. auth[r].at \notin Sharing /\ excl # r
  BY NilAssumption DEF FindToken, At, Sharing, IInv, RowInv, Writing
<1>2. CASE t \in LiveTokens
  <2>1. token[t].hash \in 1..MaxHash /\ token[t].state = "live"
    BY <1>2, TokenFields DEF IInv, LiveTokens, LiveToken
  <2>2. q \in AuthState
    <3>1. token[t].hash \in 0..MaxHash
      BY <2>1, SessionsBounds
    <3> QED
      BY <3>1, IdleFits DEF AuthState, AuthPlaces
  <2>3. Fits(q, token, user.hash)
    BY <2>1, NilAssumption DEF Fits, Idle, Refreshing, Revoking, Writing, Reasons, ReplayEvidence
  <2>4. q.at \notin Sharing
    BY DEF Sharing, Idle
  <2>5. auth' = [auth EXCEPT ![r] = q]
    BY <1>2 DEF FindToken
  <2> HIDE DEF q
  <2> QED
    BY <1>1, <2>2, <2>3, <2>4, <2>5, RequestGoesOn DEF FindToken, IInv, SessionsTypeOK
<1>3. CASE t \notin LiveTokens
  BY <1>1, <1>3, RefusedKeeps DEF FindToken
<1> QED
  BY <1>2, <1>3

LEMMA FindUserKeeps ==
    ASSUME IInv, NEW r \in AuthRequests, FindUser(r) PROVE IInv'
<1>1. auth[r].at = "found" /\ auth[r].at \notin Sharing /\ excl # r /\ auth[r] \in AuthState
  BY NilAssumption DEF FindUser, At, Sharing, IInv, RowInv, Writing, SessionsTypeOK
<1>2. /\ link' \in [Links -> {"absent", "live", "spent"}]
      /\ redeemer' \in [Links -> AuthRequests \cup {Nil}]
      /\ UNCHANGED <<user, share, excl, token, pending>>
  BY DEF IInv, SessionsTypeOK, FindUser
<1>3. CASE user.deleted
  BY <1>1, <1>2, <1>3, RequestEnds DEF FindUser
<1>4. CASE ~user.deleted /\ user.status = "ACTIVE"
  <2> DEFINE q == [auth[r] EXCEPT !.at = "rotating"]
  <2>1. q \in AuthState /\ q.at \notin Sharing
    BY <1>1 DEF AuthState, AuthPlaces, Sharing
  <2>2. Fits(q, token, user.hash)
    BY <1>1 DEF Fits, IInv, RequestsInv, AuthState, Refreshing, Revoking, Writing
  <2>3. auth' = [auth EXCEPT ![r] = q]
    BY <1>4 DEF FindUser, Proceeds
  <2> HIDE DEF q
  <2> QED
    BY <1>1, <1>2, <2>1, <2>2, <2>3, RequestGoesOn
<1>5. CASE ~user.deleted /\ user.status # "ACTIVE"
  <2> DEFINE q == [Idle EXCEPT !.at = "sweeping", !.reason = "account not active"]
  <2>1. q \in AuthState /\ q.at \notin Sharing
    BY IdleFits DEF AuthState, AuthPlaces, Sharing, Reasons
  <2>2. Fits(q, token, user.hash)
    BY DEF Fits, Idle, Refreshing, Revoking, Reasons
  <2>3. auth' = [auth EXCEPT ![r] = q]
    BY <1>5 DEF FindUser
  <2> HIDE DEF q
  <2> QED
    BY <1>1, <1>2, <2>1, <2>2, <2>3, RequestGoesOn
<1> QED
  BY <1>3, <1>4, <1>5

LEMMA ReadReasonKeeps ==
    ASSUME IInv, NEW r \in AuthRequests, ReadReason(r) PROVE IInv'
<1>1. auth[r].at = "lost" /\ auth[r].at \notin Sharing /\ excl # r
  BY NilAssumption DEF ReadReason, At, Sharing, IInv, RowInv, Writing
<1>2. auth[r].token \in Tokens /\ token[auth[r].token].state # "absent"
  BY <1>1 DEF IInv, RequestsInv, Fits, Refreshing
<1> QED
  BY <1>1, <1>2, RefusedKeeps DEF ReadReason

(* revoke_all_for_user starts: it sees the live tokens.                    *)
LEMMA StartRevokeKeeps ==
    ASSUME IInv, NEW r \in AuthRequests, StartRevoke(r) PROVE IInv'
<1> DEFINE q == [auth[r] EXCEPT !.rows = LiveTokens,
                                   !.at = IF @ = "held" THEN "ending" ELSE "revoking"]
<1>1. auth[r].at \in {"sweeping", "held"} /\ auth[r] \in AuthState
  BY DEF StartRevoke, At, IInv, SessionsTypeOK
<1>2. /\ link' \in [Links -> {"absent", "live", "spent"}]
      /\ redeemer' \in [Links -> AuthRequests \cup {Nil}]
      /\ UNCHANGED <<user, share, excl, token, pending>>
  BY DEF IInv, SessionsTypeOK, StartRevoke
<1>3. q \in AuthState /\ q.at \in {"ending", "revoking"} /\ q.rows = LiveTokens
  BY <1>1 DEF AuthState, AuthPlaces, LiveTokens
<1>4. Fits(q, token, user.hash)
  BY <1>1 DEF Fits, IInv, RequestsInv, AuthState, Refreshing, Revoking, Writing
<1>5. excl = r => q.at = "ending"
  BY <1>1, NilAssumption DEF IInv, RowInv, Writing, AuthState
<1>6. auth' = [auth EXCEPT ![r] = q]
  BY DEF StartRevoke
<1> HIDE DEF q
<1>7. auth[r].at \notin Sharing /\ q.at \notin Sharing
  BY <1>1, <1>3 DEF Sharing
<1>8. excl = r => q.at \in Writing /\ (q.at = "ending" => LiveTokens \subseteq q.rows)
  BY <1>3, <1>5 DEF Writing
<1> QED
  BY <1>2, <1>3, <1>4, <1>6, <1>7, <1>8, RequestGoesOn

(* Password writes, before they have the row.                              *)
LEMMA BeginChangeKeeps ==
    ASSUME IInv, NEW r \in AuthRequests, BeginChange(r) PROVE IInv'
<1>1. auth[r].at \notin Sharing /\ excl # r
  BY NilAssumption DEF BeginChange, At, Sharing, IInv, RowInv, Writing
<1>2. /\ link' \in [Links -> {"absent", "live", "spent"}]
      /\ redeemer' \in [Links -> AuthRequests \cup {Nil}]
      /\ UNCHANGED <<user, share, excl, token, pending>>
  BY DEF IInv, SessionsTypeOK, BeginChange
<1>3. PICK place \in {"changing", "setting"} :
        auth' = [auth EXCEPT ![r] = [Idle EXCEPT !.at = place, !.reason = "password changed"]]
  BY DEF BeginChange
<1> DEFINE q == [Idle EXCEPT !.at = place, !.reason = "password changed"]
<1>4. q \in AuthState /\ q.at \notin Sharing
  BY IdleFits DEF AuthState, AuthPlaces, Reasons, Sharing
<1>5. Fits(q, token, user.hash)
  BY DEF Fits, Idle, Refreshing, Revoking, Reasons
<1> QED
  BY <1>1, <1>2, <1>3, <1>4, <1>5, RequestGoesOn

LEMMA FindLinkKeeps ==
    ASSUME IInv, NEW r \in AuthRequests, NEW l \in Links, FindLink(r, l) PROVE IInv'
<1> DEFINE q == [Idle EXCEPT !.at = "hashing", !.link = l, !.reason = "password reset"]
<1>1. auth[r].at \notin Sharing /\ excl # r
  BY NilAssumption DEF FindLink, At, Sharing, IInv, RowInv, Writing
<1>2. /\ link' \in [Links -> {"absent", "live", "spent"}]
      /\ redeemer' \in [Links -> AuthRequests \cup {Nil}]
      /\ UNCHANGED <<user, share, excl, token, pending>>
  BY DEF IInv, SessionsTypeOK, FindLink
<1>3. q \in AuthState /\ q.at \notin Sharing
  BY IdleFits DEF AuthState, AuthPlaces, Reasons, Sharing
<1>4. Fits(q, token, user.hash)
  BY DEF Fits, Idle, Refreshing, Revoking, Reasons
<1>5. auth' = [auth EXCEPT ![r] = q]
  BY DEF FindLink
<1> HIDE DEF q
<1> QED
  BY <1>1, <1>2, <1>3, <1>4, <1>5, RequestGoesOn

(* A password write goes on, and fits the place it goes to.                *)
LEMMA WriteGoesOn ==
    ASSUME IInv, NEW r \in AuthRequests,
           auth[r].at \in {"changing", "setting", "hashing", "redeeming", "invalidating"},
           NEW place \in {"redeeming", "invalidating", "held"}
    PROVE  LET q == [auth[r] EXCEPT !.at = place]
           IN  q \in AuthState /\ q.at = place /\ Fits(q, token, user.hash)
<1>1. auth[r] \in AuthState /\ Fits(auth[r], token, user.hash)
  BY DEF IInv, SessionsTypeOK, RequestsInv
<1> QED
  BY <1>1 DEF AuthState, AuthPlaces, Fits, Refreshing, Revoking, Writing

LEMMA ConsumeKeeps ==
    ASSUME IInv, NEW r \in AuthRequests, Consume(r) PROVE IInv'
<1>1. auth[r].at = "hashing" /\ auth[r].at \notin Sharing /\ excl # r
  BY NilAssumption DEF Consume, At, Sharing, IInv, RowInv, Writing
<1>2. /\ link' \in [Links -> {"absent", "live", "spent"}]
      /\ redeemer' \in [Links -> AuthRequests \cup {Nil}]
      /\ UNCHANGED <<user, share, excl, token, pending>>
  BY DEF IInv, SessionsTypeOK, Consume
<1>3. CASE link[auth[r].link] = "live"
  <2> DEFINE q == [auth[r] EXCEPT !.at = "redeeming"]
  <2>1. q \in AuthState /\ q.at = "redeeming" /\ Fits(q, token, user.hash)
    BY <1>1, WriteGoesOn
  <2>2. auth' = [auth EXCEPT ![r] = q]
    BY <1>3 DEF Consume, Proceeds
  <2>3. q.at \notin Sharing
    BY <2>1 DEF Sharing
  <2> HIDE DEF q
  <2> QED
    BY <1>1, <1>2, <2>1, <2>2, <2>3, RequestGoesOn
<1>4. CASE link[auth[r].link] # "live"
  BY <1>1, <1>2, <1>4, RequestEnds DEF Consume
<1> QED
  BY <1>3, <1>4

LEMMA InvalidateKeeps ==
    ASSUME IInv, NEW r \in AuthRequests, Invalidate(r) PROVE IInv'
<1> DEFINE q == [auth[r] EXCEPT !.at = "held"]
<1>1. auth[r].at = "invalidating" /\ auth[r].at \notin Sharing
  BY DEF Invalidate, At, Sharing
<1>2. /\ link' \in [Links -> {"absent", "live", "spent"}]
      /\ redeemer' \in [Links -> AuthRequests \cup {Nil}]
      /\ UNCHANGED <<user, share, excl, token, pending>>
  BY DEF IInv, SessionsTypeOK, Invalidate
<1>3. q \in AuthState /\ q.at = "held" /\ Fits(q, token, user.hash)
  BY <1>1, WriteGoesOn
<1>4. auth' = [auth EXCEPT ![r] = q]
  BY DEF Invalidate, Proceeds
<1> HIDE DEF q
<1>5. q.at \notin Sharing /\ q.at \in Writing /\ q.at # "ending"
  BY <1>3 DEF Sharing, Writing
<1> QED
  BY <1>1, <1>2, <1>3, <1>4, <1>5, RequestGoesOn

-----------------------------------------------------------------------------
(* The steps that take a lock.                                             *)

(* A request goes from a place without a lock of a row to one with it.     *)
LEMMA OnePlaceChanges ==
    ASSUME IInv, NEW r \in AuthRequests, NEW place \in AuthPlaces, Proceeds(r, place),
           Fits([auth[r] EXCEPT !.at = place], token, user.hash),
           UNCHANGED <<user, token>>
    PROVE  /\ auth' \in [AuthRequests -> AuthState]
           /\ auth'[r] = [auth[r] EXCEPT !.at = place] /\ auth'[r].at = place
           /\ auth'[r].token = auth[r].token
           /\ \A p \in AuthRequests \ {r} : auth'[p] = auth[p]
           /\ RequestsInv' /\ SessionInv'
           /\ LiveTokensKnowThePassword' /\ OneLiveTokenPerSession'
<1>1. auth \in [AuthRequests -> AuthState] /\ auth[r] \in AuthState
  BY DEF IInv, SessionsTypeOK
<1>2. [auth[r] EXCEPT !.at = place] \in AuthState
  BY <1>1 DEF AuthState
<1>3. /\ auth' \in [AuthRequests -> AuthState]
      /\ auth'[r] = [auth[r] EXCEPT !.at = place]
      /\ \A p \in AuthRequests \ {r} : auth'[p] = auth[p]
  BY <1>1, <1>2 DEF Proceeds
<1>4. auth'[r].at = place /\ auth'[r].token = auth[r].token
  BY <1>1, <1>3 DEF AuthState
<1>5. RequestsInv'
  BY <1>3 DEF RequestsInv, IInv
<1>6. SessionInv' /\ LiveTokensKnowThePassword' /\ OneLiveTokenPerSession'
  BY DEF IInv, SessionInv, LiveTokensKnowThePassword, OneLiveTokenPerSession, LiveTokens
<1> QED
  BY <1>3, <1>4, <1>5, <1>6

(* Somebody gets the row shared.                                           *)
LEMMA Shares ==
    ASSUME IInv, NEW r \in AuthRequests, NEW place \in {"storing", "locked"}, Proceeds(r, place),
           Fits([auth[r] EXCEPT !.at = place], token, user.hash),
           excl = Nil, auth[r].at \in {"verified", "rotating"}, share' = share \cup {r},
           UNCHANGED <<user, excl, token, pending, link, redeemer>>
    PROVE  IInv'
<1>1. place \in AuthPlaces /\ place \in Sharing
  BY DEF AuthPlaces, Sharing
<1>2. /\ auth' \in [AuthRequests -> AuthState]
      /\ auth'[r].at = place
      /\ \A p \in AuthRequests \ {r} : auth'[p] = auth[p]
      /\ RequestsInv' /\ SessionInv'
      /\ LiveTokensKnowThePassword' /\ OneLiveTokenPerSession'
  BY <1>1, OnePlaceChanges
<1>3. SessionsTypeOK'
  BY <1>2 DEF IInv, SessionsTypeOK
<1>4. RowInv'
  BY <1>1, <1>2 DEF IInv, RowInv
<1>5. PendingInv'
  BY <1>2, NilAssumption DEF IInv, PendingInv, SessionsTypeOK
<1> QED
  BY <1>2, <1>3, <1>4, <1>5 DEF IInv

(* One request at a time: it is typed, and it fits.                        *)
LEMMA OneRequest ==
    ASSUME IInv, NEW r \in AuthRequests
    PROVE  auth[r] \in AuthState /\ Fits(auth[r], token, user.hash)
<1>1. auth[r] \in AuthState
  BY DEF IInv, SessionsTypeOK
<1>2. Fits(auth[r], token, user.hash)
  BY DEF IInv, RequestsInv
<1> QED
  BY <1>1, <1>2

LEMMA LockForSignInKeeps ==
    ASSUME IInv, NEW r \in AuthRequests, LockForSignIn(r) PROVE IInv'
<1>1. auth[r].at = "verified" /\ auth[r].at \notin Sharing
  BY DEF LockForSignIn, At, Sharing
<1>2. excl = Nil
  BY <1>1, Granted DEF LockForSignIn, At
<1>3. CASE ~user.deleted /\ user.hash = auth[r].hash
  <2>1. Fits([auth[r] EXCEPT !.at = "storing"], token, user.hash)
    BY <1>1, <1>3, OneRequest DEF Fits, AuthState, Refreshing, Revoking, Writing
  <2> QED
    BY <1>1, <1>2, <1>3, <2>1, Shares DEF LockForSignIn
<1>4. CASE ~(~user.deleted /\ user.hash = auth[r].hash)
  <2>1. Ends(r) /\ UNCHANGED <<user, share, excl, token, pending, link, redeemer>>
    BY <1>4 DEF LockForSignIn
  <2>2. excl # r
    BY <1>2, NilAssumption
  <2> QED
    BY <1>1, <2>1, <2>2, RequestEnds DEF IInv, SessionsTypeOK
<1> QED
  BY <1>3, <1>4

LEMMA LockForRotationKeeps ==
    ASSUME IInv, NEW r \in AuthRequests, LockForRotation(r) PROVE IInv'
<1>1. auth[r].at = "rotating" /\ auth[r].at \notin Sharing
  BY DEF LockForRotation, At, Sharing
<1>2. excl = Nil
  BY <1>1, Granted DEF LockForRotation, At
<1>3. CASE ~user.deleted
  <2>1. Fits([auth[r] EXCEPT !.at = "locked"], token, user.hash)
    BY <1>1, OneRequest DEF Fits, AuthState, Refreshing, Revoking, Writing
  <2> QED
    BY <1>1, <1>2, <1>3, <2>1, Shares DEF LockForRotation
<1>4. CASE user.deleted
  <2>1. Ends(r) /\ UNCHANGED <<user, share, excl, token, pending, link, redeemer>>
    BY <1>4 DEF LockForRotation
  <2>2. excl # r
    BY <1>2, NilAssumption
  <2> QED
    BY <1>1, <2>1, <2>2, RequestEnds DEF IInv, SessionsTypeOK
<1> QED
  BY <1>3, <1>4

(* The rotation: the token is live and gets locked, or the race is lost.   *)
LEMMA RotateKeeps ==
    ASSUME IInv, NEW r \in AuthRequests, Rotate(r) PROVE IInv'
<1> DEFINE t == auth[r].token
<1>1. auth[r].at = "locked" /\ auth[r] \in AuthState
  BY DEF Rotate, At, IInv, SessionsTypeOK
<1>2. t \in Tokens /\ Fits(auth[r], token, user.hash)
  BY <1>1 DEF IInv, RequestsInv, Fits, Refreshing
<1>3. pending[t] = Nil
  BY <1>1, Granted DEF Rotate, At
<1>4. excl = Nil
  BY <1>1, NilAssumption DEF IInv, SessionsTypeOK, RowInv, Sharing
<1>5. CASE t \in LiveTokens
  <2>1. Fits([auth[r] EXCEPT !.at = "rotated"], token, user.hash)
    BY <1>1, <1>2 DEF Fits, AuthState, Refreshing, Revoking, Writing
  <2>2. Proceeds(r, "rotated") /\ UNCHANGED <<user, share, excl, token, link, redeemer>>
    BY <1>5 DEF Rotate
  <2>3. pending' = [pending EXCEPT ![t] = r]
    BY <1>5 DEF Rotate
  <2>4. /\ auth' \in [AuthRequests -> AuthState]
        /\ auth'[r].at = "rotated" /\ auth'[r].token = t
        /\ \A p \in AuthRequests \ {r} : auth'[p] = auth[p]
        /\ RequestsInv' /\ SessionInv'
        /\ LiveTokensKnowThePassword' /\ OneLiveTokenPerSession'
    BY <2>1, <2>2, OnePlaceChanges DEF AuthPlaces
  <2>5. SessionsTypeOK'
    BY <2>2, <2>3, <2>4 DEF IInv, SessionsTypeOK
  <2>6. RowInv'
    BY <1>1, <1>4, <2>2, <2>4 DEF IInv, RowInv, Sharing
  <2>7. PendingInv'
    <3>1. ASSUME NEW u \in Tokens, pending'[u] # Nil
          PROVE  /\ auth'[pending'[u]].at = "rotated" /\ auth'[pending'[u]].token = u
                 /\ token'[u].state = "live"
      <4>1. CASE u = t
        <5>1. pending'[u] = r
          BY <4>1, <2>3 DEF IInv, SessionsTypeOK
        <5> QED
          BY <4>1, <5>1, <1>5, <2>2, <2>4 DEF LiveTokens
      <4>2. CASE u # t
        <5>1. pending'[u] = pending[u] /\ pending[u] \in AuthRequests
          BY <3>1, <4>2, <2>3 DEF IInv, SessionsTypeOK
        <5>2. pending[u] # r
          BY <5>1, <1>1, <3>1 DEF IInv, PendingInv
        <5> QED
          BY <5>1, <5>2, <3>1, <2>2, <2>4 DEF IInv, PendingInv
      <4> QED
        BY <4>1, <4>2
    <3>2. ASSUME NEW p \in AuthRequests, auth'[p].at = "rotated"
          PROVE  pending'[auth'[p].token] = p
      <4>1. CASE p = r
        BY <4>1, <1>2, <2>3, <2>4 DEF IInv, SessionsTypeOK
      <4>2. CASE p # r
        <5>1. auth'[p] = auth[p] /\ pending[auth[p].token] = p
          BY <4>2, <2>4, <3>2 DEF IInv, PendingInv
        <5>2. auth[p].token \in Tokens
          BY <5>1, <3>2 DEF IInv, RequestsInv, Fits, Refreshing
        <5>3. auth[p].token # t
          BY <5>1, <1>3, NilAssumption
        <5> QED
          BY <5>1, <5>2, <5>3, <2>3 DEF IInv, SessionsTypeOK
      <4> QED
        BY <4>1, <4>2
    <3> QED
      BY <3>1, <3>2 DEF PendingInv
  <2> QED
    BY <2>4, <2>5, <2>6, <2>7 DEF IInv
<1>6. CASE t \notin LiveTokens
  <2>1. Fits([auth[r] EXCEPT !.at = "lost"], token, user.hash)
    BY <1>1, <1>2 DEF Fits, AuthState, Refreshing, Revoking, Writing
  <2>2. Proceeds(r, "lost") /\ share' = share \ {r} /\ UNCHANGED <<user, excl, token, pending, link, redeemer>>
    BY <1>6 DEF Rotate
  <2>3. /\ auth' \in [AuthRequests -> AuthState]
        /\ auth'[r].at = "lost"
        /\ \A p \in AuthRequests \ {r} : auth'[p] = auth[p]
        /\ RequestsInv' /\ SessionInv'
        /\ LiveTokensKnowThePassword' /\ OneLiveTokenPerSession'
    BY <2>1, <2>2, OnePlaceChanges DEF AuthPlaces
  <2>4. SessionsTypeOK'
    BY <2>2, <2>3 DEF IInv, SessionsTypeOK
  <2>5. RowInv'
    BY <1>4, <2>2, <2>3 DEF IInv, RowInv, Sharing
  <2>6. PendingInv'
    BY <1>1, <1>3, <2>2, <2>3 DEF IInv, PendingInv, SessionsTypeOK
  <2> QED
    BY <2>3, <2>4, <2>5, <2>6 DEF IInv
<1> QED
  BY <1>5, <1>6

(* set_password_hash: the row is taken, or there is none.                  *)
LEMMA TakeRowKeeps ==
    ASSUME IInv, NEW r \in AuthRequests, TakeRow(r) PROVE IInv'
<1> DEFINE place == AfterTheRow(r)
           q == [auth[r] EXCEPT !.at = place]
<1>1. auth[r].at \in {"changing", "setting", "redeeming"} /\ WaitsOn(r) = {}
  BY DEF TakeRow, At
<1>2. auth[r].at \notin Sharing /\ excl # r
  BY <1>1, NilAssumption DEF Sharing, IInv, RowInv, Writing
<1>3. place \in {"held", "invalidating"}
  BY DEF AfterTheRow
<1>4. q \in AuthState /\ q.at = place /\ Fits(q, token, user.hash)
  BY <1>1, <1>3, WriteGoesOn
<1>5. CASE user.deleted
  <2>1. UNCHANGED <<user, share, excl, token, pending, link, redeemer>>
    BY <1>5 DEF TakeRow
  <2>2. link' \in [Links -> {"absent", "live", "spent"}] /\ redeemer' \in [Links -> AuthRequests \cup {Nil}]
    BY <2>1 DEF IInv, SessionsTypeOK
  <2>3. CASE Ends(r)
    BY <1>2, <2>1, <2>2, <2>3, RequestEnds
  <2>4. CASE Proceeds(r, place)
    <3>1. auth' = [auth EXCEPT ![r] = q]
      BY <2>4 DEF Proceeds
    <3>2. q.at \notin Sharing
      BY <1>3, <1>4 DEF Sharing
    <3> HIDE DEF q
    <3> QED
      BY <1>2, <1>4, <2>1, <2>2, <3>1, <3>2, RequestGoesOn
  <2> QED
    BY <1>5, <2>3, <2>4 DEF TakeRow
<1>6. CASE ~user.deleted
  <2>1. excl = Nil /\ share = {}
    BY <1>1, <1>6, Granted
  <2>2. /\ excl' = r /\ Proceeds(r, place) /\ user.hash < MaxHash
        /\ UNCHANGED <<user, share, token, pending, link, redeemer>>
    BY <1>6 DEF TakeRow
  <2>3. /\ auth' \in [AuthRequests -> AuthState]
        /\ auth'[r].at = place
        /\ \A p \in AuthRequests \ {r} : auth'[p] = auth[p]
        /\ RequestsInv' /\ SessionInv'
        /\ LiveTokensKnowThePassword' /\ OneLiveTokenPerSession'
    BY <1>3, <1>4, <2>2, OnePlaceChanges DEF AuthPlaces
  <2>4. SessionsTypeOK'
    BY <2>1, <2>2, <2>3 DEF IInv, SessionsTypeOK
  <2>5. RowInv'
    BY <1>2, <1>3, <2>1, <2>2, <2>3 DEF IInv, RowInv, Sharing, Writing
  <2>6. PendingInv'
    BY <1>1, <1>3, <2>2, <2>3 DEF IInv, PendingInv, SessionsTypeOK
  <2> QED
    BY <2>3, <2>4, <2>5, <2>6 DEF IInv
<1> QED
  BY <1>5, <1>6

-----------------------------------------------------------------------------
(* The steps that change tokens.                                           *)

(* A request is over, and tokens have aged.                                *)
LEMMA EndsFit ==
    ASSUME IInv, NEW r \in AuthRequests, Ends(r), \A t \in Tokens : Ages(t),
           user'.hash = user.hash \/ share = {}
    PROVE  /\ auth' \in [AuthRequests -> AuthState]
           /\ auth'[r] = Idle /\ \A p \in AuthRequests \ {r} : auth'[p] = auth[p]
           /\ RequestsInv'
           /\ share \ {r} = {p \in AuthRequests : auth'[p].at \in Sharing}
<1>1. /\ auth' \in [AuthRequests -> AuthState]
      /\ auth'[r] = Idle /\ \A p \in AuthRequests \ {r} : auth'[p] = auth[p]
  BY IdleFits DEF IInv, SessionsTypeOK, Ends
<1>2. ASSUME NEW p \in AuthRequests PROVE Fits(auth'[p], token', user'.hash)
  <2>1. CASE p = r
    BY <1>1, <2>1, IdleFits
  <2>2. CASE p # r
    <3>1. auth[p].at = "storing" => user'.hash = user.hash
      BY DEF IInv, RowInv, Sharing
    <3>2. Fits(auth[p], token, user.hash)
      BY DEF IInv, RequestsInv
    <3> QED
      BY <1>1, <2>2, <3>1, <3>2, FitsStill
  <2> QED
    BY <2>1, <2>2
<1>3. RequestsInv'
  BY <1>2 DEF RequestsInv
<1>4. share \ {r} = {p \in AuthRequests : auth'[p].at \in Sharing}
  BY <1>1 DEF IInv, RowInv, Sharing, Idle
<1> QED
  BY <1>1, <1>3, <1>4

(* A token is stored for a session no other live token will belong to, and *)
(* it knows the password.                                                  *)
LEMMA Stores ==
    ASSUME IInv, NEW r \in AuthRequests, auth[r].at \in Sharing, Ends(r), share' = share \ {r},
           NEW t \in Tokens, token[t].state = "absent",
           NEW s \in Tokens, s = t \/ token[s].state # "absent",
           token' \in [Tokens -> LiveToken \cup DeadToken \cup {NoToken}],
           token'[t].state = "live", token'[t].session = s, token'[t].hash = user.hash,
           \A u \in Tokens \ {t} :
             /\ \/ token'[u] = token[u]
                \/ /\ token[u].state = "live" /\ token'[u].state \in Reasons
                   /\ token'[u].session = token[u].session
             /\ token'[u].state = "live" => token'[u].session # s,
           pending' \in [Tokens -> AuthRequests \cup {Nil}], PendingInv',
           UNCHANGED <<user, excl, link, redeemer>>
    PROVE  IInv'
<1>1. \A u \in Tokens : Ages(u)
  BY DEF Ages
<1>2. /\ auth' \in [AuthRequests -> AuthState]
      /\ auth'[r] = Idle /\ \A p \in AuthRequests \ {r} : auth'[p] = auth[p]
      /\ RequestsInv'
      /\ share' = {p \in AuthRequests : auth'[p].at \in Sharing}
  BY <1>1, EndsFit
<1>3. excl = Nil
  BY DEF IInv, SessionsTypeOK, RowInv
<1>4. SessionsTypeOK'
  BY <1>2, <1>3 DEF IInv, SessionsTypeOK
<1>5. RowInv'
  BY <1>2, <1>3 DEF RowInv
<1>6. SessionInv'
  <2>1. \A u \in Tokens : token[u].state # "absent" => token'[u].state # "absent"
    BY <1>1 DEF Ages, Reasons, ReplayEvidence
  <2>2. ASSUME NEW u \in Tokens, token'[u].state # "absent"
        PROVE  token'[token'[u].session].state # "absent"
    <3>1. CASE u = t
      BY <3>1, <2>1
    <3>2. CASE u # t
      <4>1. token[u].state # "absent" /\ token'[u].session = token[u].session
        BY <3>2, <2>2
      <4>2. token[u].session \in Tokens /\ token[token[u].session].state # "absent"
        BY <4>1, TokenFields DEF IInv, SessionInv
      <4> QED
        BY <4>1, <4>2, <2>1
    <3> QED
      BY <3>1, <3>2
  <2> QED
    BY <2>2 DEF SessionInv
<1>7. LiveTokensKnowThePassword'
  <2>1. ASSUME NEW u \in Tokens, token'[u].state = "live" PROVE token'[u].hash = user.hash
    <3>1. CASE u # t
      <4>1. token'[u] = token[u]
        BY <3>1, <2>1 DEF Reasons, ReplayEvidence
      <4>2. u \in LiveTokens
        BY <4>1, <2>1 DEF LiveTokens
      <4> QED
        BY <4>1, <4>2 DEF IInv, LiveTokensKnowThePassword
    <3> QED
      BY <3>1
  <2> QED
    BY <2>1 DEF LiveTokensKnowThePassword, LiveTokens
<1>8. OneLiveTokenPerSession'
  <2>1. ASSUME NEW u \in Tokens, NEW v \in Tokens, token'[u].state = "live",
               token'[v].state = "live", token'[u].session = token'[v].session
        PROVE  u = v
    <3>1. CASE u # t /\ v # t
      <4>1. token'[u] = token[u] /\ token'[v] = token[v]
        BY <3>1, <2>1 DEF Reasons, ReplayEvidence
      <4> QED
        BY <4>1, <2>1 DEF IInv, OneLiveTokenPerSession, LiveTokens
    <3> QED
      BY <3>1, <2>1
  <2> QED
    BY <2>1 DEF OneLiveTokenPerSession, LiveTokens
<1> QED
  BY <1>2, <1>4, <1>5, <1>6, <1>7, <1>8 DEF IInv

LEMMA StoreSignInKeeps ==
    ASSUME IInv, NEW r \in AuthRequests, StoreSignIn(r) PROVE IInv'
<1>1. auth[r].at = "storing" /\ auth[r].at \in Sharing
  BY DEF StoreSignIn, At, Sharing
<1>2. auth[r].hash = user.hash /\ user.hash \in 1..MaxHash
  BY <1>1 DEF IInv, SessionsTypeOK, RequestsInv, Fits
<1>3. PICK t \in Tokens :
        /\ token[t].state = "absent"
        /\ token' = [token EXCEPT ![t] = [state |-> "live", session |-> t,
                                          hash |-> auth[r].hash, past |-> Past]]
  BY DEF StoreSignIn
<1>4. Past \in 0..MaxOff
  BY SessionsBounds DEF IInv, SessionsTypeOK, Past
<1>5. /\ token' \in [Tokens -> LiveToken \cup DeadToken \cup {NoToken}]
      /\ token'[t].state = "live" /\ token'[t].session = t /\ token'[t].hash = user.hash
      /\ \A u \in Tokens \ {t} : token'[u] = token[u]
  BY <1>2, <1>3, <1>4 DEF IInv, SessionsTypeOK, LiveToken
<1>6. \A u \in Tokens \ {t} : token[u].state = "live" => token[u].session # t
  BY <1>3 DEF IInv, SessionInv
<1>7. PendingInv'
  BY <1>1, <1>3, <1>5 DEF IInv, SessionsTypeOK, PendingInv, StoreSignIn, Ends, Idle
<1> QED
  BY <1>1, <1>3, <1>5, <1>6, <1>7, Stores DEF StoreSignIn, IInv, SessionsTypeOK

LEMMA StoreRotationKeeps ==
    ASSUME IInv, NEW r \in AuthRequests, StoreRotation(r) PROVE IInv'
<1> DEFINE old == auth[r].token
<1>1. auth[r].at = "rotated" /\ auth[r].at \in Sharing
  BY DEF StoreRotation, At, Sharing
<1>2. old \in Tokens /\ pending[old] = r
  BY <1>1 DEF IInv, RequestsInv, Fits, Refreshing, PendingInv
<1>3. token[old].state = "live" /\ token[old] \in LiveToken /\ token[old].session \in Tokens
  BY <1>2, NilAssumption, TokenFields DEF IInv, PendingInv
<1>4. auth[r].hash = user.hash /\ user.hash \in 1..MaxHash
  BY <1>1, <1>2, <1>3
     DEF IInv, SessionsTypeOK, RequestsInv, Fits, Refreshing, LiveTokensKnowThePassword, LiveTokens
<1>5. PICK t \in Tokens :
        /\ token[t].state = "absent"
        /\ token' = [token EXCEPT ![old] = Dead(old, "rotated"),
                                  ![t] = [state |-> "live", session |-> token[old].session,
                                          hash |-> auth[r].hash, past |-> Past]]
  BY DEF StoreRotation
<1>6. t # old /\ Past \in 0..MaxOff
  BY <1>3, <1>5, SessionsBounds DEF IInv, SessionsTypeOK, Past
<1>7. Dead(old, "rotated") \in DeadToken
  BY <1>3 DEF Dead, DeadToken, Reasons, ReplayEvidence
<1>8. /\ token' \in [Tokens -> LiveToken \cup DeadToken \cup {NoToken}]
      /\ token'[t].state = "live" /\ token'[t].session = token[old].session
      /\ token'[t].hash = user.hash
      /\ token'[old] = Dead(old, "rotated")
      /\ \A u \in Tokens \ {t, old} : token'[u] = token[u]
  <2> DEFINE new == [state |-> "live", session |-> token[old].session,
                     hash |-> auth[r].hash, past |-> Past]
             end == Dead(old, "rotated")
  <2>1. new \in LiveToken /\ new.state = "live" /\ new.session = token[old].session
        /\ new.hash = user.hash
    BY <1>3, <1>4, <1>6 DEF LiveToken
  <2>2. token' = [token EXCEPT ![old] = end, ![t] = new] /\ end \in DeadToken
    BY <1>5, <1>7
  <2> HIDE DEF new, end, old
  <2>3. token' \in [Tokens -> LiveToken \cup DeadToken \cup {NoToken}]
    BY <2>1, <2>2 DEF IInv, SessionsTypeOK
  <2>4. token'[t] = new /\ token'[old] = end /\ \A u \in Tokens \ {t, old} : token'[u] = token[u]
    BY <1>2, <1>6, <2>2 DEF IInv, SessionsTypeOK
  <2> QED
    BY <2>1, <2>3, <2>4 DEF end
<1>9. token'[old].state \in Reasons /\ token'[old].state # "live"
      /\ token'[old].session = token[old].session
  BY <1>8 DEF Dead, Reasons, ReplayEvidence
<1>10. \A u \in Tokens \ {t, old} : token[u].state = "live" => token[u].session # token[old].session
  BY <1>2, <1>3 DEF IInv, OneLiveTokenPerSession, LiveTokens
<1>11. token[token[old].session].state # "absent"
  BY <1>2, <1>3 DEF IInv, SessionInv
<1>12. pending' = [pending EXCEPT ![old] = Nil]
  BY DEF StoreRotation
<1>13. PendingInv'
  <2>1. auth'[r] = Idle /\ \A p \in AuthRequests \ {r} : auth'[p] = auth[p]
    BY DEF IInv, SessionsTypeOK, StoreRotation, Ends
  <2>2. ASSUME NEW u \in Tokens, pending'[u] # Nil
        PROVE  /\ auth'[pending'[u]].at = "rotated" /\ auth'[pending'[u]].token = u
               /\ token'[u].state = "live"
    <3>1. u # old /\ pending'[u] = pending[u] /\ pending[u] \in AuthRequests
      BY <1>12, <2>2 DEF IInv, SessionsTypeOK
    <3>2. auth[pending[u]].at = "rotated" /\ auth[pending[u]].token = u /\ token[u].state = "live"
      BY <2>2, <3>1 DEF IInv, PendingInv
    <3> QED
      BY <1>5, <1>8, <2>1, <3>1, <3>2
  <2>3. ASSUME NEW p \in AuthRequests, auth'[p].at = "rotated"
        PROVE  pending'[auth'[p].token] = p
    <3>1. p # r
      BY <2>1, <2>3 DEF Idle
    <3>2. auth'[p] = auth[p] /\ pending[auth[p].token] = p /\ auth[p].token \in Tokens
      BY <2>1, <2>3, <3>1 DEF IInv, PendingInv, RequestsInv, Fits, Refreshing
    <3>3. auth[p].token # old
      BY <1>2, <3>1, <3>2
    <3> QED
      BY <1>12, <3>2, <3>3 DEF IInv, SessionsTypeOK
  <2> QED
    BY <2>2, <2>3 DEF PendingInv
<1>14. pending' \in [Tokens -> AuthRequests \cup {Nil}]
  BY <1>12 DEF IInv, SessionsTypeOK
<1>15. \A u \in Tokens \ {t} :
         /\ \/ token'[u] = token[u]
            \/ /\ token[u].state = "live" /\ token'[u].state \in Reasons
               /\ token'[u].session = token[u].session
         /\ token'[u].state = "live" => token'[u].session # token[old].session
  BY <1>3, <1>8, <1>9, <1>10
<1>16. Ends(r) /\ share' = share \ {r} /\ UNCHANGED <<user, excl, link, redeemer>>
  BY DEF StoreRotation
<1> HIDE DEF old
<1> QED
  BY <1>1, <1>3, <1>5, <1>8, <1>11, <1>13, <1>14, <1>15, <1>16, Stores

(* Tokens nobody is rotating are revoked, and nothing else happens to any. *)
LEMMA Revokes ==
    ASSUME IInv, \A t \in Tokens :
             \/ token'[t] = token[t]
             \/ /\ token[t].state = "live" /\ pending[t] = Nil
                /\ token'[t].state \in Reasons /\ token'[t].session = token[t].session
    PROVE  /\ \A t \in Tokens : Ages(t)
           /\ \A t \in Tokens : token'[t].state = "live" \/ pending[t] # Nil => token'[t] = token[t]
           /\ LiveTokens' \subseteq LiveTokens
           /\ SessionInv' /\ OneLiveTokenPerSession'
<1>1. \A t \in Tokens : Ages(t)
  BY DEF Ages
<1>2. \A t \in Tokens : token'[t].state = "live" \/ pending[t] # Nil => token'[t] = token[t]
  BY DEF Reasons, ReplayEvidence
<1>3. LiveTokens' \subseteq LiveTokens
  BY <1>2 DEF LiveTokens
<1>4. OneLiveTokenPerSession'
  BY <1>2, <1>3 DEF IInv, OneLiveTokenPerSession, LiveTokens
<1>5. SessionInv'
  <2>1. \A t \in Tokens : /\ token[t].state # "absent" <=> token'[t].state # "absent"
                           /\ token'[t].session = token[t].session
    BY DEF Reasons, ReplayEvidence
  <2>2. \A t \in Tokens : token[t].state # "absent" => token[t].session \in Tokens
    BY TokenFields DEF IInv
  <2> QED
    BY <2>1, <2>2 DEF IInv, SessionInv
<1> QED
  BY <1>1, <1>2, <1>3, <1>4, <1>5

(* A revoke of many rows.                                                  *)
LEMMA RevokedRows ==
    ASSUME IInv, NEW r \in AuthRequests, At(r, "revoking") \/ At(r, "ending"), token' = Revoked(r)
    PROVE  /\ token' \in [Tokens -> LiveToken \cup DeadToken \cup {NoToken}]
           /\ \A t \in auth[r].rows \cap LiveTokens : token'[t].state # "live"
           /\ \A t \in Tokens :
                \/ token'[t] = token[t]
                \/ /\ token[t].state = "live" /\ pending[t] = Nil
                   /\ token'[t].state \in Reasons /\ token'[t].session = token[t].session
<1>1. auth[r].reason \in Reasons
  BY DEF At, IInv, RequestsInv, Fits, Revoking, Writing
<1>2. \A t \in auth[r].rows \cap LiveTokens : pending[t] = Nil
  BY Granted DEF At
<1>3. \A t \in LiveTokens : /\ Dead(t, auth[r].reason) \in DeadToken
                            /\ Dead(t, auth[r].reason).state \in Reasons
                            /\ Dead(t, auth[r].reason).session = token[t].session
  BY <1>1, TokenFields DEF IInv, LiveTokens, Dead, DeadToken
<1>4. \A t \in Tokens : token'[t] = IF t \in auth[r].rows \cap LiveTokens
                                    THEN Dead(t, auth[r].reason) ELSE token[t]
  BY DEF Revoked
<1>5. token' \in [Tokens -> LiveToken \cup DeadToken \cup {NoToken}]
  BY <1>3 DEF Revoked, IInv, SessionsTypeOK
<1>6. \A t \in auth[r].rows \cap LiveTokens : token'[t].state # "live"
  BY <1>3, <1>4 DEF LiveTokens, Reasons, ReplayEvidence
<1>7. \A t \in Tokens :
        \/ token'[t] = token[t]
        \/ /\ token[t].state = "live" /\ pending[t] = Nil
           /\ token'[t].state \in Reasons /\ token'[t].session = token[t].session
  BY <1>2, <1>3, <1>4 DEF LiveTokens
<1> QED
  BY <1>5, <1>6, <1>7

LEMMA FinishRevokeKeeps ==
    ASSUME IInv, NEW r \in AuthRequests, FinishRevoke(r) PROVE IInv'
<1>1. auth[r].at = "revoking" /\ auth[r].at \notin Sharing /\ excl # r
  BY NilAssumption DEF FinishRevoke, At, Sharing, IInv, RowInv, Writing
<1>2. token' = Revoked(r) /\ Ends(r) /\ UNCHANGED <<user, share, excl, pending, link, redeemer>>
  BY DEF FinishRevoke
<1>3. /\ token' \in [Tokens -> LiveToken \cup DeadToken \cup {NoToken}]
      /\ \A t \in Tokens :
           \/ token'[t] = token[t]
           \/ /\ token[t].state = "live" /\ pending[t] = Nil
              /\ token'[t].state \in Reasons /\ token'[t].session = token[t].session
  BY <1>2, RevokedRows DEF FinishRevoke
<1>4. /\ \A t \in Tokens : Ages(t)
      /\ \A t \in Tokens : token'[t].state = "live" \/ pending[t] # Nil => token'[t] = token[t]
      /\ LiveTokens' \subseteq LiveTokens
      /\ SessionInv' /\ OneLiveTokenPerSession'
  BY <1>3, Revokes
<1>5. /\ auth' \in [AuthRequests -> AuthState]
      /\ \A p \in AuthRequests \ {r} : auth'[p] = auth[p]
      /\ auth'[r] = Idle
      /\ RequestsInv'
      /\ share \ {r} = {p \in AuthRequests : auth'[p].at \in Sharing}
  BY <1>2, <1>4, EndsFit
<1>6. SessionsTypeOK'
  BY <1>2, <1>3, <1>5 DEF IInv, SessionsTypeOK
<1>7. RowInv'
  BY <1>1, <1>2, <1>4, <1>5 DEF IInv, SessionsTypeOK, RowInv
<1>8. PendingInv'
  BY <1>1, <1>2, <1>4, <1>5 DEF IInv, SessionsTypeOK, PendingInv, Idle
<1>9. LiveTokensKnowThePassword'
  BY <1>2, <1>4 DEF IInv, LiveTokensKnowThePassword, LiveTokens
<1> QED
  BY <1>4, <1>5, <1>6, <1>7, <1>8, <1>9 DEF IInv

LEMMA SignOutKeeps ==
    ASSUME IInv, NEW r \in AuthRequests, NEW t \in Tokens, SignOut(r, t) PROVE IInv'
<1>1. /\ t \in LiveTokens /\ pending[t] = Nil
      /\ token' = [token EXCEPT ![t] = Dead(t, "signed out")]
      /\ UNCHANGED <<user, share, excl, pending, link, redeemer, auth>>
  BY DEF SignOut
<1>2. /\ Dead(t, "signed out") \in DeadToken /\ Dead(t, "signed out").state \in Reasons
      /\ Dead(t, "signed out").session = token[t].session
  BY <1>1, TokenFields DEF IInv, LiveTokens, Dead, DeadToken, Reasons, ReplayEvidence
<1>3. token' \in [Tokens -> LiveToken \cup DeadToken \cup {NoToken}]
  BY <1>1, <1>2 DEF IInv, SessionsTypeOK
<1>4. \A u \in Tokens :
        \/ token'[u] = token[u]
        \/ /\ token[u].state = "live" /\ pending[u] = Nil
           /\ token'[u].state \in Reasons /\ token'[u].session = token[u].session
  BY <1>1, <1>2 DEF IInv, SessionsTypeOK, LiveTokens
<1>5. /\ \A u \in Tokens : Ages(u)
      /\ \A u \in Tokens : token'[u].state = "live" \/ pending[u] # Nil => token'[u] = token[u]
      /\ LiveTokens' \subseteq LiveTokens
      /\ SessionInv' /\ OneLiveTokenPerSession'
  BY <1>4, Revokes
<1>6. SessionsTypeOK'
  BY <1>1, <1>3 DEF IInv, SessionsTypeOK
<1>7. RequestsInv'
  BY <1>1, <1>5, FitsStill DEF IInv, RequestsInv
<1>8. RowInv'
  BY <1>1, <1>5 DEF IInv, RowInv
<1>9. PendingInv'
  BY <1>1, <1>5 DEF IInv, PendingInv
<1>10. LiveTokensKnowThePassword'
  BY <1>1, <1>5 DEF IInv, LiveTokensKnowThePassword, LiveTokens
<1> QED
  BY <1>5, <1>6, <1>7, <1>8, <1>9, <1>10 DEF IInv

(* A password write commits.  If it has the user's row, nobody shares it   *)
(* and every live token was there when its revoke began.                   *)
LEMMA CommitPasswordKeeps ==
    ASSUME IInv, NEW r \in AuthRequests, CommitPassword(r) PROVE IInv'
<1>1. auth[r].at = "ending" /\ At(r, "ending") /\ auth[r].at \notin Sharing
  BY DEF CommitPassword, At, Sharing
<1>2. /\ token' = Revoked(r) /\ Ends(r) /\ UNCHANGED <<share, pending>>
      /\ user' = IF excl = r THEN [user EXCEPT !.hash = @ + 1] ELSE user
      /\ excl' = IF excl = r THEN Nil ELSE excl
      /\ link' = [l \in Links |-> IF redeemer[l] = r THEN "spent" ELSE link[l]]
      /\ redeemer' = [l \in Links |-> IF redeemer[l] = r THEN Nil ELSE redeemer[l]]
  BY DEF CommitPassword
<1>3. /\ token' \in [Tokens -> LiveToken \cup DeadToken \cup {NoToken}]
      /\ \A t \in auth[r].rows \cap LiveTokens : token'[t].state # "live"
      /\ \A t \in Tokens :
           \/ token'[t] = token[t]
           \/ /\ token[t].state = "live" /\ pending[t] = Nil
              /\ token'[t].state \in Reasons /\ token'[t].session = token[t].session
  BY <1>1, <1>2, RevokedRows
<1>4. /\ \A t \in Tokens : Ages(t)
      /\ \A t \in Tokens : token'[t].state = "live" \/ pending[t] # Nil => token'[t] = token[t]
      /\ LiveTokens' \subseteq LiveTokens
      /\ SessionInv' /\ OneLiveTokenPerSession'
  BY <1>3, Revokes
<1>5. excl = r => share = {} /\ user.hash < MaxHash /\ LiveTokens \subseteq auth[r].rows
  BY <1>1, NilAssumption DEF IInv, SessionsTypeOK, RowInv
<1>6. user' \in [hash : 1..MaxHash, status : {"ACTIVE", "INACTIVE"}, deleted : BOOLEAN, off : 0..MaxOff]
  <2>1. CASE excl = r
    <3>1. user.hash + 1 \in 1..MaxHash
      BY <1>5, <2>1, SessionsBounds DEF IInv, SessionsTypeOK
    <3> QED
      BY <1>2, <2>1, <3>1 DEF IInv, SessionsTypeOK
  <2>2. CASE excl # r
    BY <1>2, <2>2 DEF IInv, SessionsTypeOK
  <2> QED
    BY <2>1, <2>2
<1>7. user'.hash = user.hash \/ share = {}
  BY <1>2, <1>5
<1>8. /\ auth' \in [AuthRequests -> AuthState]
      /\ \A p \in AuthRequests \ {r} : auth'[p] = auth[p]
      /\ auth'[r] = Idle
      /\ RequestsInv'
      /\ share \ {r} = {p \in AuthRequests : auth'[p].at \in Sharing}
  BY <1>2, <1>4, <1>7, EndsFit
<1>9. SessionsTypeOK'
  <2>1. /\ link' \in [Links -> {"absent", "live", "spent"}]
        /\ redeemer' \in [Links -> AuthRequests \cup {Nil}]
    BY <1>2 DEF IInv, SessionsTypeOK
  <2>2. share' \subseteq AuthRequests /\ excl' \in AuthRequests \cup {Nil} /\ (excl' # Nil => share' = {})
        /\ pending' \in [Tokens -> AuthRequests \cup {Nil}]
    BY <1>2 DEF IInv, SessionsTypeOK
  <2> QED
    BY <1>3, <1>6, <1>8, <2>1, <2>2 DEF SessionsTypeOK
<1>10. RowInv'
  <2>1. r \notin share
    BY <1>1 DEF IInv, RowInv
  <2>2. excl' # Nil => excl' = excl /\ excl # r /\ user' = user
    BY <1>2
  <2> QED
    BY <1>2, <1>4, <1>8, <2>1, <2>2 DEF IInv, SessionsTypeOK, RowInv
<1>11. PendingInv'
  BY <1>1, <1>2, <1>4, <1>8 DEF IInv, SessionsTypeOK, PendingInv, Idle
<1>12. LiveTokensKnowThePassword'
  <2>1. CASE excl = r
    <3>1. LiveTokens' = {}
      BY <1>3, <1>4, <1>5, <2>1 DEF LiveTokens
    <3> QED
      BY <3>1 DEF LiveTokensKnowThePassword
  <2>2. CASE excl # r
    BY <1>2, <1>4, <2>2 DEF IInv, LiveTokensKnowThePassword, LiveTokens
  <2> QED
    BY <2>1, <2>2
<1> QED
  BY <1>4, <1>8, <1>9, <1>10, <1>11, <1>12 DEF IInv

-----------------------------------------------------------------------------
(* The rest.                                                               *)

(* An administrator's write of the row, and the revoke that will follow.   *)
LEMMA DeactivateKeeps ==
    ASSUME IInv, NEW r \in AuthRequests, Deactivate(r) PROVE IInv'
<1>1. PICK gone \in BOOLEAN :
        /\ user' = [TakenOut EXCEPT !.deleted = gone]
        /\ auth' = [auth EXCEPT ![r] =
               [Idle EXCEPT !.at = "sweeping",
                            !.reason = IF gone THEN "account deleted" ELSE "account deactivated"]]
  BY DEF Deactivate
<1> DEFINE q == [Idle EXCEPT !.at = "sweeping",
                             !.reason = IF gone THEN "account deleted" ELSE "account deactivated"]
<1>2. /\ auth[r].at = "idle" /\ excl = Nil /\ share = {}
      /\ (user.status = "ACTIVE" => user.off < MaxOff)
      /\ UNCHANGED <<share, excl, token, pending, link, redeemer>>
  BY DEF Deactivate, At, RowFree
<1>3. q \in AuthState /\ q.at = "sweeping"
  BY IdleFits DEF AuthState, AuthPlaces, Reasons
<1>4. Fits(q, token, user.hash)
  BY DEF Fits, Idle, Refreshing, Revoking, Reasons
<1>5. user' \in [hash : 1..MaxHash, status : {"ACTIVE", "INACTIVE"}, deleted : BOOLEAN, off : 0..MaxOff]
      /\ user'.hash = user.hash
  <2>1. user \in [hash : 1..MaxHash, status : {"ACTIVE", "INACTIVE"}, deleted : BOOLEAN, off : 0..MaxOff]
    BY DEF IInv, SessionsTypeOK
  <2> DEFINE off == IF user.status = "ACTIVE" THEN user.off + 1 ELSE user.off
  <2>2. off \in 0..MaxOff
    BY <1>2, <2>1, SessionsBounds
  <2>3. user' = [user EXCEPT !.status = "INACTIVE", !.off = off, !.deleted = gone]
    BY <1>1, <2>1 DEF TakenOut
  <2> HIDE DEF off
  <2> QED
    BY <2>1, <2>2, <2>3
<1>6. auth' = [auth EXCEPT ![r] = q]
  BY <1>1
<1> HIDE DEF q
<1>7. auth'[r] = q /\ auth' \in [AuthRequests -> AuthState]
      /\ \A p \in AuthRequests \ {r} : auth'[p] = auth[p]
  BY <1>3, <1>6 DEF IInv, SessionsTypeOK
<1>8. SessionsTypeOK'
  BY <1>2, <1>5, <1>7 DEF IInv, SessionsTypeOK
<1>9. RequestsInv'
  BY <1>2, <1>4, <1>5, <1>7 DEF IInv, RequestsInv
<1>10. RowInv'
  BY <1>2, <1>3, <1>7 DEF IInv, RowInv, Sharing
<1>11. PendingInv'
  BY <1>2, <1>3, <1>7 DEF IInv, PendingInv, SessionsTypeOK
<1>12. SessionInv' /\ LiveTokensKnowThePassword' /\ OneLiveTokenPerSession'
  BY <1>2, <1>5 DEF IInv, SessionInv, LiveTokensKnowThePassword, OneLiveTokenPerSession, LiveTokens
<1> QED
  BY <1>8, <1>9, <1>10, <1>11, <1>12 DEF IInv

LEMMA ActivateKeeps == ASSUME IInv, Activate PROVE IInv'
<1>1. user' = [user EXCEPT !.status = "ACTIVE"]
      /\ UNCHANGED <<share, excl, token, pending, link, redeemer, auth>>
  BY DEF Activate
<1>2. SessionsTypeOK' /\ user'.hash = user.hash
  BY <1>1 DEF IInv, SessionsTypeOK
<1>3. RequestsInv' /\ RowInv' /\ PendingInv' /\ SessionInv'
  BY <1>1, <1>2 DEF IInv, RequestsInv, RowInv, PendingInv, SessionInv, LiveTokens
<1>4. LiveTokensKnowThePassword' /\ OneLiveTokenPerSession'
  BY <1>1, <1>2 DEF IInv, LiveTokensKnowThePassword, OneLiveTokenPerSession, LiveTokens
<1> QED
  BY <1>2, <1>3, <1>4 DEF IInv

(* Reset links come and go.                                                *)
LEMMA LinksKeep ==
    ASSUME IInv, NEW l \in Links, SendLink(l) \/ LinkExpires(l) PROVE IInv'
<1>1. UNCHANGED <<user, share, excl, token, pending, redeemer, auth>>
  BY DEF SendLink, LinkExpires
<1>2. link' \in [Links -> {"absent", "live", "spent"}]
  BY DEF SendLink, LinkExpires, IInv, SessionsTypeOK
<1>3. SessionsTypeOK'
  BY <1>1, <1>2 DEF IInv, SessionsTypeOK
<1>4. RequestsInv' /\ RowInv' /\ PendingInv' /\ SessionInv'
  BY <1>1 DEF IInv, RequestsInv, RowInv, PendingInv, SessionInv, LiveTokens
<1>5. LiveTokensKnowThePassword' /\ OneLiveTokenPerSession'
  BY <1>1 DEF IInv, LiveTokensKnowThePassword, OneLiveTokenPerSession, LiveTokens
<1> QED
  BY <1>3, <1>4, <1>5 DEF IInv

(* A rollback releases what the request holds.                             *)
LEMMA AbortKeeps ==
    ASSUME IInv, NEW r \in AuthRequests, Abort(r) PROVE IInv'
<1>1. /\ share' = share \ {r}
      /\ excl' = IF excl = r THEN Nil ELSE excl
      /\ pending' = [t \in Tokens |-> IF pending[t] = r THEN Nil ELSE pending[t]]
      /\ redeemer' = [l \in Links |-> IF redeemer[l] = r THEN Nil ELSE redeemer[l]]
      /\ Ends(r) /\ UNCHANGED <<user, token, link>>
  BY DEF Abort
<1>2. \A t \in Tokens : Ages(t)
  BY <1>1 DEF Ages
<1>3. /\ auth' \in [AuthRequests -> AuthState]
      /\ \A p \in AuthRequests \ {r} : auth'[p] = auth[p]
      /\ auth'[r] = Idle
      /\ RequestsInv'
      /\ share' = {p \in AuthRequests : auth'[p].at \in Sharing}
  BY <1>1, <1>2, EndsFit
<1>4. SessionsTypeOK'
  BY <1>1, <1>3 DEF IInv, SessionsTypeOK
<1>5. RowInv'
  BY <1>1, <1>3 DEF IInv, SessionsTypeOK, RowInv, LiveTokens
<1>6. PendingInv'
  <2>1. ASSUME NEW t \in Tokens, pending'[t] # Nil
        PROVE  /\ auth'[pending'[t]].at = "rotated" /\ auth'[pending'[t]].token = t
               /\ token'[t].state = "live"
    <3>1. pending'[t] = pending[t] /\ pending[t] # r /\ pending[t] \in AuthRequests
      BY <1>1, <2>1 DEF IInv, SessionsTypeOK
    <3> QED
      BY <1>1, <1>3, <2>1, <3>1 DEF IInv, PendingInv
  <2>2. ASSUME NEW p \in AuthRequests, auth'[p].at = "rotated"
        PROVE  pending'[auth'[p].token] = p
    <3>1. p # r
      BY <1>3, <2>2 DEF Idle
    <3>2. auth'[p] = auth[p] /\ pending[auth[p].token] = p /\ auth[p].token \in Tokens
      BY <1>3, <2>2, <3>1 DEF IInv, PendingInv, RequestsInv, Fits, Refreshing
    <3> QED
      BY <1>1, <3>1, <3>2
  <2> QED
    BY <2>1, <2>2 DEF PendingInv
<1>7. SessionInv' /\ LiveTokensKnowThePassword' /\ OneLiveTokenPerSession'
  BY <1>1 DEF IInv, SessionInv, LiveTokensKnowThePassword, OneLiveTokenPerSession, LiveTokens
<1> QED
  BY <1>3, <1>4, <1>5, <1>6, <1>7 DEF IInv

LEMMA InitKeeps == ASSUME SessionsInit PROVE IInv
<1>1. SessionsTypeOK
  BY IdleFits, SessionsBounds DEF SessionsInit, SessionsTypeOK
<1>2. RequestsInv
  BY IdleFits DEF SessionsInit, RequestsInv
<1>3. RowInv
  BY DEF SessionsInit, RowInv, Idle, Sharing
<1>4. PendingInv
  BY DEF SessionsInit, PendingInv, Idle
<1>5. SessionInv /\ LiveTokensKnowThePassword /\ OneLiveTokenPerSession
  BY DEF SessionsInit, SessionInv, LiveTokensKnowThePassword, OneLiveTokenPerSession, LiveTokens, NoToken
<1> QED
  BY <1>1, <1>2, <1>3, <1>4, <1>5 DEF IInv

LEMMA NextKeeps == ASSUME IInv, [SessionsNext]_sessionVars PROVE IInv'
<1>1. ASSUME NEW r \in AuthRequests, Step(r) PROVE IInv'
  <2>1. CASE ReadCredentials(r) \/ LockForSignIn(r) \/ StoreSignIn(r)
    BY <2>1, ReadCredentialsKeeps, LockForSignInKeeps, StoreSignInKeeps
  <2>2. CASE \E t \in Tokens : FindToken(r, t) \/ SignOut(r, t)
    BY <2>2, FindTokenKeeps, SignOutKeeps
  <2>3. CASE FindUser(r) \/ LockForRotation(r) \/ Rotate(r) \/ ReadReason(r) \/ StoreRotation(r)
    BY <2>3, FindUserKeeps, LockForRotationKeeps, RotateKeeps, ReadReasonKeeps, StoreRotationKeeps
  <2>4. CASE StartRevoke(r) \/ FinishRevoke(r)
    BY <2>4, StartRevokeKeeps, FinishRevokeKeeps
  <2>5. CASE BeginChange(r) \/ Consume(r) \/ TakeRow(r) \/ Invalidate(r) \/ CommitPassword(r)
    BY <2>5, BeginChangeKeeps, ConsumeKeeps, TakeRowKeeps, InvalidateKeeps, CommitPasswordKeeps
  <2>6. CASE \E l \in Links : FindLink(r, l)
    BY <2>6, FindLinkKeeps
  <2>7. CASE Deactivate(r) \/ Abort(r)
    BY <2>7, DeactivateKeeps, AbortKeeps
  <2> QED
    BY <1>1, <2>1, <2>2, <2>3, <2>4, <2>5, <2>6, <2>7 DEF Step
<1>2. CASE UNCHANGED sessionVars
  <2> USE <1>2 DEF sessionVars, IInv
  <2>1. SessionsTypeOK' /\ RequestsInv'
    BY DEF SessionsTypeOK, RequestsInv
  <2>2. RowInv' /\ PendingInv' /\ SessionInv'
    BY DEF RowInv, PendingInv, SessionInv, LiveTokens
  <2>3. LiveTokensKnowThePassword' /\ OneLiveTokenPerSession'
    BY DEF LiveTokensKnowThePassword, OneLiveTokenPerSession, LiveTokens
  <2> QED
    BY <2>1, <2>2, <2>3
<1> QED
  BY <1>1, <1>2, LinksKeep, ActivateKeeps DEF SessionsNext

-----------------------------------------------------------------------------
\* The inductive invariant of the sessions of sign_in, refresh, the revokes
\* and the password writes: what each place of a request rests on.
THEOREM Invariance == SessionsSpec => []IInv
<1>1. SessionsInit => IInv
  BY InitKeeps
<1>2. IInv /\ [SessionsNext]_sessionVars => IInv'
  BY NextKeeps
<1> QED
  BY <1>1, <1>2, PTL DEF SessionsSpec

\* The rows and locks have their types, and a lock of the user's row by an
\* UPDATE excludes those taken FOR SHARE (lock_password_hash_for_session).
THEOREM TypeCorrect == SessionsSpec => []SessionsTypeOK
<1>1. IInv => SessionsTypeOK
  BY DEF IInv
<1> QED
  BY <1>1, Invariance, PTL

\* "A refresh token never outlives a password write" (ADR-0048), for any
\* number of sign-ins, rotations and password writes at once.
THEOREM PasswordEndsSessions == SessionsSpec => []LiveTokensKnowThePassword
<1>1. IInv => LiveTokensKnowThePassword
  BY DEF IInv
<1> QED
  BY <1>1, Invariance, PTL

\* However many refreshes present a token at once, one of them renews its
\* session (revoke_refresh_token, #751).
THEOREM OneToken == SessionsSpec => []OneLiveTokenPerSession
<1>1. IInv => OneLiveTokenPerSession
  BY DEF IInv
<1> QED
  BY <1>1, Invariance, PTL

\* refuse_revoked sweeps only for a token that was rotated, signed out or
\* swept, whatever its request had read before.
THEOREM OnlyReplay == SessionsSpec => []OnlyReplaySweeps
<1>1. IInv => OnlyReplaySweeps
  BY DEF IInv, RequestsInv, Fits, OnlyReplaySweeps
<1> QED
  BY <1>1, Invariance, PTL

-----------------------------------------------------------------------------
(* What an account that is out of use lets a refresh do.  A token that was *)
(* stored since the account left ACTIVE says so in past, and a refresh     *)
(* that got beyond its read of the user has read ACTIVE before that.       *)
Renewing == {"rotating", "locked", "rotated"}

OffInv ==
    /\ share # {} => ~user.deleted
    /\ \A t \in LiveTokens : token[t].past <= user.off
    /\ \A r \in AuthRequests :
         (auth[r].at \in Renewing /\ user.status # "ACTIVE" /\ auth[r].token \in LiveTokens)
           => token[auth[r].token].past # user.off

(* Nothing that OffInv speaks of appears, and the account stays as it is.  *)
LEMMA OffStays ==
    ASSUME OffInv, share' \subseteq share,
           user'.deleted = user.deleted, user'.status = user.status, user'.off = user.off,
           \A t \in LiveTokens' : t \in LiveTokens /\ token'[t] = token[t],
           \A r \in AuthRequests : auth'[r].at \in Renewing =>
             auth[r].at \in Renewing /\ auth'[r].token = auth[r].token
    PROVE  OffInv'
<1>1. share' # {} => ~user'.deleted
  BY DEF OffInv
<1>2. \A t \in LiveTokens' : token'[t].past <= user'.off
  BY DEF OffInv
<1>3. ASSUME NEW r \in AuthRequests, auth'[r].at \in Renewing, user'.status # "ACTIVE",
             auth'[r].token \in LiveTokens'
      PROVE  token'[auth'[r].token].past # user'.off
  BY <1>3 DEF OffInv
<1> QED
  BY <1>1, <1>2, <1>3 DEF OffInv

(* Where a request is after a step that sends it to a place, or ends it.   *)
LEMMA Moves ==
    ASSUME IInv, NEW r \in AuthRequests
    PROVE  /\ Ends(r) => \A p \in AuthRequests : auth'[p] = IF p = r THEN Idle ELSE auth[p]
           /\ \A place : Proceeds(r, place) =>
                \A p \in AuthRequests : /\ auth'[p].at = IF p = r THEN place ELSE auth[p].at
                                        /\ auth'[p].token = auth[p].token
<1>1. auth \in [AuthRequests -> AuthState]
  BY DEF IInv, SessionsTypeOK
<1>2. ASSUME Ends(r), NEW p \in AuthRequests PROVE auth'[p] = IF p = r THEN Idle ELSE auth[p]
  BY <1>1, <1>2 DEF Ends
<1>3. ASSUME NEW place, Proceeds(r, place), NEW p \in AuthRequests
      PROVE  /\ auth'[p].at = IF p = r THEN place ELSE auth[p].at
             /\ auth'[p].token = auth[p].token
  BY <1>1, <1>3 DEF Proceeds, AuthState
<1> QED
  BY <1>2, <1>3

(* The steps at which the account, its tokens and its share locks stay, or *)
(* become fewer, and no refresh gets beyond its read of the user.          *)
LEMMA QuietSteps ==
    ASSUME IInv, OffInv, NEW r \in AuthRequests,
           \/ ReadCredentials(r) \/ Rotate(r) \/ ReadReason(r) \/ StartRevoke(r)
           \/ BeginChange(r) \/ Consume(r) \/ TakeRow(r) \/ Invalidate(r)
           \/ \E t \in Tokens : FindToken(r, t)
           \/ \E l \in Links : FindLink(r, l)
           \/ Abort(r)
    PROVE  OffInv'
<1>1. UNCHANGED <<user, token>> /\ share' \subseteq share
  BY DEF ReadCredentials, Rotate, ReadReason, StartRevoke, BeginChange, Consume, TakeRow, Invalidate,
         FindToken, FindLink, Abort
<1>2. \A t \in LiveTokens' : t \in LiveTokens /\ token'[t] = token[t]
  BY <1>1 DEF LiveTokens
<1>3. ASSUME NEW p \in AuthRequests, auth'[p].at \in Renewing
      PROVE  auth[p].at \in Renewing /\ auth'[p].token = auth[p].token
  <2> USE DEF Renewing
  <2>1. auth \in [AuthRequests -> AuthState]
    BY DEF IInv, SessionsTypeOK
  <2>2. Idle.at = "idle"
    BY DEF Idle
  <2>3. CASE Rotate(r)
    BY <1>3, <2>3, Moves DEF Rotate, At
  <2>4. CASE ReadCredentials(r)
    BY <1>3, <2>1, <2>4 DEF ReadCredentials, Idle
  <2>5. CASE ReadReason(r)
    BY <1>3, <2>1, <2>2, <2>5 DEF ReadReason, Refused, Ends, Idle
  <2>6. CASE StartRevoke(r)
    BY <1>3, <2>1, <2>6 DEF StartRevoke, AuthState
  <2>7. CASE BeginChange(r)
    BY <1>3, <2>1, <2>7 DEF BeginChange, Idle
  <2>8. CASE Consume(r) \/ TakeRow(r) \/ Invalidate(r)
    BY <1>3, <2>2, <2>8, Moves DEF Consume, TakeRow, Invalidate, AfterTheRow
  <2>9. CASE \E t \in Tokens : FindToken(r, t)
    <3>1. PICK t \in Tokens : FindToken(r, t)
      BY <2>9
    <3>2. \/ Ends(r)
          \/ auth' = [auth EXCEPT ![r] = [Idle EXCEPT !.at = "sweeping", !.token = t,
                                                 !.reason = "refresh token reuse"]]
          \/ auth' = [auth EXCEPT ![r] = [Idle EXCEPT !.at = "found", !.token = t,
                                                 !.hash = token[t].hash]]
      BY <3>1 DEF FindToken, Refused
    <3>3. auth'[r].at \notin Renewing /\ (p # r => auth'[p] = auth[p])
      <4>1. CASE Ends(r)
        BY <2>1, <2>2, <4>1 DEF Ends
      <4>2. CASE auth' = [auth EXCEPT ![r] = [Idle EXCEPT !.at = "sweeping", !.token = t,
                                                    !.reason = "refresh token reuse"]]
        BY <2>1, <4>2 DEF Idle
      <4>3. CASE auth' = [auth EXCEPT ![r] = [Idle EXCEPT !.at = "found", !.token = t,
                                                    !.hash = token[t].hash]]
        BY <2>1, <4>3 DEF Idle
      <4> QED
        BY <3>2, <4>1, <4>2, <4>3
    <3> QED
      BY <1>3, <3>3
  <2>10. CASE \E l \in Links : FindLink(r, l)
    BY <1>3, <2>1, <2>10 DEF FindLink, Idle
  <2>11. CASE Abort(r)
    BY <1>3, <2>2, <2>11, Moves DEF Abort
  <2> QED
    BY <2>3, <2>4, <2>5, <2>6, <2>7, <2>8, <2>9, <2>10, <2>11
<1> QED
  BY <1>1, <1>2, <1>3, OffStays

(* The steps that revoke.                                                  *)
LEMMA RevokingSteps ==
    ASSUME IInv, OffInv, NEW r \in AuthRequests,
           FinishRevoke(r) \/ CommitPassword(r) \/ \E t \in Tokens : SignOut(r, t)
    PROVE  OffInv'
<1>1. \A t \in LiveTokens' : t \in LiveTokens /\ token'[t] = token[t]
  <2>1. CASE FinishRevoke(r) \/ CommitPassword(r)
    <3>1. token' = Revoked(r) /\ (At(r, "revoking") \/ At(r, "ending"))
      BY <2>1 DEF FinishRevoke, CommitPassword
    <3> QED
      BY <3>1, RevokedRows, Revokes DEF LiveTokens
  <2>2. CASE \E t \in Tokens : SignOut(r, t)
    <3>1. PICK t \in Tokens : SignOut(r, t)
      BY <2>2
    <3>2. token' = [token EXCEPT ![t] = Dead(t, "signed out")]
      BY <3>1 DEF SignOut
    <3>3. Dead(t, "signed out").state # "live"
      BY DEF Dead
    <3> QED
      BY <3>2, <3>3 DEF IInv, SessionsTypeOK, LiveTokens
  <2> QED
    BY <2>1, <2>2
<1>2. /\ user'.deleted = user.deleted /\ user'.status = user.status /\ user'.off = user.off
      /\ share' = share
  BY DEF FinishRevoke, CommitPassword, SignOut, IInv, SessionsTypeOK
<1>3. ASSUME NEW p \in AuthRequests, auth'[p].at \in Renewing
      PROVE  auth[p].at \in Renewing /\ auth'[p].token = auth[p].token
  <2>1. Idle.at \notin Renewing
    BY DEF Idle, Renewing
  <2> QED
    BY <1>3, <2>1, Moves DEF FinishRevoke, CommitPassword, SignOut
<1> QED
  BY <1>1, <1>2, <1>3, OffStays

(* The steps that take the row shared: there is a user.                    *)
LEMMA SharingSteps ==
    ASSUME IInv, OffInv, NEW r \in AuthRequests, LockForSignIn(r) \/ LockForRotation(r)
    PROVE  OffInv'
<1>1. UNCHANGED <<user, token>> /\ (share' # {} => ~user.deleted)
  BY DEF LockForSignIn, LockForRotation, OffInv
<1>2. ASSUME NEW p \in AuthRequests, auth'[p].at \in Renewing
      PROVE  auth[p].at \in Renewing /\ auth'[p].token = auth[p].token
  <2>1. Idle.at \notin Renewing /\ "storing" \notin Renewing /\ "rotating" \in Renewing
    BY DEF Idle, Renewing
  <2> QED
    BY <1>2, <2>1, Moves DEF LockForSignIn, LockForRotation, At
<1> QED
  BY <1>1, <1>2 DEF OffInv, LiveTokens

(* The read of the user: a refresh goes on only if the account is ACTIVE.  *)
LEMMA FindUserOff ==
    ASSUME IInv, OffInv, NEW r \in AuthRequests, FindUser(r) PROVE OffInv'
<1>1. UNCHANGED <<user, share, token>>
  BY DEF FindUser
<1>2. ASSUME NEW p \in AuthRequests, auth'[p].at \in Renewing, user.status # "ACTIVE"
      PROVE  auth[p].at \in Renewing /\ auth'[p].token = auth[p].token
  <2>1. auth \in [AuthRequests -> AuthState] /\ Idle.at \notin Renewing
    BY DEF IInv, SessionsTypeOK, Idle, Renewing
  <2>2. CASE Ends(r)
    BY <1>2, <2>1, <2>2, Moves
  <2>3. CASE auth' = [auth EXCEPT ![r] = [Idle EXCEPT !.at = "sweeping", !.reason = "account not active"]]
    BY <1>2, <2>1, <2>3 DEF Idle, Renewing
  <2> QED
    BY <1>2, <2>2, <2>3 DEF FindUser
<1> QED
  BY <1>1, <1>2 DEF OffInv, LiveTokens

(* A token is stored: it says since when the account is out of use, and no *)
(* other refresh has it.                                                   *)
LEMMA StoringOff ==
    ASSUME IInv, OffInv, NEW r \in AuthRequests, auth[r].at \in Sharing, Ends(r),
           NEW t \in Tokens, token[t].state = "absent", token'[t].past = Past,
           \A u \in LiveTokens' \ {t} : u \in LiveTokens /\ token'[u] = token[u],
           share' \subseteq share, user' = user
    PROVE  OffInv'
<1>1. share' # {} => ~user'.deleted
  BY DEF OffInv
<1>2. Past <= user.off
  BY DEF Past, IInv, SessionsTypeOK
<1>3. \A u \in LiveTokens' : token'[u].past <= user'.off
  BY <1>2 DEF OffInv
<1>4. ASSUME NEW p \in AuthRequests, auth'[p].at \in Renewing, user'.status # "ACTIVE",
             auth'[p].token \in LiveTokens'
      PROVE  token'[auth'[p].token].past # user'.off
  <2>1. p # r /\ auth'[p] = auth[p]
    BY <1>4, Moves DEF Idle, Renewing
  <2>2. auth[p].token # t
    BY <1>4, <2>1 DEF IInv, RequestsInv, Fits, Refreshing, Renewing
  <2> QED
    BY <1>4, <2>1, <2>2 DEF OffInv
<1> QED
  BY <1>1, <1>3, <1>4 DEF OffInv

LEMMA StoringSteps ==
    ASSUME IInv, OffInv, NEW r \in AuthRequests, StoreSignIn(r) \/ StoreRotation(r) PROVE OffInv'
<1>1. auth[r].at \in Sharing /\ Ends(r) /\ share' \subseteq share /\ user' = user
  BY DEF StoreSignIn, StoreRotation, At, Sharing
<1>2. token \in [Tokens -> LiveToken \cup DeadToken \cup {NoToken}]
  BY DEF IInv, SessionsTypeOK
<1>3. CASE StoreSignIn(r)
  <2>1. PICK t \in Tokens :
          /\ token[t].state = "absent"
          /\ token' = [token EXCEPT ![t] = [state |-> "live", session |-> t,
                                            hash |-> auth[r].hash, past |-> Past]]
    BY <1>3 DEF StoreSignIn
  <2>2. token'[t].past = Past /\ \A u \in Tokens \ {t} : token'[u] = token[u]
    BY <1>2, <2>1
  <2> QED
    BY <1>1, <2>1, <2>2, StoringOff DEF LiveTokens
<1>4. CASE StoreRotation(r)
  <2> DEFINE old == auth[r].token
  <2>1. PICK t \in Tokens :
          /\ token[t].state = "absent"
          /\ token' = [token EXCEPT ![old] = Dead(old, "rotated"),
                                    ![t] = [state |-> "live", session |-> token[old].session,
                                            hash |-> auth[r].hash, past |-> Past]]
    BY <1>4 DEF StoreRotation
  <2>2. old \in Tokens /\ Dead(old, "rotated").state # "live"
    BY <1>4 DEF StoreRotation, At, IInv, RequestsInv, Fits, Refreshing, Dead
  <2> HIDE DEF old
  <2>3. /\ token'[t].past = Past
        /\ old # t => token'[old].state # "live"
        /\ \A u \in Tokens \ {t, old} : token'[u] = token[u]
    BY <1>2, <2>1, <2>2
  <2>4. \A u \in LiveTokens' \ {t} : u \in LiveTokens /\ token'[u] = token[u]
    BY <2>3 DEF LiveTokens
  <2> QED
    BY <1>1, <2>1, <2>3, <2>4, StoringOff
<1> QED
  BY <1>3, <1>4

(* An administrator's write: what is stored is older than the account's    *)
(* leaving ACTIVE, which is counted.                                       *)
LEMMA DeactivateOff ==
    ASSUME IInv, OffInv, NEW r \in AuthRequests, Deactivate(r) PROVE OffInv'
<1>1. share' = {} /\ UNCHANGED token
  BY DEF Deactivate, RowFree
<1>2. PICK gone \in BOOLEAN :
        /\ user' = [TakenOut EXCEPT !.deleted = gone]
        /\ auth' = [auth EXCEPT ![r] =
               [Idle EXCEPT !.at = "sweeping",
                            !.reason = IF gone THEN "account deleted" ELSE "account deactivated"]]
  BY DEF Deactivate
<1>3. user'.off = IF user.status = "ACTIVE" THEN user.off + 1 ELSE user.off
  BY <1>2 DEF TakenOut, IInv, SessionsTypeOK
<1>4. auth'[r].at = "sweeping" /\ \A p \in AuthRequests \ {r} : auth'[p] = auth[p]
  BY <1>2 DEF IInv, SessionsTypeOK, Idle
<1>5. \A t \in LiveTokens : token[t].past \in Nat /\ user.off \in Nat
  BY TokenFields, SessionsBounds DEF IInv, SessionsTypeOK, LiveTokens, LiveToken
<1>6. \A t \in LiveTokens' : token'[t].past <= user'.off
  BY <1>1, <1>3, <1>5 DEF OffInv, LiveTokens
<1>7. ASSUME NEW p \in AuthRequests, auth'[p].at \in Renewing, auth'[p].token \in LiveTokens'
      PROVE  token'[auth'[p].token].past # user'.off
  <2>1. auth'[p] = auth[p] /\ auth[p].token \in LiveTokens
    BY <1>1, <1>4, <1>7 DEF Renewing, LiveTokens
  <2>2. CASE user.status = "ACTIVE"
    BY <1>1, <1>3, <1>5, <2>1, <2>2 DEF OffInv
  <2>3. CASE user.status # "ACTIVE"
    BY <1>1, <1>3, <1>7, <2>1, <2>3 DEF OffInv
  <2> QED
    BY <2>2, <2>3
<1> QED
  BY <1>1, <1>6, <1>7 DEF OffInv

LEMMA ActivateOff == ASSUME IInv, OffInv, Activate PROVE OffInv'
<1>1. share' = {} /\ UNCHANGED <<token, auth>>
  BY DEF Activate, RowFree
<1>2. user'.status = "ACTIVE" /\ user'.off = user.off
  BY DEF Activate, IInv, SessionsTypeOK
<1> QED
  BY <1>1, <1>2 DEF OffInv, LiveTokens

LEMMA NextOff == ASSUME IInv, OffInv, [SessionsNext]_sessionVars PROVE OffInv'
<1>1. ASSUME NEW r \in AuthRequests, Step(r) PROVE OffInv'
  BY <1>1, QuietSteps, RevokingSteps, SharingSteps, FindUserOff, StoringSteps, DeactivateOff DEF Step
<1>2. CASE Activate
  BY <1>2, ActivateOff
<1>3. CASE \E l \in Links : SendLink(l) \/ LinkExpires(l)
  BY <1>3 DEF SendLink, LinkExpires, OffInv, LiveTokens
<1>4. CASE UNCHANGED sessionVars
  BY <1>4 DEF sessionVars, OffInv, LiveTokens
<1> QED
  BY <1>1, <1>2, <1>3, <1>4 DEF SessionsNext

\* A refresh reads the status of its user itself, and the lock reads a live
\* row only: whenever a deactivation's or a deletion's revoke comes, or never,
\* no session is renewed twice and nothing is stored for a deleted user.
THEOREM AccountEnds == SessionsSpec => AccountEndsItsSessions
<1>1. SessionsInit => OffInv
  BY DEF SessionsInit, OffInv, LiveTokens, NoToken, Renewing, Idle
<1>2. OffInv /\ IInv /\ [SessionsNext]_sessionVars => OffInv'
  BY NextOff
<1>3. ASSUME IInv, OffInv, NEW r \in AuthRequests
      PROVE  /\ StoreSignIn(r) \/ StoreRotation(r) => ~user.deleted
             /\ StoreRotation(r) /\ user.status # "ACTIVE" => token[auth[r].token].past # user.off
  <2>1. ASSUME StoreSignIn(r) \/ StoreRotation(r) PROVE ~user.deleted
    <3>1. auth[r].at \in Sharing
      BY <2>1 DEF StoreSignIn, StoreRotation, At, Sharing
    <3> QED
      BY <1>3, <3>1 DEF IInv, RowInv, OffInv
  <2>2. ASSUME StoreRotation(r), user.status # "ACTIVE" PROVE token[auth[r].token].past # user.off
    <3>1. auth[r].at = "rotated" /\ auth[r].at \in Renewing
      BY <2>2 DEF StoreRotation, At, Renewing
    <3>2. auth[r].token \in Tokens /\ pending[auth[r].token] = r
      BY <1>3, <3>1 DEF IInv, RequestsInv, Fits, Refreshing, PendingInv
    <3>3. auth[r].token \in LiveTokens
      BY <1>3, <3>2, NilAssumption DEF IInv, PendingInv, LiveTokens
    <3> QED
      BY <1>3, <2>2, <3>1, <3>3 DEF OffInv
  <2> QED
    BY <2>1, <2>2
<1>4. IInv /\ OffInv => [\A r \in AuthRequests :
        /\ StoreSignIn(r) \/ StoreRotation(r) => ~user.deleted
        /\ StoreRotation(r) /\ user.status # "ACTIVE" => token[auth[r].token].past # user.off]_sessionVars
  BY <1>3
<1> QED
  BY <1>1, <1>2, <1>4, Invariance, PTL DEF SessionsSpec, AccountEndsItsSessions

-----------------------------------------------------------------------------
(* Who waits for whom: a rank that goes down along every wait, but for     *)
(* those of redemptions that stop each other's links.                      *)
Redeeming == {"redeeming", "invalidating", "held", "ending"}

\* A consumed link is held by the redemption that consumed it.
LinkInv ==
    /\ \A l \in Links : redeemer[l] # Nil => auth[redeemer[l]].at \in Redeeming
    /\ \A r \in AuthRequests : auth[r].at \in {"redeeming", "invalidating"} =>
         auth[r].link \in Links /\ redeemer[auth[r].link] = r
    /\ \A r \in AuthRequests : auth[r].at \in {"changing", "setting"} => auth[r].link = Nil

\* What a step of a request may do to the redeemer of a link.
HolderStep(r, l) ==
    \/ redeemer'[l] = redeemer[l] /\ redeemer[l] # r
    \/ redeemer'[l] = r /\ redeemer[l] \in {r, Nil} /\ auth'[r].at \in Redeeming
    \/ redeemer'[l] = Nil /\ redeemer[l] = r

\* And to its own place.
PlaceStep(r) ==
    /\ auth'[r].at \in {"redeeming", "invalidating"} =>
         auth'[r].link \in Links /\ redeemer'[auth'[r].link] = r
    /\ auth'[r].at \in {"changing", "setting"} => auth'[r].link = Nil

(* A step of a request that leaves the links of the others alone.          *)
LEMMA LinksStay ==
    ASSUME IInv, LinkInv, NEW r \in AuthRequests,
           \A p \in AuthRequests \ {r} : auth'[p] = auth[p],
           \A l \in Links : HolderStep(r, l), PlaceStep(r)
    PROVE  LinkInv'
<1>1. \A l \in Links : redeemer[l] \in AuthRequests \cup {Nil}
  BY DEF IInv, SessionsTypeOK
<1>2. ASSUME NEW l \in Links, redeemer'[l] # Nil PROVE auth'[redeemer'[l]].at \in Redeeming
  BY <1>1, <1>2, NilAssumption DEF LinkInv, HolderStep
<1>3. ASSUME NEW p \in AuthRequests, auth'[p].at \in {"redeeming", "invalidating"}
      PROVE  auth'[p].link \in Links /\ redeemer'[auth'[p].link] = p
  <2>1. CASE p = r
    BY <1>3, <2>1 DEF PlaceStep
  <2>2. CASE p # r
    <3>1. auth[p].link \in Links /\ redeemer[auth[p].link] = p /\ auth'[p] = auth[p]
      BY <1>3, <2>2 DEF LinkInv
    <3> QED
      BY <2>2, <3>1, NilAssumption DEF HolderStep
  <2> QED
    BY <2>1, <2>2
<1>4. \A p \in AuthRequests : auth'[p].at \in {"changing", "setting"} => auth'[p].link = Nil
  BY DEF PlaceStep, LinkInv
<1> QED
  BY <1>2, <1>3, <1>4 DEF LinkInv

(* A request without a link of its own goes where it needs none.           *)
LEMMA LinksApart ==
    ASSUME IInv, LinkInv, NEW r \in AuthRequests, auth[r].at \notin Redeeming,
           redeemer' = redeemer, auth'[r].at \notin {"redeeming", "invalidating"},
           auth'[r].at \in {"changing", "setting"} => auth'[r].link = Nil,
           \A p \in AuthRequests \ {r} : auth'[p] = auth[p]
    PROVE  LinkInv'
<1>1. \A l \in Links : HolderStep(r, l)
  BY NilAssumption DEF LinkInv, HolderStep
<1>2. PlaceStep(r)
  BY DEF PlaceStep
<1> QED
  BY <1>1, <1>2, LinksStay

LEMMA StepLinks ==
    ASSUME IInv, LinkInv, NEW r \in AuthRequests, Step(r) PROVE LinkInv'
<1> USE DEF Redeeming
<1>1. auth \in [AuthRequests -> AuthState] /\ redeemer \in [Links -> AuthRequests \cup {Nil}]
  BY DEF IInv, SessionsTypeOK
<1>2. Idle.at = "idle"
  BY DEF Idle
<1>3. CASE \/ ReadCredentials(r) \/ LockForSignIn(r) \/ StoreSignIn(r) \/ FindUser(r)
           \/ LockForRotation(r) \/ Rotate(r) \/ ReadReason(r) \/ StoreRotation(r) \/ FinishRevoke(r)
           \/ BeginChange(r) \/ Deactivate(r)
           \/ \E t \in Tokens : FindToken(r, t)
           \/ \E l \in Links : FindLink(r, l)
  <2>1. redeemer' = redeemer /\ auth[r].at \notin Redeeming
    BY <1>3 DEF ReadCredentials, LockForSignIn, StoreSignIn, FindUser, LockForRotation, Rotate, ReadReason,
                StoreRotation, FinishRevoke, BeginChange, Deactivate, FindToken, FindLink, At
  <2>2. /\ auth'[r].at \notin {"redeeming", "invalidating"}
        /\ auth'[r].at \in {"changing", "setting"} => auth'[r].link = Nil
        /\ \A p \in AuthRequests \ {r} : auth'[p] = auth[p]
    <3>1. CASE ReadCredentials(r)
      BY <1>1, <3>1 DEF ReadCredentials, Idle
    <3>2. CASE LockForSignIn(r) \/ StoreSignIn(r) \/ LockForRotation(r) \/ StoreRotation(r) \/ FinishRevoke(r)
      <4>1. Ends(r) \/ Proceeds(r, "storing") \/ Proceeds(r, "locked")
        BY <3>2 DEF LockForSignIn, StoreSignIn, LockForRotation, StoreRotation, FinishRevoke
      <4>2. auth'[r] = Idle \/ auth'[r].at \in {"storing", "locked"}
        BY <1>1, <1>2, <4>1 DEF Ends, Proceeds, AuthState
      <4>3. \A p \in AuthRequests \ {r} : auth'[p] = auth[p]
        BY <1>1, <4>1 DEF Ends, Proceeds
      <4>4. auth'[r].at \in {"idle", "storing", "locked"}
        BY <1>2, <4>2
      <4> QED
        BY <4>3, <4>4
    <3>3. CASE FindUser(r)
      <4>1. \A p \in AuthRequests \ {r} : auth'[p] = auth[p]
        BY <1>1, <3>3 DEF FindUser, Ends, Proceeds
      <4>2. \/ auth'[r] = Idle
            \/ auth'[r] = [auth[r] EXCEPT !.at = "rotating"]
            \/ auth'[r] = [Idle EXCEPT !.at = "sweeping", !.reason = "account not active"]
        BY <1>1, <3>3 DEF FindUser, Ends, Proceeds
      <4>3. auth'[r].at \in {"idle", "rotating", "sweeping"}
        <5>1. auth[r] \in AuthState
          BY <1>1
        <5>2. [auth[r] EXCEPT !.at = "rotating"].at = "rotating"
          BY <5>1 DEF AuthState
        <5>3. [Idle EXCEPT !.at = "sweeping", !.reason = "account not active"].at = "sweeping"
          BY DEF Idle
        <5> QED
          BY <1>2, <4>2, <5>2, <5>3
      <4> QED
        BY <4>1, <4>3
    <3>4. CASE Rotate(r)
      BY <1>1, <3>4 DEF Rotate, Proceeds, AuthState
    <3>5. CASE ReadReason(r)
      BY <1>1, <1>2, <3>5 DEF ReadReason, Refused, Ends, Idle
    <3>6. CASE BeginChange(r)
      BY <1>1, <3>6 DEF BeginChange, Idle
    <3>7. CASE Deactivate(r)
      BY <1>1, <3>7 DEF Deactivate, Idle
    <3>8. CASE \E t \in Tokens : FindToken(r, t)
      <4>1. PICK t \in Tokens : FindToken(r, t)
        BY <3>8
      <4>2. \/ Ends(r)
            \/ auth' = [auth EXCEPT ![r] = [Idle EXCEPT !.at = "sweeping", !.token = t,
                                                   !.reason = "refresh token reuse"]]
            \/ auth' = [auth EXCEPT ![r] = [Idle EXCEPT !.at = "found", !.token = t,
                                                   !.hash = token[t].hash]]
        BY <4>1 DEF FindToken, Refused
      <4>3. CASE Ends(r)
        BY <1>1, <1>2, <4>3 DEF Ends
      <4>4. CASE ~Ends(r)
        BY <1>1, <4>2, <4>4 DEF Idle
      <4> QED
        BY <4>3, <4>4
    <3>9. CASE \E l \in Links : FindLink(r, l)
      BY <1>1, <3>9 DEF FindLink, Idle
    <3> QED
      BY <1>3, <3>1, <3>2, <3>3, <3>4, <3>5, <3>6, <3>7, <3>8, <3>9
  <2> QED
    BY <2>1, <2>2, LinksApart
<1>4. CASE \E t \in Tokens : SignOut(r, t)
  BY <1>4 DEF SignOut, LinkInv
<1>5. CASE StartRevoke(r)
  <2>1. /\ redeemer' = redeemer /\ \A p \in AuthRequests \ {r} : auth'[p] = auth[p]
        /\ auth'[r].at \in {"ending", "revoking"}
        /\ auth[r].at = "held" => auth'[r].at = "ending"
        /\ auth[r].at \in {"sweeping", "held"}
    BY <1>1, <1>5 DEF StartRevoke, At, AuthState
  <2>2. \A l \in Links : redeemer[l] = r => auth[r].at = "held"
    BY <2>1, NilAssumption DEF LinkInv
  <2>3. (\A l \in Links : HolderStep(r, l)) /\ PlaceStep(r)
    BY <1>1, <2>1, <2>2 DEF HolderStep, PlaceStep
  <2> QED
    BY <2>1, <2>3, LinksStay
<1>6. CASE Consume(r)
  <2> DEFINE l == auth[r].link
  <2>1. auth[r].at = "hashing" /\ l \in Links
    BY <1>6 DEF Consume, At, IInv, RequestsInv, Fits
  <2>2. redeemer[l] \in {r, Nil}
    BY <1>6, <2>1 DEF Consume, At, WaitsOn
  <2>3. \A m \in Links : redeemer[m] # r
    BY <2>1, NilAssumption DEF LinkInv
  <2>4. CASE link[l] = "live"
    <3>1. redeemer' = [redeemer EXCEPT ![l] = r] /\ Proceeds(r, "redeeming")
      BY <1>6, <2>4 DEF Consume
    <3>2. /\ \A p \in AuthRequests \ {r} : auth'[p] = auth[p]
          /\ auth'[r].at = "redeeming" /\ auth'[r].link = l
      BY <1>1, <3>1 DEF Proceeds, AuthState
    <3>3. redeemer'[l] = r /\ \A m \in Links \ {l} : redeemer'[m] = redeemer[m]
      BY <1>1, <2>1, <3>1
    <3> HIDE DEF l
    <3>4. (\A m \in Links : HolderStep(r, m)) /\ PlaceStep(r)
      BY <2>1, <2>2, <2>3, <3>2, <3>3 DEF HolderStep, PlaceStep
    <3> QED
      BY <3>2, <3>4, LinksStay
  <2>5. CASE link[l] # "live"
    <3>1. redeemer' = redeemer /\ Ends(r)
      BY <1>6, <2>5 DEF Consume
    <3>2. auth'[r].at = "idle" /\ \A p \in AuthRequests \ {r} : auth'[p] = auth[p]
      BY <1>1, <1>2, <3>1 DEF Ends
    <3> QED
      BY <2>1, <3>1, <3>2, LinksApart
  <2> QED
    BY <2>4, <2>5
<1>7. CASE TakeRow(r)
  <2>1. auth[r].at \in {"changing", "setting", "redeeming"} /\ redeemer' = redeemer
    BY <1>7 DEF TakeRow, At
  <2>2. \/ Ends(r) /\ auth[r].at = "setting"
        \/ Proceeds(r, AfterTheRow(r))
    BY <1>7 DEF TakeRow
  <2>3. /\ \A p \in AuthRequests \ {r} : auth'[p] = auth[p]
        /\ \/ auth'[r].at = "idle" /\ auth[r].at = "setting"
           \/ auth'[r].at = "held" /\ auth[r].link = Nil
           \/ auth'[r].at = "invalidating" /\ auth'[r].link = auth[r].link /\ auth[r].link # Nil
    BY <1>1, <1>2, <2>2 DEF Ends, Proceeds, AfterTheRow, AuthState
  <2>4. CASE auth[r].at = "redeeming"
    <3>1. auth[r].link \in Links /\ redeemer[auth[r].link] = r
      BY <2>4 DEF LinkInv
    <3>2. auth'[r].at = "invalidating" /\ auth'[r].link = auth[r].link
      BY <2>3, <2>4, <3>1, NilAssumption
    <3>3. (\A l \in Links : HolderStep(r, l)) /\ PlaceStep(r)
      BY <1>1, <2>1, <3>1, <3>2 DEF HolderStep, PlaceStep
    <3> QED
      BY <2>3, <3>3, LinksStay
  <2>5. CASE auth[r].at # "redeeming"
    <3>1. auth[r].link = Nil
      BY <2>1, <2>5 DEF LinkInv
    <3> QED
      BY <2>1, <2>3, <2>5, <3>1, LinksApart
  <2> QED
    BY <2>4, <2>5
<1>8. CASE Invalidate(r)
  <2>1. /\ auth[r].at = "invalidating"
        /\ \A l \in LiveLinks : redeemer[l] \in {r, Nil}
    BY <1>8 DEF Invalidate, At, WaitsOn
  <2>2. /\ auth'[r].at = "held" /\ \A p \in AuthRequests \ {r} : auth'[p] = auth[p]
    BY <1>1, <1>8 DEF Invalidate, Proceeds, AuthState
  <2>3. \A l \in Links : redeemer'[l] = IF l \in LiveLinks THEN r ELSE redeemer[l]
    BY <1>8 DEF Invalidate
  <2>4. (\A l \in Links : HolderStep(r, l)) /\ PlaceStep(r)
    <3>1. ASSUME NEW l \in Links, l \in LiveLinks PROVE HolderStep(r, l)
      BY <2>1, <2>2, <2>3, <3>1 DEF HolderStep
    <3>2. ASSUME NEW l \in Links, l \notin LiveLinks PROVE HolderStep(r, l)
      BY <2>2, <2>3, <3>2 DEF HolderStep
    <3> QED
      BY <2>2, <3>1, <3>2 DEF PlaceStep
  <2> QED
    BY <2>2, <2>4, LinksStay
<1>9. CASE CommitPassword(r) \/ Abort(r)
  <2>1. \A l \in Links : redeemer'[l] = IF redeemer[l] = r THEN Nil ELSE redeemer[l]
    BY <1>9 DEF CommitPassword, Abort
  <2>2. auth'[r].at = "idle" /\ \A p \in AuthRequests \ {r} : auth'[p] = auth[p]
    BY <1>1, <1>2, <1>9 DEF CommitPassword, Abort, Ends
  <2>3. (\A l \in Links : HolderStep(r, l)) /\ PlaceStep(r)
    BY <2>1, <2>2 DEF HolderStep, PlaceStep
  <2> QED
    BY <2>2, <2>3, LinksStay
<1> QED
  BY <1>3, <1>4, <1>5, <1>6, <1>7, <1>8, <1>9 DEF Step

LEMMA NextLinks == ASSUME IInv, LinkInv, [SessionsNext]_sessionVars PROVE LinkInv'
<1>1. CASE \E r \in AuthRequests : Step(r)
  BY <1>1, StepLinks
<1>2. CASE Activate \/ \E l \in Links : SendLink(l) \/ LinkExpires(l)
  BY <1>2 DEF Activate, SendLink, LinkExpires, LinkInv
<1>3. CASE UNCHANGED sessionVars
  BY <1>3 DEF sessionVars, LinkInv
<1> QED
  BY <1>1, <1>2, <1>3 DEF SessionsNext

\* The order of the locks, as far as it goes: a request waits only for those of
\* a lower rank, unless it stops links and another one is about to.
Rank(r) ==
    CASE auth[r].at = "hashing" -> 4
      [] auth[r].at \in {"verified", "rotating", "changing", "setting", "redeeming"} -> 3
      [] auth[r].at = "invalidating" -> 2
      [] auth[r].at \in {"locked", "revoking", "ending"} -> 1
      [] OTHER -> 0

(* A request waits only for those of a lower rank, but for redemptions.    *)
LEMMA WaitsGoDown ==
    ASSUME IInv, LinkInv, NEW r \in AuthRequests, NEW p \in WaitsOn(r) \cap AuthRequests,
           auth[r].at = "invalidating" => auth[p].at \notin {"redeeming", "invalidating"}
    PROVE  Rank(p) < Rank(r)
<1>0. p # r /\ p # Nil
  BY DEF WaitsOn
<1>1. \A t \in Tokens : pending[t] = p => auth[p].at = "rotated"
  BY <1>0 DEF IInv, PendingInv
<1>2. p \in share => auth[p].at \in Sharing
  BY DEF IInv, RowInv
<1>3. excl = p => auth[p].at \in Writing
  BY <1>0 DEF IInv, RowInv
<1>4. \A l \in Links : redeemer[l] = p => auth[p].at \in Redeeming
  BY <1>0 DEF LinkInv
<1>5. CASE auth[r].at = "locked"
  <2>1. p = pending[auth[r].token] /\ auth[r].token \in Tokens
    BY <1>5 DEF WaitsOn, IInv, RequestsInv, Fits, Refreshing
  <2> QED
    BY <1>1, <1>5, <2>1 DEF Rank
<1>6. CASE auth[r].at \in {"revoking", "ending"}
  <2>1. \E t \in Tokens : pending[t] = p
    BY <1>6 DEF WaitsOn, LiveTokens
  <2> QED
    BY <1>1, <1>6, <2>1 DEF Rank
<1>7. CASE auth[r].at = "hashing"
  <2>1. p = redeemer[auth[r].link] /\ auth[r].link \in Links
    BY <1>7 DEF WaitsOn, IInv, RequestsInv, Fits
  <2> QED
    BY <1>4, <1>7, <2>1 DEF Rank, Redeeming
<1>8. CASE auth[r].at = "invalidating"
  <2>1. PICK l \in Links : p = redeemer[l]
    BY <1>8 DEF WaitsOn, LiveLinks
  <2>2. auth[p].at \in {"held", "ending"}
    BY <1>4, <1>8, <2>1 DEF Redeeming
  <2>3. Rank(p) \in {0, 1} /\ Rank(r) = 2
    BY <1>8, <2>2 DEF Rank
  <2> QED
    BY <2>3
<1>9. CASE auth[r].at \in {"verified", "rotating", "changing", "setting", "redeeming"}
  <2>1. p \in share \/ p = excl
    BY <1>9 DEF WaitsOn, RowConflicts
  <2>2. Rank(r) = 3
    BY <1>9 DEF Rank
  <2>3. auth[p].at \in {"storing", "locked", "rotated", "invalidating", "held", "ending"}
    BY <1>2, <1>3, <2>1 DEF Sharing, Writing
  <2>4. Rank(p) \in {0, 1, 2}
    BY <2>3 DEF Rank
  <2> QED
    BY <2>2, <2>4
<1>10. CASE auth[r].at \notin {"locked", "revoking", "ending", "hashing", "invalidating",
                                  "verified", "rotating", "changing", "setting", "redeeming"}
  BY <1>10 DEF WaitsOn, RowConflicts
<1> QED
  BY <1>5, <1>6, <1>7, <1>8, <1>9, <1>10

\* The locks of ADR-0048: sign-ins, rotations, sweeps and password writes lock
\* the user's row, tokens and a reset link in orders that agree, so that a
\* circle, if there is one, is of redemptions that stop each other's links.
THEOREM CirclesAreOfRedemptions == SessionsSpec => []OnlyRedemptionsMeet
<1>1. SessionsInit => LinkInv
  BY DEF SessionsInit, LinkInv, Idle
<1>2. LinkInv /\ IInv /\ [SessionsNext]_sessionVars => LinkInv'
  BY NextLinks
<1>3. IInv /\ LinkInv => OnlyRedemptionsMeet
  <2> SUFFICES ASSUME IInv, LinkInv, NEW S \in (SUBSET AuthRequests) \ {{}},
                      \A r \in S : auth[r].at = "invalidating" =>
                          \A p \in WaitsOn(r) \cap S :
                              auth[p].at \notin {"redeeming", "invalidating"}
               PROVE  \E r \in S : WaitsOn(r) \cap S = {}
    BY DEF OnlyRedemptionsMeet
  <2>1. \A r \in S : Rank(r) \in {0, 1, 2, 3, 4}
    BY DEF Rank
  <2>2. \A r \in S : \A p \in WaitsOn(r) \cap S : Rank(p) < Rank(r)
    BY WaitsGoDown
  <2>3. CASE \E r \in S : Rank(r) = 0
    BY <2>1, <2>2, <2>3
  <2>4. CASE (\A r \in S : Rank(r) > 0) /\ \E r \in S : Rank(r) = 1
    BY <2>1, <2>2, <2>4
  <2>5. CASE (\A r \in S : Rank(r) > 1) /\ \E r \in S : Rank(r) = 2
    BY <2>1, <2>2, <2>5
  <2>6. CASE (\A r \in S : Rank(r) > 2) /\ \E r \in S : Rank(r) = 3
    BY <2>1, <2>2, <2>6
  <2>7. CASE \A r \in S : Rank(r) > 3
    <3>1. PICK r \in S : TRUE
      OBVIOUS
    <3>2. WaitsOn(r) \cap S = {}
      BY <2>1, <2>2, <2>7
    <3> QED
      BY <3>1, <3>2
  <2> QED
    BY <2>1, <2>3, <2>4, <2>5, <2>6, <2>7
<1> QED
  BY <1>1, <1>2, <1>3, Invariance, PTL DEF SessionsSpec
=============================================================================
