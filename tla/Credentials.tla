----------------------------- MODULE Credentials -----------------------------
(***************************************************************************)
(* zk-KYC credentials on top of the compliance records: issue_credential   *)
(* (core/features/zkp/issuer.py), verify_proof (verifier.py), revocation   *)
(* (router.py, the gRPC servicer) and the erasure of an account            *)
(* (core/features/auth/router.py).                                         *)
(*                                                                         *)
(* A credential is a row; its claim is fixed when it is signed.  A public  *)
(* key is the text a client sent (its coordinates in hexadecimal), and     *)
(* several texts denote one point of the curve: tables and claims hold the *)
(* text, and only the proof is about the point.  Proofs are well formed:   *)
(* what a malformed proof meets has no effect.                             *)
(***************************************************************************)
EXTENDS Compliance

CONSTANTS
  Keys, Points, PointOf,  \* texts of keys, and the point each denotes
  Nullifiers,
  Holders,      \* requests to the zkp router
  Purposes,     \* what proofs are made for
  MaxCreds      \* bound on the credentials issued

AllPurposes == {"asset_transfer", "asset_create", "kyc_gate", "compliance_check"}
ASSUME CredAssumption ==
  /\ MaxCreds \in Nat /\ Purposes \subseteq AllPurposes
  /\ None \notin Keys \cup Nullifiers \cup Points /\ PointOf \in [Keys -> Points]

VARIABLES
  creds,     \* zkp_credentials, the newest last
  used,      \* zkp_nullifiers
  zreq,      \* per request: [pc, u, key, cred, null, purpose, claim, dead]
  accepted   \* history: proofs accepted per nullifier

zkVars == <<creds, used, zreq, accepted>>
vars == <<compVars, zkVars>>

(* _PURPOSE_CLAIMS.                                                        *)
Satisfies(claim, purpose) ==
  /\ purpose \in {"asset_transfer", "asset_create"} =>
       claim.age_ok /\ claim.kyc_ok /\ claim.not_sanctioned
  /\ purpose = "asset_transfer" => claim.level >= 2
  /\ purpose = "asset_create" => claim.level >= 3
  /\ purpose = "kyc_gate" => claim.kyc_ok
  /\ purpose = "compliance_check" => claim.not_sanctioned

Claims == [age_ok : BOOLEAN, kyc_ok : BOOLEAN, not_sanctioned : BOOLEAN, level : 0..5]
NoClaim == [age_ok |-> FALSE, kyc_ok |-> FALSE, not_sanctioned |-> FALSE, level |-> 0]
ZIdle == [pc |-> "idle", u |-> None, key |-> None, cred |-> 0, null |-> None,
          purpose |-> None, claim |-> NoClaim, dead |-> FALSE]
ZDone == {"issued", "accepted", "rejected", "error"}

Init ==
  /\ CompInit
  /\ creds = <<>> /\ used = {}
  /\ zreq = [q \in Holders |-> ZIdle] /\ accepted = [n \in Nullifiers |-> 0]

(* Of a request that has its answer only acceptance is remembered.         *)
ZGoto(q, pc) ==
  zreq' = [zreq EXCEPT ![q] = IF pc \in ZDone \ {"accepted"} THEN ZIdle
                              ELSE [@ EXCEPT !.pc = pc]]

-----------------------------------------------------------------------------
BeginSetup(q, u, key) ==
  /\ zreq[q].pc \in ZDone \cup {"idle"}
  /\ zreq' = [zreq EXCEPT ![q] = [ZIdle EXCEPT !.pc = "existing", !.u = u, !.key = key]]
  /\ UNCHANGED <<compVars, creds, used, accepted>>

(* issue_credential returns the newest live credential of the key.         *)
SelectExisting(q) ==
  LET mine == {c \in DOMAIN creds : /\ creds[c].u = zreq[q].u
                                    /\ creds[c].key = zreq[q].key
                                    /\ ~creds[c].revoked}
  IN /\ zreq[q].pc = "existing"
     /\ ZGoto(q, IF mine # {} /\ creds[Max(mine)].live THEN "issued" ELSE "eligible")
     /\ UNCHANGED <<compVars, creds, used, accepted>>

ClaimOr(q, otherwise) ==
  /\ zreq[q].pc = "eligible"
  /\ LET u == zreq[q].u
     IN  zreq' = [zreq EXCEPT ![q].pc = "insert", ![q].claim =
           IF recs[u] = <<>> THEN otherwise
           ELSE [age_ok |-> Newest(u).level >= 2,
                 kyc_ok |-> Newest(u).status = "APPROUVE" /\ Newest(u).live,
                 not_sanctioned |-> TRUE, level |-> Newest(u).level]]
  /\ UNCHANGED <<compVars, creds, used, accepted>>

CheckEligibilityMutant(q) == ClaimOr(q, None)

(* _check_eligibility; sanctions_hit is a column no code of core writes.   *)
CheckEligibility(q) == ClaimOr(q, NoClaim)

(* uix_zkp_credentials_user_pubkey of db/sql, which the ORM does not have. *)
KeyTaken(u, key) == \E c \in DOMAIN creds : creds[c].u = u /\ creds[c].key = key

InsertCredential(q) ==
  /\ zreq[q].pc = "insert"
  /\ IF SqlSchema /\ KeyTaken(zreq[q].u, zreq[q].key)
     THEN ZGoto(q, "error") /\ UNCHANGED creds
     ELSE /\ Len(creds) < MaxCreds
          /\ creds' = Append(creds,
               [u |-> zreq[q].u, key |-> zreq[q].key, claim |-> zreq[q].claim,
                live |-> TRUE, revoked |-> FALSE])
          /\ ZGoto(q, "issued")
  /\ UNCHANGED <<compVars, used, accepted>>

-----------------------------------------------------------------------------
RevokedAmong(key, rows) == \E c \in rows : creds[c].key = key /\ creds[c].revoked

BeginVerify(q, c, n, purpose) ==
  /\ zreq[q].pc \in ZDone \cup {"idle"}
  /\ zreq' = [zreq EXCEPT ![q] = [ZIdle EXCEPT
       !.pc = "credential", !.cred = c, !.null = n, !.purpose = purpose,
       !.dead = RevokedAmong(creds[c].key, DOMAIN creds)]]
  /\ UNCHANGED <<compVars, creds, used, accepted>>

RefusedIfRevoked(q, rows) ==
  /\ zreq[q].pc = "credential"
  /\ LET cred == creds[zreq[q].cred]
     IN  ZGoto(q, IF ~cred.live \/ RevokedAmong(cred.key, rows) THEN "rejected" ELSE "proof")
  /\ UNCHANGED <<compVars, creds, used, accepted>>

VerifyCredentialMutant(q) == RefusedIfRevoked(q, {zreq[q].cred})

(* Signature and expiry, then any revoked row with the same text as key.   *)
VerifyCredential(q) == RefusedIfRevoked(q, DOMAIN creds)

(* What the purpose asks of the claim; the proof, which some prover made   *)
(* with the secret of one point, for the point that point_from_hex makes   *)
(* of the text; then the nullifier.                                        *)
VerifyProof(q, prover) ==
  /\ zreq[q].pc = "proof"
  /\ ZGoto(q, IF /\ Satisfies(creds[zreq[q].cred].claim, zreq[q].purpose)
                /\ PointOf[creds[zreq[q].cred].key] = prover
                /\ zreq[q].null \notin used
             THEN "persist" ELSE "rejected")
  /\ UNCHANGED <<compVars, creds, used, accepted>>

PersistUnless(q, taken) ==
  LET n == zreq[q].null
  IN /\ zreq[q].pc = "persist"
     /\ IF taken THEN ZGoto(q, "error") /\ UNCHANGED <<used, accepted>>
        ELSE /\ used' = used \cup {n}
             /\ accepted' = [accepted EXCEPT ![n] = @ + 1]
             /\ ZGoto(q, "accepted")
     /\ UNCHANGED <<compVars, creds>>

PersistNullifierMutant(q) == PersistUnless(q, FALSE)

(* nullifier_hex is unique: the commit of the second of two proofs fails.  *)
PersistNullifier(q) == PersistUnless(q, zreq[q].null \in used)

ZDbFails(q) ==
  /\ zreq[q].pc \notin ZDone \cup {"idle"}
  /\ ZGoto(q, "error")
  /\ UNCHANGED <<compVars, creds, used, accepted>>

-----------------------------------------------------------------------------
(* revoke_credential, by the owner or an officer.                          *)
Revoke(c) ==
  /\ ~creds[c].revoked
  /\ creds' = [creds EXCEPT ![c].revoked = TRUE]
  /\ UNCHANGED <<compVars, used, zreq, accepted>>

(* DELETE /auth/me revokes every credential of the user.                   *)
Erase(u) ==
  /\ \E c \in DOMAIN creds : creds[c].u = u /\ ~creds[c].revoked
  /\ creds' = [c \in DOMAIN creds |->
       IF creds[c].u = u THEN [creds[c] EXCEPT !.revoked = TRUE] ELSE creds[c]]
  /\ UNCHANGED <<compVars, used, zreq, accepted>>

ExpireCredential(c) ==
  /\ creds[c].live
  /\ creds' = [creds EXCEPT ![c].live = FALSE]
  /\ UNCHANGED <<compVars, used, zreq, accepted>>

RestartAll ==
  /\ Restart /\ zreq' = [q \in Holders |-> ZIdle]
  /\ UNCHANGED <<creds, used, accepted>>

HolderStep(q) ==
  \/ SelectExisting(q) \/ CheckEligibility(q) \/ InsertCredential(q)
  \/ VerifyCredential(q) \/ PersistNullifier(q) \/ ZDbFails(q)
  \/ \E prover \in Points : VerifyProof(q, prover)

Next ==
  \/ Serving /\ UNCHANGED zkVars
  \/ RestartAll
  \/ \E q \in Holders :
       \/ HolderStep(q)
       \/ \E u \in Users, key \in Keys : BeginSetup(q, u, key)
       \/ \E c \in DOMAIN creds, n \in Nullifiers, purpose \in Purposes :
            BeginVerify(q, c, n, purpose)
  \/ \E c \in DOMAIN creds : Revoke(c) \/ ExpireCredential(c)
  \/ \E u \in Users : Erase(u)

Spec == Init /\ [][Next]_vars

-----------------------------------------------------------------------------
(* Type correctness; a claim is always the claim of some record or none.   *)
TypeOK ==
  /\ CompTypeOK
  /\ Len(creds) <= MaxCreds /\ used \subseteq Nullifiers
  /\ \A q \in Holders : /\ zreq[q].cred \in 0..Len(creds)
                         /\ zreq[q].claim \in Claims
  /\ accepted \in [Nullifiers -> Nat]

(* No nullifier is accepted twice, though two verifications may both find  *)
(* it unused before either stores it.                                      *)
NullifierOnce == \A n \in Nullifiers : accepted[n] <= 1

(* A proof is accepted only if no credential with the same text as key was *)
(* revoked, by the owner, an officer or an erasure, before the             *)
(* verification began - not even with a credential issued for that text    *)
(* since - and, for asset_create, only for a user whom an officer once     *)
(* granted level 3, whatever happened to the record meanwhile.  (Another   *)
(* text for the same point is another key to the revocation: a credential  *)
(* issued for it counts as never revoked.)                                 *)
AcceptanceIsEarned ==
  \A q \in Holders : zreq[q].pc = "accepted" =>
    /\ ~zreq[q].dead
    /\ zreq[q].purpose = "asset_create" =>
         granted[creds[zreq[q].cred].u] >= REQUIRED_LEVEL
=============================================================================
