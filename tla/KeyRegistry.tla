----------------------------- MODULE KeyRegistry -----------------------------
(***************************************************************************)
(* The key registry file of ultraballoondb-trust-auth, read as a sequence  *)
(* of events.  A fingerprint is the digest of a secret: one stands for the *)
(* other.  Identifiers, nonces and subjects are model values; a subject    *)
(* digest is determined by the fields it is computed from, a signature by  *)
(* the secret.  The link to the previous frame's digest adds nothing to    *)
(* the sequence number while nobody edits the file, and is left out.       *)
(***************************************************************************)
EXTENDS Naturals, Sequences, FiniteSets

CONSTANTS KeyId, Secret, Nonce, MaxTime

Role == {"KEY_ADMIN", "POLICY_ADMIN", "TRUST_OPERATOR", "AUDITOR"}

\* validate_role_mask: no empty mask, no unknown bit.
RoleMask == SUBSET Role \ {{}}

KeyEventKind == {"BOOTSTRAP", "REGISTER", "ROTATE", "REVOKE"}

Time == 1..MaxTime

\* What decode_key_payload hands to replay.  old is the fingerprint a rotation
\* names in its subject, the target's own otherwise.
KeyEvent ==
    [seq : Nat \ {0}, kind : KeyEventKind, target : KeyId, fp : Secret,
     old : Secret, roles : SUBSET Role, signer : KeyId, signerFp : Secret,
     time : Time, nonce : Nonce]

-----------------------------------------------------------------------------
(* What every append-only file of these crates has in common. *)

\* decode_frames: whole frames, numbered from 1.
Numbered(file) == \A i \in 1..Len(file) : file[i].seq = i

LastTime(file) == IF file = <<>> THEN 0 ELSE file[Len(file)].time

NonceUsed(file, actor, nonce) ==
    \E i \in 1..Len(file) : file[i].signer = actor /\ file[i].nonce = nonce

-----------------------------------------------------------------------------
(* The state the events of ks leave each key in. *)

About(ks, k) == {i \in 1..Len(ks) : ks[i].target = k}

Known(ks, k) == About(ks, k) # {}

\* The last event that gave k a fingerprint.
Holding(ks, k) ==
    CHOOSE i \in About(ks, k) :
        /\ ks[i].kind # "REVOKE"
        /\ \A j \in About(ks, k) : j > i => ks[j].kind = "REVOKE"

KeyState(ks, k) ==
    [fp     |-> ks[Holding(ks, k)].fp,
     roles  |-> ks[Holding(ks, k)].roles,
     active |-> \A i \in About(ks, k) : ks[i].kind # "REVOKE"]

Active(ks, k) == Known(ks, k) /\ KeyState(ks, k).active

HasRole(ks, k, r) == Active(ks, k) /\ r \in KeyState(ks, k).roles

\* Mutant: a revoked administrator is counted too.
OtherAdminEver(ks, k) ==
    \E o \in KeyId \ {k} :
        Known(ks, o) /\ "KEY_ADMIN" \in KeyState(ks, o).roles

OtherAdmin(ks, k) == \E o \in KeyId \ {k} : HasRole(ks, o, "KEY_ADMIN")

VerifySecretRole(ks, k, secret, r) ==
    HasRole(ks, k, r) /\ KeyState(ks, k).fp = secret

-----------------------------------------------------------------------------
(* validate_key_event, for the writer and for replay. *)

SignedByAdmin(ks, e) ==
    HasRole(ks, e.signer, "KEY_ADMIN") /\ KeyState(ks, e.signer).fp = e.signerFp

ValidBootstrap(ks, e) ==
    /\ ks = <<>>
    /\ e.signer = e.target /\ e.signerFp = e.fp
    /\ e.roles \in RoleMask
    /\ "KEY_ADMIN" \in e.roles

ValidRegister(ks, e) ==
    /\ ~Known(ks, e.target)
    /\ e.roles \in RoleMask
    /\ SignedByAdmin(ks, e)

ValidRotate(ks, e) ==
    /\ SignedByAdmin(ks, e)
    /\ Active(ks, e.target)
    /\ KeyState(ks, e.target).roles = e.roles
    /\ KeyState(ks, e.target).fp = e.old
    /\ e.fp # e.old

ValidRevoke(ks, e) ==
    /\ SignedByAdmin(ks, e)
    /\ Active(ks, e.target)
    /\ KeyState(ks, e.target).fp = e.fp
    /\ HasRole(ks, e.target, "KEY_ADMIN") => OtherAdmin(ks, e.target)

ValidKeyEvent(ks, e) ==
    /\ e.time > LastTime(ks)
    /\ ~NonceUsed(ks, e.signer, e.nonce)
    /\ CASE e.kind = "BOOTSTRAP" -> ValidBootstrap(ks, e)
         [] e.kind = "REGISTER"  -> ValidRegister(ks, e)
         [] e.kind = "ROTATE"    -> ValidRotate(ks, e)
         [] e.kind = "REVOKE"    -> ValidRevoke(ks, e)

\* KeyRegistry::replay; signatures are not verified, no secret is at hand.
KeysReplay(file) ==
    /\ Numbered(file)
    /\ \A i \in 1..Len(file) : ValidKeyEvent(SubSeq(file, 1, i - 1), file[i])

-----------------------------------------------------------------------------
(* The writers: the event a job would append to ks, if it is not refused.   *)
(* A job names key, roles, secret, signer, with (the signer's secret),      *)
(* time and nonce as its command needs them.                                *)

Signed(ks, j, kind, fp, old, roles) ==
    [seq |-> Len(ks) + 1, kind |-> kind, target |-> j.key, fp |-> fp,
     old |-> old, roles |-> roles, signer |-> j.signer, signerFp |-> j.with,
     time |-> j.time, nonce |-> j.nonce]

Bootstrap(ks, j) ==
    IF ks = <<>> /\ "KEY_ADMIN" \in j.roles
    THEN {[seq |-> 1, kind |-> "BOOTSTRAP", target |-> j.key,
           fp |-> j.secret, old |-> j.secret, roles |-> j.roles,
           signer |-> j.key, signerFp |-> j.secret, time |-> j.time,
           nonce |-> j.nonce]}
    ELSE {}

RegisterKey(ks, j) ==
    IF /\ ~Known(ks, j.key)
       /\ VerifySecretRole(ks, j.signer, j.with, "KEY_ADMIN")
    THEN {Signed(ks, j, "REGISTER", j.secret, j.secret, j.roles)}
    ELSE {}

RotateKey(ks, j) ==
    IF /\ Active(ks, j.key)
       /\ VerifySecretRole(ks, j.signer, j.with, "KEY_ADMIN")
       /\ j.secret # KeyState(ks, j.key).fp
    THEN {Signed(ks, j, "ROTATE", j.secret, KeyState(ks, j.key).fp,
                 KeyState(ks, j.key).roles)}
    ELSE {}

RevokeKey(ks, j) ==
    IF /\ Active(ks, j.key)
       /\ VerifySecretRole(ks, j.signer, j.with, "KEY_ADMIN")
       /\ HasRole(ks, j.key, "KEY_ADMIN") => OtherAdmin(ks, j.key)
    THEN {Signed(ks, j, "REVOKE", KeyState(ks, j.key).fp,
                 KeyState(ks, j.key).fp, {})}
    ELSE {}

\* KeyRegistry::append: the event a command writes, checked once more.
KeyAppends(ks, j) ==
    {e \in CASE j.cmd = "key-bootstrap" -> Bootstrap(ks, j)
             [] j.cmd = "key-register"  -> RegisterKey(ks, j)
             [] j.cmd = "key-rotate"    -> RotateKey(ks, j)
             [] j.cmd = "key-revoke"    -> RevokeKey(ks, j) :
        ValidKeyEvent(ks, e)}
=============================================================================
