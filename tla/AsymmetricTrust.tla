-------------------------- MODULE AsymmetricTrust ---------------------------
(***************************************************************************)
(* The key registry and the authorization ledger of                        *)
(* ultraballoondb-trust-asymmetric, over the signing provider that holds   *)
(* the private keys.  A key command creates a provider key, signs with it  *)
(* and appends to the registry; an authorization is signed over the        *)
(* registry head its process read when it started, while key commands go   *)
(* on.  Each file has one writer at a time and nothing locks the others    *)
(* out: key-delete-provider writes no file, and falls between any two      *)
(* steps of the rest.                                                      *)
(*                                                                         *)
(* A public key is the number of its creation.  A registry head is a       *)
(* length: the digest chain makes the head identify the prefix.  What a    *)
(* caller passes as timestamp and nonce is kept as one flag, whether the   *)
(* append will find them fresh.                                            *)
(***************************************************************************)
EXTENDS Integers, Sequences, FiniteSetsExt, Functions

CONSTANTS
    KeyId,          \* key ids
    Name,           \* provider key names
    Hardware,       \* the names that live in a hardware provider
    Grants,         \* role masks a key may be enrolled with
    Lines,          \* what may be authorized: domain, role, subject and key
    Starts,         \* initial roots
    MaxRegistry,    \* bound: frames of the key registry
    MaxAuths,       \* bound: frames of the authorization ledger
    MaxPublic,      \* bound: provider keys ever created
    MaxDeletes,     \* bound: key-delete-provider processes at once
    MaxFaults       \* bound: kills

VARIABLES
    provider,  \* [Name -> public key, or 0 where the provider has no such key]
    created,   \* public keys created so far
    reg,       \* key registry
    auths,     \* authorization ledger
    keycmd,    \* key command between its provider key and its append
    deleting,  \* key-delete-provider processes that have read the registry
    lost,      \* history: provider keys deleted, each with the head read for it
    signer,    \* registry length the signing process read, or Closed
    torn,      \* files that end in part of a frame
    faults

kvars == <<provider, created, reg, auths, keycmd, deleting, lost, signer, torn, faults>>

Closed == -1
Idle == [kind |-> "NONE"]
Requirement == {"SOFTWARE", "HARDWARE"}

\* What a registry frame and an authorization frame decode to.
KeyEvents ==
    [kind : {"ENROLL", "ROTATE", "REVOKE"}, key : KeyId, name : Name, pub : Nat,
     roles : Grants, gen : Nat]

IsAuthorization(a) ==
    /\ a.role \in UNION Grants /\ a.key \in KeyId
    /\ a.head \in Nat /\ a.pub \in Nat

\* decode_frames of each file: a frame that is cut short is refused.
RegistryWhole == "registry" \notin torn
AuthsWhole == "auths" \notin torn

\* ProviderCapabilities::satisfies, enforce_provider_requirement.  The provider of
\* a hardware name is available; an unavailable one has no names.
ProviderAdmits(n, require) == require = "HARDWARE" => n \in Hardware

-----------------------------------------------------------------------------
(* The registry: a fold of its events, and the checks replay makes. *)

About(r, k) == {i \in 1..Len(r) : r[i].key = k}

LastAbout(r, k) == r[Max(About(r, k))]

\* apply_event: enrolment and rotation set the key, revocation ends it.
KeyState(r, k) ==
    LET e == LastAbout(r, k)
    IN  [active |-> e.kind # "REVOKE", name |-> e.name, pub |-> e.pub,
         roles |-> e.roles, gen |-> e.gen]

\* AsymmetricKeyRegistry::state_at_head
StateAtHead(r, head, k) == KeyState(SubSeq(r, 1, head), k)

Known(r, k) == About(r, k) # {}

\* AsymmetricKeyState::has_role
HasRole(r, k, role) ==
    Known(r, k) /\ KeyState(r, k).active /\ role \in KeyState(r, k).roles

\* A reader that forgets to go back to the head an event was signed under.
HasRoleNow(r, head, k, role) == HasRole(r, k, role)

HasRoleAtHead(r, head, k, role) == HasRole(SubSeq(r, 1, head), k, role)

\* validate_event
ValidKeyEvent(r, e) ==
    /\ e.roles # {}
    /\ e.kind = "ENROLL" => ~Known(r, e.key) /\ e.gen = 1
    /\ e.kind = "ROTATE" =>
        /\ Known(r, e.key) /\ KeyState(r, e.key).active
        /\ e.roles = KeyState(r, e.key).roles
        /\ e.gen = KeyState(r, e.key).gen + 1
        /\ e.pub # KeyState(r, e.key).pub
    /\ e.kind = "REVOKE" =>
        /\ Known(r, e.key) /\ KeyState(r, e.key).active
        /\ e.roles = KeyState(r, e.key).roles
        /\ e.gen = KeyState(r, e.key).gen
        /\ e.name = KeyState(r, e.key).name
        /\ e.pub = KeyState(r, e.key).pub

RegistryReplays(r) ==
    \A i \in 1..Len(r) : r[i] \in KeyEvents /\ ValidKeyEvent(SubSeq(r, 1, i - 1), r[i])

\* verify_event of the authorization ledger: the signer is judged by the
\* registry head the authorization names, never by a later one.
VerifyAuthorization(r, a) ==
    /\ a.head \in 1..Len(r)
    /\ HasRoleAtHead(r, a.head, a.key, a.role)
    /\ StateAtHead(r, a.head, a.key).pub = a.pub

AuthsReplay(r, as) ==
    \A i \in 1..Len(as) : IsAuthorization(as[i]) /\ VerifyAuthorization(r, as[i])

\* Every active key is in the provider under its name.
KeysUsable(r, p) ==
    \A k \in KeyId :
        Known(r, k) /\ KeyState(r, k).active =>
            /\ KeyState(r, k).pub # 0
            /\ p[KeyState(r, k).name] = KeyState(r, k).pub

-----------------------------------------------------------------------------
(* Key commands. *)

\* export_public_blob, sign_digest, verify_digest: the provider signs with what it
\* holds under the name, and that verifies against one public key.
SignsFor(n, pub) == provider[n] = pub

\* delete_persisted_key, provider_key_exists
WithoutKey(n) == [provider EXCEPT ![n] = 0]

RegistryOpens == RegistryWhole /\ RegistryReplays(reg)

\* create_persisted_key: a name the provider already has is refused.
CreateKey(n, cmd) ==
    /\ provider[n] = 0
    /\ created < MaxPublic
    /\ created' = created + 1
    /\ provider' = [provider EXCEPT ![n] = created + 1]
    /\ keycmd' = cmd

\* enroll_new_provider_key, up to the provider key
Enroll(k, n, roles, fresh) ==
    /\ keycmd = Idle /\ Len(reg) < MaxRegistry
    /\ ~Known(reg, k) /\ roles # {} /\ RegistryOpens
    /\ CreateKey(n, [kind |-> "ENROLL", key |-> k, name |-> n,
                     pub |-> created + 1, roles |-> roles, gen |-> 1,
                     fresh |-> fresh, at |-> "created"])
    /\ UNCHANGED <<reg, auths, deleting, lost, signer, torn, faults>>

\* rotate_to_new_provider_key, up to the provider key
Rotate(k, old, n, fresh) ==
    /\ keycmd = Idle /\ Len(reg) < MaxRegistry
    /\ Known(reg, k) /\ KeyState(reg, k).active
    /\ KeyState(reg, k).name = old /\ RegistryOpens
    /\ LET s == KeyState(reg, k) IN
        CreateKey(n, [kind |-> "ROTATE", key |-> k, name |-> n,
                      pub |-> created + 1, roles |-> s.roles, gen |-> s.gen + 1,
                      fresh |-> fresh, at |-> "created"])
    /\ UNCHANGED <<reg, auths, deleting, lost, signer, torn, faults>>

\* The same through a SigningProvider, which must first meet a requirement.
EnrollWithProvider(k, n, roles, require, fresh) ==
    ProviderAdmits(n, require) /\ Enroll(k, n, roles, fresh)

RotateWithProviders(k, old, n, require, fresh) ==
    ProviderAdmits(n, require) /\ Rotate(k, old, n, fresh)

\* The commands work on the software provider.
KeyCreate(k, n, roles, fresh) == n \notin Hardware /\ Enroll(k, n, roles, fresh)

KeyRotate(k, old, n, fresh) ==
    {old, n} \cap Hardware = {} /\ Rotate(k, old, n, fresh)

Signed(cmd) ==
    [kind |-> cmd.kind, key |-> cmd.key, name |-> cmd.name, pub |-> cmd.pub,
     roles |-> cmd.roles, gen |-> cmd.gen, fresh |-> cmd.fresh, at |-> "signed"]

\* sign_digest and verify_digest: the new key signs its event, and for a rotation
\* the old one too.  A key that the provider no longer has fails the command.
SignKeyEvent ==
    /\ keycmd # Idle /\ keycmd.at = "created"
    /\ LET s == KeyState(reg, keycmd.key)
       IN  keycmd' = IF /\ SignsFor(keycmd.name, keycmd.pub)
                        /\ keycmd.kind = "ROTATE" => SignsFor(s.name, s.pub)
                     THEN Signed(keycmd) ELSE Idle
    /\ UNCHANGED <<provider, created, reg, auths, deleting, lost, signer, torn, faults>>

\* append: refused when the timestamp or the nonce is not fresh, and the
\* provider key stays behind.
AppendKeyEvent ==
    /\ keycmd # Idle /\ keycmd.at = "signed"
    /\ LET e == [kind |-> keycmd.kind, key |-> keycmd.key, name |-> keycmd.name,
                 pub |-> keycmd.pub, roles |-> keycmd.roles, gen |-> keycmd.gen]
       IN  reg' = IF keycmd.fresh /\ ValidKeyEvent(reg, e) THEN Append(reg, e) ELSE reg
    /\ keycmd' = Idle
    /\ UNCHANGED <<provider, created, auths, deleting, lost, signer, torn, faults>>

\* revoke_current_key: signed by the key itself.
Revoke(k, n) ==
    /\ keycmd = Idle /\ Len(reg) < MaxRegistry
    /\ Known(reg, k) /\ KeyState(reg, k).active
    /\ KeyState(reg, k).name = n /\ RegistryOpens
    /\ SignsFor(n, KeyState(reg, k).pub)
    /\ LET s == KeyState(reg, k) IN
        reg' = Append(reg, [kind |-> "REVOKE", key |-> k, name |-> n, pub |-> s.pub,
                            roles |-> s.roles, gen |-> s.gen])
    /\ UNCHANGED <<provider, created, auths, keycmd, deleting, lost, signer, torn, faults>>

KeyRevoke(k, n) == n \notin Hardware /\ Revoke(k, n)

\* A guard that looks at what each key was enrolled with.
InUseWhenEnrolled(r, n) ==
    \E i \in 1..Len(r) :
        r[i].kind = "ENROLL" /\ r[i].name = n /\ KeyState(r, r[i].key).active

InUse(r, n) ==
    \E k \in KeyId : Known(r, k) /\ KeyState(r, k).active /\ KeyState(r, k).name = n

\* key-delete-provider, up to the check of the registry it opened
ReadBeforeDelete(n) ==
    /\ Cardinality(deleting) < MaxDeletes
    /\ n \notin Hardware
    /\ RegistryOpens
    /\ ~InUse(reg, n)
    /\ deleting' = deleting \cup {[name |-> n, read |-> Len(reg)]}
    /\ UNCHANGED <<provider, created, reg, auths, keycmd, lost, signer, torn, faults>>

\* The rest of key-delete-provider, whatever was appended since: the provider key
\* is deleted if there is one.
DeleteProviderKey(d) ==
    /\ deleting' = deleting \ {d}
    /\ provider' = WithoutKey(d.name)
    /\ lost' = IF provider[d.name] = 0 THEN lost
               ELSE lost \cup {[pub |-> provider[d.name], read |-> d.read]}
    /\ UNCHANGED <<created, reg, auths, keycmd, signer, torn, faults>>

-----------------------------------------------------------------------------
(* Authorizations. *)

\* authorize: opens the registry, then the ledger over that registry.
OpenToSign ==
    /\ signer = Closed /\ RegistryOpens
    /\ AuthsWhole /\ Len(auths) < MaxAuths
    /\ AuthsReplay(reg, auths)
    /\ signer' = Len(reg)
    /\ UNCHANGED <<provider, created, reg, auths, keycmd, deleting, lost, torn, faults>>

\* What authorize asks of the key, over the registry as it was read: its role,
\* and that the provider's own public key is the registered one.
MaySign(l) ==
    LET held == SubSeq(reg, 1, signer) IN
    /\ HasRole(held, l.key, l.role)
    /\ SignsFor(KeyState(held, l.key).name, KeyState(held, l.key).pub)

\* The rest of authorize.
Authorize(l) ==
    /\ signer # Closed
    /\ auths' =
        IF MaySign(l)
        THEN Append(auths, [domain |-> l.domain, role |-> l.role,
                            subject |-> l.subject, key |-> l.key, head |-> signer,
                            pub |-> StateAtHead(reg, signer, l.key).pub])
        ELSE auths
    /\ signer' = Closed
    /\ UNCHANGED <<provider, created, reg, keycmd, deleting, lost, torn, faults>>

\* authorize_with_provider: the key's provider must be the one passed.
AuthorizeWithProvider(l, require) ==
    /\ signer # Closed
    /\ HasRoleAtHead(reg, signer, l.key, l.role)
    /\ ProviderAdmits(StateAtHead(reg, signer, l.key).name, require)
    /\ Authorize(l)

-----------------------------------------------------------------------------
(* Faults. *)

\* The key command dies between the provider and the registry.
KillKeyCommand ==
    /\ keycmd # Idle /\ faults < MaxFaults
    /\ keycmd' = Idle
    /\ faults' = faults + 1
    /\ UNCHANGED <<provider, created, reg, auths, deleting, lost, signer, torn>>

\* key-delete-provider dies between the registry and the provider.
KillDelete(d) ==
    /\ faults < MaxFaults
    /\ deleting' = deleting \ {d}
    /\ faults' = faults + 1
    /\ UNCHANGED <<provider, created, reg, auths, keycmd, lost, signer, torn>>

\* append_fsync is cut short: every later open of the file is refused.
KillInAppend ==
    /\ faults < MaxFaults
    /\ \/ keycmd # Idle /\ keycmd.at = "signed" /\ keycmd.fresh /\ torn' = torn \cup {"registry"}
          /\ keycmd' = Idle /\ UNCHANGED signer
       \/ signer # Closed /\ (\E l \in Lines : MaySign(l)) /\ torn' = torn \cup {"auths"}
          /\ signer' = Closed /\ UNCHANGED keycmd
    /\ faults' = faults + 1
    /\ UNCHANGED <<provider, created, reg, auths, deleting, lost>>

KInit ==
    /\ \E s \in Starts :
        /\ provider = s.provider /\ created = s.created
        /\ reg = s.reg /\ auths = s.auths
    /\ keycmd = Idle /\ deleting = {} /\ lost = {}
    /\ signer = Closed /\ torn = {} /\ faults = 0

KNext ==
    \/ \E k \in KeyId, n \in Name, fresh \in BOOLEAN :
        \/ \E roles \in Grants, require \in Requirement :
            \/ KeyCreate(k, n, roles, fresh)
            \/ EnrollWithProvider(k, n, roles, require, fresh)
        \/ \E old \in Name, require \in Requirement :
            \/ KeyRotate(k, old, n, fresh)
            \/ RotateWithProviders(k, old, n, require, fresh)
    \/ SignKeyEvent \/ AppendKeyEvent
    \/ \E k \in KeyId, n \in Name : KeyRevoke(k, n) \/ Revoke(k, n)
    \/ \E n \in Name : ReadBeforeDelete(n)
    \/ \E d \in deleting : DeleteProviderKey(d) \/ KillDelete(d)
    \/ OpenToSign
    \/ \E l \in Lines, require \in Requirement : AuthorizeWithProvider(l, require)
    \/ \E l \in Lines : Authorize(l)
    \/ KillKeyCommand \/ KillInAppend

\* An initial root was made by such commands: its files replay, and the provider
\* has the keys that are active.
ASSUME StartsAssumption ==
    \A s \in Starts :
        /\ s.provider \in [Name -> Nat] /\ s.created \in Nat
        /\ s.reg \in Seq(KeyEvents) /\ s.auths \in Seq(Range(s.auths))
        /\ RegistryReplays(s.reg) /\ AuthsReplay(s.reg, s.auths)
        /\ KeysUsable(s.reg, s.provider)

-----------------------------------------------------------------------------
(* Properties. *)

\* A deletion takes the key away that the last event about k announced, although
\* the registry it had read does not have that event.
DeletedUnseen(k) ==
    \E d \in lost : d.pub = KeyState(reg, k).pub /\ d.read < Max(About(reg, k))

\* A key the registry calls active can sign, unless a key-delete-provider that
\* read the registry before the key's enrolment or rotation was appended deleted
\* its provider key.  Nothing else parts the two: no refused enrolment, no rotation,
\* no killed command, and no deletion that had the event before it
\* (command_key_delete_provider, rotate_to_new_provider_key).
ActiveKeyKept ==
    \A k \in KeyId :
        Known(reg, k) /\ KeyState(reg, k).active =>
            /\ KeyState(reg, k).pub # 0
            /\ SignsFor(KeyState(reg, k).name, KeyState(reg, k).pub) \/ DeletedUnseen(k)
=============================================================================
