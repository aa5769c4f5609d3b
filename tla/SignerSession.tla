---------------------------- MODULE SignerSession ----------------------------
(***************************************************************************)
(* The unlocked signer: one slot in memory for one profile's key, its      *)
(* sliding expiry and its cap, while profiles are switched and deleted.    *)
(*                                                                         *)
(* Code: src/src-tauri/src/noncustodial/session.rs (the session),          *)
(* commands/secure_wallet.rs (unlock, lock, switch, delete, the sweep),    *)
(* commands/tx.rs, commands/shakedex.rs (the uses of the key).             *)
(*                                                                         *)
(* A command's steps under the slot's mutex are one step; a prompt, and    *)
(* the gap between the database and the slot, are not.  A session that is  *)
(* locked in place answers as an empty slot does, and is one here.  Not    *)
(* modelled: a clock set back (the expiry is wall clock), the machine      *)
(* asleep, the key's erasure.                                              *)
(***************************************************************************)
EXTENDS Naturals

CONSTANTS
    Profiles,
    Nobody,         \* no profile
    MinSession,     \* MIN_SESSION_SECS, in ticks
    MaxSession      \* MAX_SESSION_SECS, in ticks

ASSUME SignerAssumption ==
    /\ Nobody \notin Profiles
    /\ MinSession \in Nat \ {0} /\ MaxSession \in Nat /\ MinSession <= MaxSession

VARIABLES
    existing,       \* profiles with their rows
    active,         \* active_wallet_profile_id
    session,        \* the slot: whose key, ticks to its expiry, to its hard expiry
    prompting,      \* profiles whose unlock waits for the passphrase
    found,          \* activations that have found their profile
    switching,      \* activations that have yet to look at the slot
    deleting,       \* deletions that have yet to look at the slot
    held,           \* ticks since the unlock (history)
    strayed         \* the key stored was not the active profile's, or its profile deleted (history)

signerHistory == <<held, strayed>>
signerVars == <<existing, active, session, prompting, found, switching, deleting, signerHistory>>

NoSession == [owner |-> Nobody, left |-> 0, hard |-> 0]
Ttls == MinSession..MaxSession

Least(a, b) == IF a < b THEN a ELSE b

SignerTypeOK ==
    /\ existing \subseteq Profiles
    /\ active \in Profiles \cup {Nobody}
    /\ session \in [owner : Profiles \cup {Nobody}, left : 0..MaxSession, hard : 0..MaxSession]
    /\ prompting \subseteq Profiles
    /\ found \subseteq Profiles
    /\ switching \subseteq Profiles
    /\ deleting \subseteq Profiles
    /\ held \in Nat
    /\ strayed \in BOOLEAN

SignerInit ==
    /\ existing = Profiles
    /\ active = Nobody
    /\ session = NoSession
    /\ prompting = {}
    /\ found = {}
    /\ switching = {}
    /\ deleting = {}
    /\ held = 0
    /\ strayed = FALSE

Unlocked == session.owner # Nobody
Expired == Unlocked /\ session.left = 0

Empty == session' = NoSession /\ held' = 0 /\ strayed' = FALSE

-----------------------------------------------------------------------------
(* Unlock, use, lock.                                                      *)

\* unlock_local_signer, up to its prompt; the webview names the profile, the
\* one it showed when the action began.
Ask(p) ==
    /\ p \in existing
    /\ prompting' = prompting \cup {p}
    /\ UNCHANGED <<existing, active, session, found, switching, deleting, signerHistory>>

Dismiss(p) ==
    /\ p \in prompting
    /\ prompting' = prompting \ {p}
    /\ UNCHANGED <<existing, active, session, found, switching, deleting, signerHistory>>

\* SignerSession::unlock, with the key decrypted from what was read before the
\* prompt; the slot's session, if any, is replaced.
Unlock(p, ttl) ==
    /\ p \in prompting
    /\ prompting' = prompting \ {p}
    /\ session' = [owner |-> p, left |-> ttl, hard |-> MaxSession]
    /\ held' = 0
    /\ strayed' = (p # active \/ p \notin existing)
    /\ UNCHANGED <<existing, active, found, switching, deleting>>

\* Mutant of Touched: no cap.
TouchedUncapped(ttl) == [session EXCEPT !.left = ttl]

\* touch: ttl from now, never past the hard expiry.
Touched(ttl) == [session EXCEPT !.left = Least(ttl, session.hard)]

\* authorize, before each use of the key for profile p: an expired session is
\* locked, another profile's refused.
Use(p, ttl) ==
    /\ Unlocked
    /\ \/ Expired /\ Empty
       \/ ~Expired /\ session.owner = p /\ session' = Touched(ttl) /\ UNCHANGED <<held, strayed>>
    /\ UNCHANGED <<existing, active, prompting, found, switching, deleting>>

\* lock_local_signer.
Lock ==
    /\ Unlocked
    /\ Empty
    /\ UNCHANGED <<existing, active, prompting, found, switching, deleting>>

\* expire_slot, of the once-a-second sweep and of get_signer_session.
Sweep ==
    /\ Expired
    /\ Empty
    /\ UNCHANGED <<existing, active, prompting, found, switching, deleting>>

-----------------------------------------------------------------------------
(* Switching and deleting profiles: the database, then the slot.           *)

\* set_active_wallet_profile finds the profile, and lets the database go.
Switch(p) ==
    /\ p \in existing
    /\ found' = found \cup {p}
    /\ UNCHANGED <<existing, active, session, prompting, switching, deleting, signerHistory>>

\* activate_profile, set_active_profile: it may be deleted by now.
Activate(p) ==
    /\ p \in found
    /\ found' = found \ {p}
    /\ active' = p
    /\ switching' = switching \cup {p}
    /\ UNCHANGED <<existing, session, prompting, deleting, signerHistory>>

\* Mutant of Drops: the slot is emptied of the profile that was named.
DropsNamed(p, kind) == session.owner = p

\* drop_signer_if: another profile's on a switch, the deleted one's.
Drops(p, kind) ==
    IF kind = "switch" THEN session.owner # p ELSE session.owner = p

DropIf(picked) ==
    IF Unlocked /\ picked THEN Empty ELSE UNCHANGED <<session, held, strayed>>

Switched(p) ==
    /\ p \in switching
    /\ switching' = switching \ {p}
    /\ DropIf(Drops(p, "switch"))
    /\ UNCHANGED <<existing, active, prompting, found, deleting>>

\* A new profile's row, under a fresh id; its activation follows.
Create(p) ==
    /\ p \notin existing \cup prompting \cup found \cup switching \cup deleting
    /\ p \notin {active, session.owner}
    /\ existing' = existing \cup {p}
    /\ found' = found \cup {p}
    /\ UNCHANGED <<active, session, prompting, switching, deleting, signerHistory>>

\* delete_wallet_profile, once confirmed.
Delete(p) ==
    /\ p \in existing
    /\ existing' = existing \ {p}
    /\ active' = IF active = p THEN Nobody ELSE active
    /\ deleting' = deleting \cup {p}
    /\ UNCHANGED <<session, prompting, found, switching, signerHistory>>

Deleted(p) ==
    /\ p \in deleting
    /\ deleting' = deleting \ {p}
    /\ DropIf(Drops(p, "delete"))
    /\ UNCHANGED <<existing, active, prompting, found, switching>>

\* A tick is many sweeps long.
TimePasses ==
    /\ Unlocked
    /\ ~Expired
    /\ session' = [session EXCEPT !.left = @ - 1, !.hard = @ - 1]
    /\ held' = held + 1
    /\ UNCHANGED <<existing, active, prompting, found, switching, deleting, strayed>>

SignerNext ==
    \/ \E p \in Profiles :
         \/ Ask(p) \/ Dismiss(p) \/ Create(p) \/ Switch(p) \/ Activate(p) \/ Switched(p) \/ Delete(p) \/ Deleted(p)
         \/ \E ttl \in Ttls : Unlock(p, ttl) \/ Use(p, ttl)
    \/ Lock \/ Sweep \/ TimePasses

SignerSpec == SignerInit /\ [][SignerNext]_signerVars

-----------------------------------------------------------------------------
(* However often the key is used, and whatever the timeout is set to, it   *)
(* is in memory no longer than MAX_SESSION_SECS after the unlock           *)
(* (session.rs:137).                                                       *)
KeyGoneInTime == Unlocked => held <= MaxSession

(* A key stays only with its own profile: once a switch or a deletion is  *)
(* through, no other profile's key is left, nor a deleted one's            *)
(* (secure_wallet.rs:240).  Not so for a key that an unlock stores after   *)
(* the switch or the deletion that overtook its prompt.                    *)
NoKeyOfAnother ==
    Unlocked /\ switching = {} /\ deleting = {} =>
        (session.owner = active /\ session.owner \in existing) \/ strayed
=============================================================================
