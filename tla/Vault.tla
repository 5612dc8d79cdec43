------------------------------- MODULE Vault -------------------------------
(***************************************************************************)
(* The account, the credential vault and the master key in memory:         *)
(* auth.Manager (internal/auth) over the users, vault, credentials and     *)
(* sessions tables (internal/store).                                       *)
(*                                                                         *)
(* A client is a browser; its request runs as the goroutine of its HTTP    *)
(* handler.  The database connection pool holds one connection, so every   *)
(* statement, and every transaction, is one atomic step; between two of    *)
(* them, and around every access to the mutex-guarded sealer, requests     *)
(* interleave.  A request can be cancelled or fail between any two steps,  *)
(* the process can crash, and `mirrorpilot -reset` can run against the     *)
(* same database from a second process.                                    *)
(*                                                                         *)
(* A key is the password and the salt it is derived from: two of them are  *)
(* equal only when both are.  The users row is the password its hash       *)
(* accepts; the vault row is the key its salt and fingerprint identify.    *)
(***************************************************************************)
CONSTANTS
  Clients,     \* browsers
  Passwords,   \* username/password pairs the length policy accepts
  Salts,       \* KDF salts; a draw never repeats one still in use
  Slots,       \* credential names
  Values,      \* plaintexts a slot may hold
  None,        \* an absent row, key or value
  Alone        \* the kinds of request the owner never overlaps with another

Kinds == {"setup", "login", "unlock", "change", "save", "delete", "read"}

Keys  == [pw : Passwords, salt : Salts]
Blobs == [key : Keys, slot : Slots, val : Values]

ASSUME NoneAssumption ==
  None \notin Passwords \cup Values \cup Slots \cup Keys \cup Blobs
ASSUME AloneAssumption == Alone \subseteq (Kinds \cup {"reset"})

VARIABLES
  account,   \* users row: the password its hash accepts, or None
  vault,     \* vault row: the key of its salt and fingerprint, or None
  creds,     \* credentials table: a sealed blob per slot, or None
  session,   \* sessions table: the row a client's cookie names, as the key
             \* its owner had proved when it was issued, or None
  up,        \* the server process is running
  sealer,    \* Manager.sealer: the live master key, or None when locked
  pc,        \* next step of a client's request
  req,       \* what the request asked for
  key,       \* the key the request holds in a local variable
  snap       \* ChangePassword's re-sealed credentials

stored  == <<account, vault, creds>>
locals  == <<pc, req, key, snap>>
vars    == <<account, vault, creds, session, up, sealer, pc, req, key, snap>>

Steps == {"idle", "bootstrap", "vault", "install", "issue", "sealer",
          "snapshot", "rekey", "kick", "store", "drop", "fetch"}

Opt(S) == S \cup {None}

Requests == [kind : Kinds \cup {"none"}, pw : Opt(Passwords), new : Opt(Passwords),
             slot : Opt(Slots), val : Opt(Values)]

Ask(kind, p, new, s, v) == [kind |-> kind, pw |-> p, new |-> new, slot |-> s, val |-> v]
NoReq   == Ask("none", None, None, None, None)
NoBlobs == [s \in Slots |-> None]

TypeOK ==
  /\ account \in Opt(Passwords)
  /\ vault \in Opt(Keys)
  /\ creds \in [Slots -> Opt(Blobs)]
  /\ session \in [Clients -> Opt(Keys)]
  /\ up \in BOOLEAN
  /\ sealer \in Opt(Keys)
  /\ pc \in [Clients -> Steps]
  /\ req \in [Clients -> Requests]
  /\ key \in [Clients -> Opt(Keys)]
  /\ snap \in [Clients -> [Slots -> Opt(Blobs)]]

Init ==
  /\ account = None
  /\ vault = None
  /\ creds = NoBlobs
  /\ session = [c \in Clients |-> None]
  /\ up = TRUE
  /\ sealer = None
  /\ pc = [c \in Clients |-> "idle"]
  /\ req = [c \in Clients |-> NoReq]
  /\ key = [c \in Clients |-> None]
  /\ snap = [c \in Clients |-> NoBlobs]

-----------------------------------------------------------------------------
(* Cryptography, by what it does.                                          *)

DeriveKey(p, salt) == [pw |-> p, salt |-> salt]

\* NewSalt draws 16 random bytes: never a salt anything still refers to.
SaltsInUse ==
  LET held  == {vault, sealer} \cup {key[c] : c \in Clients}
      blobs == {creds[s] : s \in Slots} \cup
               {snap[x[1]][x[2]] : x \in Clients \X Slots}
  IN  {k.salt : k \in (held \cup {b.key : b \in blobs \ {None}}) \ {None}}

FreshSalts == Salts \ SaltsInUse

\* Mutant: the plaintext goes into the row as it is.
SealNothing(k, s, v) == v

\* AES-GCM with the slot's name as associated data.
Seal(k, s, v) == [key |-> k, slot |-> s, val |-> v]

Opens(k, s, blob) == blob.key = k /\ blob.slot = s

-----------------------------------------------------------------------------
(* Where a request is.                                                     *)

Busy(c) == pc[c] # "idle"

\* The owner's own discipline, which the code does not enforce: a request of a
\* kind in Alone is neither started beside another one nor overtaken by one.
MayBegin(c, kind) ==
  /\ up
  /\ ~Busy(c)
  /\ kind \in Alone => \A d \in Clients : ~Busy(d)
  /\ \A d \in Clients : Busy(d) => req[d].kind \notin Alone

\* withState and requireSession: the panel is set up and the cookie's row exists.
Admitted(c) == account # None /\ session[c] # None

Enter(c, step, r) ==
  /\ pc' = [pc EXCEPT ![c] = step]
  /\ req' = [req EXCEPT ![c] = r]

Goto(c, step) ==
  /\ pc' = [pc EXCEPT ![c] = step]
  /\ UNCHANGED req

End(c) ==
  /\ pc' = [pc EXCEPT ![c] = "idle"]
  /\ req' = [req EXCEPT ![c] = NoReq]
  /\ key' = [key EXCEPT ![c] = None]
  /\ snap' = [snap EXCEPT ![c] = NoBlobs]

-----------------------------------------------------------------------------
(* Manager.Setup: check, then both rows in one transaction, then the key.  *)

SetupCheck(c, p) ==
  /\ MayBegin(c, "setup")
  /\ account = None
  /\ \E salt \in FreshSalts : key' = [key EXCEPT ![c] = DeriveKey(p, salt)]
  /\ Enter(c, "bootstrap", Ask("setup", p, None, None, None))
  /\ UNCHANGED <<stored, session, up, sealer, snap>>

\* Mutant: the loser of a setup race overlooks the constraint error.
BootstrapUnchecked(c) ==
  /\ pc[c] = "bootstrap"
  /\ IF account = None /\ vault = None
       THEN account' = req[c].pw /\ vault' = key[c]
       ELSE UNCHANGED <<account, vault>>
  /\ Goto(c, "install")
  /\ UNCHANGED <<creds, session, up, sealer, key, snap>>

\* CHECK (id = 1) refuses a second row in either table; the loser of the race
\* returns ErrAlreadySetup before it touches the key.
Bootstrap(c) ==
  /\ pc[c] = "bootstrap"
  /\ IF account = None /\ vault = None
       THEN /\ account' = req[c].pw
            /\ vault' = key[c]
            /\ Goto(c, "install")
            /\ UNCHANGED <<key, snap>>
       ELSE End(c) /\ UNCHANGED <<account, vault>>
  /\ UNCHANGED <<creds, session, up, sealer>>

-----------------------------------------------------------------------------
(* Manager.Login and Manager.Unlock: verify the password, read the vault,  *)
(* install the key, and for a login issue a session.                       *)

LoginVerify(c, p) ==
  /\ MayBegin(c, "login")
  /\ account = p
  /\ Enter(c, "vault", Ask("login", p, None, None, None))
  /\ UNCHANGED <<stored, session, up, sealer, key, snap>>

UnlockVerify(c, p) ==
  /\ MayBegin(c, "unlock")
  /\ Admitted(c)
  /\ account = p
  /\ Enter(c, "vault", Ask("unlock", p, None, None, None))
  /\ UNCHANGED <<stored, session, up, sealer, key, snap>>

\* Manager.unlock: the derived key must match the stored fingerprint.
ReadVault(c) ==
  /\ pc[c] = "vault"
  /\ IF vault # None /\ vault = DeriveKey(req[c].pw, vault.salt)
       THEN /\ key' = [key EXCEPT ![c] = vault]
            /\ Goto(c, "install")
            /\ UNCHANGED snap
       ELSE End(c)
  /\ UNCHANGED <<stored, session, up, sealer>>

\* Manager.installKey, the one writer of the live key besides Lock.
InstallKey(c) ==
  /\ pc[c] = "install"
  /\ sealer' = key[c]
  /\ \/ req[c].kind \in {"setup", "login"} /\ Goto(c, "issue") /\ UNCHANGED <<key, snap>>
     \/ req[c].kind = "change" /\ Goto(c, "kick") /\ UNCHANGED <<key, snap>>
     \/ req[c].kind = "unlock" /\ End(c)
  /\ UNCHANGED <<stored, session, up>>

Issue(c) ==
  /\ pc[c] = "issue"
  /\ session' = [session EXCEPT ![c] = key[c]]
  /\ End(c)
  /\ UNCHANGED <<stored, up, sealer>>

-----------------------------------------------------------------------------
(* Manager.ChangePassword.                                                 *)

ChangeVerify(c, p, new) ==
  /\ MayBegin(c, "change")
  /\ Admitted(c)
  /\ account = p
  /\ Enter(c, "sealer", Ask("change", p, new, None, None))
  /\ UNCHANGED <<stored, session, up, sealer, key, snap>>

\* Manager.Sealer on behalf of a change, a save or a read: ErrLocked ends it.
TakeSealer(c) ==
  /\ pc[c] = "sealer"
  /\ IF sealer = None
       THEN End(c)
       ELSE /\ key' = [key EXCEPT ![c] = sealer]
            /\ \/ req[c].kind = "change" /\ Goto(c, "snapshot")
               \/ req[c].kind = "save" /\ Goto(c, "store")
               \/ req[c].kind = "read" /\ Goto(c, "fetch")
            /\ UNCHANGED snap
  /\ UNCHANGED <<stored, session, up, sealer>>

Resealed(k, blobs) ==
  [s \in Slots |-> IF blobs[s] = None THEN None ELSE Seal(k, s, blobs[s].val)]

\* Mutant: the snapshot misses what the table holds.
SnapshotNothing(c) ==
  /\ pc[c] = "snapshot"
  /\ \E salt \in FreshSalts : key' = [key EXCEPT ![c] = DeriveKey(req[c].new, salt)]
  /\ snap' = [snap EXCEPT ![c] = NoBlobs]
  /\ Goto(c, "rekey")
  /\ UNCHANGED <<stored, session, up, sealer>>

\* Every credential is opened and resealed in memory; one that does not open
\* ends the change with nothing written.
Snapshot(c) ==
  /\ pc[c] = "snapshot"
  /\ IF \E s \in Slots : creds[s] # None /\ ~Opens(key[c], s, creds[s])
       THEN End(c)
       ELSE \E salt \in FreshSalts :
              LET new == DeriveKey(req[c].new, salt)
              IN  /\ key' = [key EXCEPT ![c] = new]
                  /\ snap' = [snap EXCEPT ![c] = Resealed(new, creds)]
                  /\ Goto(c, "rekey")
  /\ UNCHANGED <<stored, session, up, sealer>>

\* Mutant: the new salt is written and the old ciphertexts stay.
RekeyKeepingBlobs(c) ==
  /\ pc[c] = "rekey"
  /\ account' = IF account = None THEN None ELSE req[c].new
  /\ vault' = IF vault = None THEN None ELSE key[c]
  /\ Goto(c, "install")
  /\ UNCHANGED <<creds, session, up, sealer, key, snap>>

\* Mutant: the password hash is left out of the transaction.
RekeyKeepingHash(c) ==
  /\ pc[c] = "rekey"
  /\ vault' = IF vault = None THEN None ELSE key[c]
  /\ creds' = snap[c]
  /\ Goto(c, "install")
  /\ UNCHANGED <<account, session, up, sealer, key, snap>>

\* Store.Rekey, one transaction.  Its two UPDATEs do not ask whether a row was
\* there; its DELETE and INSERTs replace the table by the snapshot.
Rekey(c) ==
  /\ pc[c] = "rekey"
  /\ account' = IF account = None THEN None ELSE req[c].new
  /\ vault' = IF vault = None THEN None ELSE key[c]
  /\ creds' = snap[c]
  /\ Goto(c, "install")
  /\ UNCHANGED <<session, up, sealer, key, snap>>

\* DeleteAllSessions: everyone is logged out, the client that asked included.
Kick(c) ==
  /\ pc[c] = "kick"
  /\ session' = [d \in Clients |-> None]
  /\ End(c)
  /\ UNCHANGED <<stored, up, sealer>>

-----------------------------------------------------------------------------
(* Credentials: save and read take the sealer first and touch the row in a *)
(* later step; delete needs no key.                                        *)

AskSave(c, s, v) ==
  /\ MayBegin(c, "save")
  /\ Admitted(c)
  /\ Enter(c, "sealer", Ask("save", None, None, s, v))
  /\ UNCHANGED <<stored, session, up, sealer, key, snap>>

AskRead(c, s) ==
  /\ MayBegin(c, "read")
  /\ Admitted(c)
  /\ Enter(c, "sealer", Ask("read", None, None, s, None))
  /\ UNCHANGED <<stored, session, up, sealer, key, snap>>

AskDelete(c, s) ==
  /\ MayBegin(c, "delete")
  /\ Admitted(c)
  /\ Enter(c, "drop", Ask("delete", None, None, s, None))
  /\ UNCHANGED <<stored, session, up, sealer, key, snap>>

Store(c) ==
  /\ pc[c] = "store"
  /\ creds' = [creds EXCEPT ![req[c].slot] = Seal(key[c], req[c].slot, req[c].val)]
  /\ End(c)
  /\ UNCHANGED <<account, vault, session, up, sealer>>

Drop(c) ==
  /\ pc[c] = "drop"
  /\ creds' = [creds EXCEPT ![req[c].slot] = None]
  /\ End(c)
  /\ UNCHANGED <<account, vault, session, up, sealer>>

\* The row, if there is one, is opened with the sealer taken earlier.
Fetch(c) ==
  /\ pc[c] = "fetch"
  /\ End(c)
  /\ UNCHANGED <<stored, session, up, sealer>>

-----------------------------------------------------------------------------
(* What interrupts a request, and what happens outside any.                *)

Logout(c) ==
  /\ up
  /\ ~Busy(c)
  /\ session[c] # None
  /\ session' = [session EXCEPT ![c] = None]
  /\ UNCHANGED <<stored, up, sealer, locals>>

\* A cancelled context or a failed statement returns from the handler.  Only
\* installKey cannot fail: it neither waits nor does I/O.
Fail(c) ==
  /\ pc[c] \notin {"idle", "install"}
  /\ End(c)
  /\ UNCHANGED <<stored, session, up, sealer>>

\* Manager.Lock.
Lock ==
  /\ sealer # None
  /\ sealer' = None
  /\ UNCHANGED <<stored, session, up, locals>>

\* The key and every request die with the process; the database stays.
Crash ==
  /\ up
  /\ up' = FALSE
  /\ sealer' = None
  /\ pc' = [c \in Clients |-> "idle"]
  /\ req' = [c \in Clients |-> NoReq]
  /\ key' = [c \in Clients |-> None]
  /\ snap' = [c \in Clients |-> NoBlobs]
  /\ UNCHANGED <<stored, session>>

Start ==
  /\ ~up
  /\ up' = TRUE
  /\ UNCHANGED <<stored, session, sealer, locals>>

\* Mutant: the credentials survive the reset.
ResetKeepingBlobs ==
  /\ account # None
  /\ "reset" \in Alone => ~up
  /\ account' = None
  /\ vault' = None
  /\ session' = [c \in Clients |-> None]
  /\ UNCHANGED <<creds, up, sealer, locals>>

\* Store.Reset from `mirrorpilot -reset`, one transaction of another process.
\* An owner with "reset" in Alone stops the panel first.
Reset ==
  /\ account # None
  /\ "reset" \in Alone => ~up
  /\ account' = None
  /\ vault' = None
  /\ creds' = NoBlobs
  /\ session' = [c \in Clients |-> None]
  /\ UNCHANGED <<up, sealer, locals>>

-----------------------------------------------------------------------------
Begin(c) ==
  \/ \E p \in Passwords : SetupCheck(c, p) \/ LoginVerify(c, p) \/ UnlockVerify(c, p)
  \/ \E p, new \in Passwords : ChangeVerify(c, p, new)
  \/ \E s \in Slots : AskRead(c, s) \/ AskDelete(c, s)
  \/ \E s \in Slots, v \in Values : AskSave(c, s, v)

Continue(c) ==
  \/ Bootstrap(c) \/ ReadVault(c) \/ InstallKey(c) \/ Issue(c)
  \/ TakeSealer(c) \/ Snapshot(c) \/ Rekey(c) \/ Kick(c)
  \/ Store(c) \/ Drop(c) \/ Fetch(c)

Next ==
  \/ \E c \in Clients : Begin(c) \/ Continue(c) \/ Logout(c) \/ Fail(c)
  \/ Lock \/ Crash \/ Start \/ Reset

Spec == Init /\ [][Next]_vars

-----------------------------------------------------------------------------
(* Properties.                                                             *)

\* The account and the vault exist together and belong to the same password,
\* whatever is interrupted and whoever races whom: there is no panel on which
\* setup is refused and login impossible (Bootstrap, Rekey, Reset).
AccountCoherent ==
  /\ account = None <=> vault = None
  /\ account # None => vault.pw = account

\* A stored credential opens, in its own slot, under the key the vault row
\* identifies: no sequence of saves, password changes, crashes and failures
\* leaves a ciphertext nobody can derive the key of (ChangePassword's design).
CredentialsOpen ==
  \A s \in Slots : creds[s] # None => vault # None /\ Opens(vault, s, creds[s])

Rekeyed(c) == pc[c] = "install" /\ req[c].kind = "change"

\* The live master key is the vault's, except between a password change's
\* commit and its installKey: the panel never runs on with a key the stored
\* salt does not produce.
SealerCurrent ==
  sealer # None => sealer = vault \/ \E c \in Clients : Rekeyed(c)

\* A credential read after the sealer was taken still opens with that sealer.
ReadsOpen ==
  \A c \in Clients :
    /\ pc[c] = "fetch"
    /\ creds[req[c].slot] # None
    => Opens(key[c], req[c].slot, creds[req[c].slot])

\* What the owner can read back from a slot, given the vault's own key.
Readable ==
  [s \in Slots |-> IF creds[s] = None THEN None
                   ELSE IF vault # None /\ Opens(vault, s, creds[s]) THEN creds[s].val
                   ELSE "lost"]

\* The vault implements the keyring: seen through the key its own row
\* identifies, only a save or a delete changes what is stored, and a change of
\* password carries every secret over in the same step as the password.
K == INSTANCE Keyring WITH owner <- account, secrets <- Readable

KeyringSpec == K!Spec
=============================================================================
