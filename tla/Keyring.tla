------------------------------ MODULE Keyring ------------------------------
(***************************************************************************)
(* What the account and the credential vault promise their one owner, with *)
(* the keys, the ciphertexts, the processes and the crashes taken away:    *)
(* a password, and under it one secret per credential slot.  Nothing but   *)
(* an explicit save or delete changes a secret, and nothing but a change   *)
(* of password or a reset changes the password.  Vault implements this.    *)
(***************************************************************************)
CONSTANTS Passwords, Slots, Values, None

VARIABLES
  owner,     \* the password that opens the panel, None before setup
  secrets    \* what the owner can read back from each slot, None when empty

vars == <<owner, secrets>>

Empty == [s \in Slots |-> None]

Init == owner = None /\ secrets = Empty

\* First-run setup: only an unowned panel can be claimed.
Claim(p) ==
  /\ owner = None
  /\ owner' = p
  /\ UNCHANGED secrets

\* A change of password keeps every secret readable.
Change(p) ==
  /\ owner # None
  /\ owner' = p
  /\ UNCHANGED secrets

Put(s, v) ==
  /\ owner # None
  /\ secrets' = [secrets EXCEPT ![s] = v]
  /\ UNCHANGED owner

Erase(s) ==
  /\ secrets' = [secrets EXCEPT ![s] = None]
  /\ UNCHANGED owner

\* The only way back to an unowned panel also gives up every secret.
Wipe ==
  /\ owner' = None
  /\ secrets' = Empty

Next ==
  \/ \E p \in Passwords : Claim(p) \/ Change(p)
  \/ \E s \in Slots : Erase(s) \/ \E v \in Values : Put(s, v)
  \/ Wipe

Spec == Init /\ [][Next]_vars
=============================================================================
