-------------------------- MODULE VaultInvariant ---------------------------
(***************************************************************************)
(* The inductive strengthenings behind the theorems of VaultProofs, apart  *)
(* from the proofs so that the model checker can be asked about them too.  *)
(***************************************************************************)
EXTENDS Vault

\* What a request carries at each of its steps.
ReqOK(c) ==
  /\ pc[c] = "bootstrap" => /\ req[c].kind = "setup"
                            /\ req[c].pw \in Passwords
                            /\ key[c] \in Keys
                            /\ key[c].pw = req[c].pw
  /\ pc[c] = "vault"     => req[c].kind \in {"login", "unlock"} /\ req[c].pw \in Passwords
  /\ pc[c] = "install"   => /\ req[c].kind \in {"setup", "login", "unlock", "change"}
                            /\ key[c] \in Keys
  /\ pc[c] = "issue"     => req[c].kind \in {"setup", "login"} /\ key[c] \in Keys
  /\ pc[c] = "sealer"    => /\ req[c].kind \in {"change", "save", "read"}
                            /\ req[c].kind = "change" => req[c].new \in Passwords
                            /\ req[c].kind # "change" => req[c].slot \in Slots
                            /\ req[c].kind = "save"   => req[c].val \in Values
  /\ pc[c] = "snapshot"  => /\ req[c].kind = "change"
                            /\ req[c].new \in Passwords
                            /\ key[c] \in Keys
  /\ pc[c] = "rekey"     => /\ req[c].kind = "change"
                            /\ req[c].new \in Passwords
                            /\ key[c] \in Keys
                            /\ key[c].pw = req[c].new
  /\ pc[c] = "kick"      => req[c].kind = "change"
  /\ pc[c] = "store"     => /\ req[c].kind = "save"
                            /\ req[c].slot \in Slots
                            /\ req[c].val \in Values
                            /\ key[c] \in Keys
  /\ pc[c] = "drop"      => req[c].kind = "delete" /\ req[c].slot \in Slots
  /\ pc[c] = "fetch"     => /\ req[c].kind = "read"
                            /\ req[c].slot \in Slots
                            /\ key[c] \in Keys

\* Inductive whatever requests overlap.
LocalInv == TypeOK /\ AccountCoherent /\ \A c \in Clients : ReqOK(c)

-----------------------------------------------------------------------------
\* The discipline under which the credentials are safe: a password change runs
\* alone, and the panel is stopped for a reset.
Careful == {"change", "reset"} \subseteq Alone

\* A password change has no company.
Solo ==
  \A c, d \in Clients : c # d /\ Busy(c) /\ Busy(d) => req[c].kind # "change"

\* A stopped process remembers nothing.
Down == ~up => sealer = None /\ \A c \in Clients : ~Busy(c)

\* The key a request is about to use, or to make live, is the vault's.
Held ==
  \A c \in Clients :
    /\ pc[c] \in {"install", "store", "fetch"} => vault # None /\ key[c] = vault
    /\ Busy(c) /\ req[c].kind = "change" => vault # None
    /\ pc[c] = "rekey" => snap[c] = Resealed(key[c], creds)

CarefulInv == Solo /\ Down /\ Held /\ CredentialsOpen /\ SealerCurrent
=============================================================================
