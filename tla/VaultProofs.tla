---------------------------- MODULE VaultProofs ----------------------------
(***************************************************************************)
(* Theorems about Vault, for any clients, passwords, salts and slots.      *)
(***************************************************************************)
EXTENDS VaultInvariant, TLAPS

LEMMA NoneIsNothing ==
  /\ None \notin Passwords
  /\ None \notin Values
  /\ None \notin Slots
  /\ None \notin Keys
  /\ None \notin Blobs
BY NoneAssumption

\* The salts a derivation draws from are salts.
LEMMA FreshSaltsAreSalts == FreshSalts \subseteq Salts
BY DEF FreshSalts

LEMMA DeriveKeyType ==
  ASSUME NEW p \in Passwords, NEW salt \in Salts
  PROVE  DeriveKey(p, salt) \in Keys /\ DeriveKey(p, salt).pw = p
BY DEF DeriveKey, Keys

LEMMA SealType ==
  ASSUME NEW k \in Keys, NEW s \in Slots, NEW v \in Values
  PROVE  /\ Seal(k, s, v) \in Blobs
         /\ Opens(k, s, Seal(k, s, v))
         /\ Seal(k, s, v).val = v
BY DEF Seal, Blobs, Opens

LEMMA ResealedType ==
  ASSUME NEW k \in Keys, NEW blobs \in [Slots -> Opt(Blobs)]
  PROVE  /\ Resealed(k, blobs) \in [Slots -> Opt(Blobs)]
         /\ \A s \in Slots : (Resealed(k, blobs)[s] = None) <=> (blobs[s] = None)
         /\ \A s \in Slots : blobs[s] # None =>
              /\ Opens(k, s, Resealed(k, blobs)[s])
              /\ Resealed(k, blobs)[s].val = blobs[s].val
<1>1. ASSUME NEW s \in Slots, blobs[s] # None
      PROVE  /\ Resealed(k, blobs)[s] = Seal(k, s, blobs[s].val)
             /\ blobs[s].val \in Values
  BY <1>1 DEF Resealed, Opt, Blobs
<1>2. ASSUME NEW s \in Slots, blobs[s] = None
      PROVE  Resealed(k, blobs)[s] = None
  BY <1>2 DEF Resealed
<1>3. ASSUME NEW s \in Slots
      PROVE  /\ Resealed(k, blobs)[s] \in Opt(Blobs)
             /\ (Resealed(k, blobs)[s] = None) <=> (blobs[s] = None)
             /\ blobs[s] # None => /\ Opens(k, s, Resealed(k, blobs)[s])
                                   /\ Resealed(k, blobs)[s].val = blobs[s].val
  BY <1>1, <1>2, SealType, NoneIsNothing DEF Opt
<1>4. Resealed(k, blobs) = [s \in Slots |-> Resealed(k, blobs)[s]]
  BY DEF Resealed
<1>. QED BY <1>3, <1>4

LEMMA NoReqType == NoReq \in Requests /\ NoBlobs \in [Slots -> Opt(Blobs)]
BY DEF NoReq, Ask, Requests, NoBlobs, Opt, Kinds

LEMMA AskType ==
  ASSUME NEW kind \in Kinds, NEW p \in Opt(Passwords), NEW new \in Opt(Passwords),
         NEW s \in Opt(Slots), NEW v \in Opt(Values)
  PROVE  /\ Ask(kind, p, new, s, v) \in Requests
         /\ Ask(kind, p, new, s, v).kind = kind
         /\ Ask(kind, p, new, s, v).pw = p
         /\ Ask(kind, p, new, s, v).new = new
         /\ Ask(kind, p, new, s, v).slot = s
         /\ Ask(kind, p, new, s, v).val = v
BY DEF Ask, Requests

-----------------------------------------------------------------------------
(* The parts of LocalInv that no overlap of requests disturbs.             *)

LEMMA LocalInit == Init => LocalInv
BY NoReqType DEF Init, LocalInv, TypeOK, AccountCoherent, ReqOK, Opt, Steps

\* A step of one client leaves what the others carry as it was.
LEMMA OthersLocal ==
  ASSUME LocalInv, NEW c \in Clients, TypeOK', AccountCoherent', ReqOK(c)',
         \A d \in Clients \ {c} :
           pc'[d] = pc[d] /\ req'[d] = req[d] /\ key'[d] = key[d]
  PROVE  LocalInv'
<1>1. ASSUME NEW d \in Clients \ {c} PROVE ReqOK(d)'
  BY <1>1 DEF LocalInv, ReqOK
<1>. QED BY <1>1 DEF LocalInv

\* Ending a request, whatever else its last step did.
LEMMA EndLocal ==
  ASSUME LocalInv, NEW c \in Clients, End(c),
         account' \in Opt(Passwords), vault' \in Opt(Keys),
         creds' \in [Slots -> Opt(Blobs)], session' \in [Clients -> Opt(Keys)],
         up' \in BOOLEAN, sealer' \in Opt(Keys), AccountCoherent'
  PROVE  LocalInv'
<1>1. TypeOK'
  BY NoReqType DEF LocalInv, TypeOK, End, Steps, Opt
<1>2. ReqOK(c)'
  BY DEF LocalInv, TypeOK, End, ReqOK
<1>3. \A d \in Clients \ {c} :
        pc'[d] = pc[d] /\ req'[d] = req[d] /\ key'[d] = key[d]
  BY DEF LocalInv, TypeOK, End
<1>. QED BY <1>1, <1>2, <1>3, OthersLocal DEF LocalInv

LEMMA BeginLocal ==
  ASSUME LocalInv, NEW c \in Clients, Begin(c)
  PROVE  LocalInv'
<1>1. ASSUME NEW p \in Passwords, SetupCheck(c, p) PROVE LocalInv'
  <2>1. PICK salt \in Salts : key' = [key EXCEPT ![c] = DeriveKey(p, salt)]
    BY <1>1, FreshSaltsAreSalts DEF SetupCheck
  <2>2. TypeOK'
    BY <1>1, <2>1, DeriveKeyType, AskType
    DEF LocalInv, TypeOK, SetupCheck, Enter, Steps, Kinds, Opt, stored
  <2>3. ReqOK(c)'
    BY <1>1, <2>1, DeriveKeyType
    DEF LocalInv, TypeOK, SetupCheck, Enter, ReqOK, Ask
  <2>. QED
    BY <1>1, <2>1, <2>2, <2>3, OthersLocal
    DEF LocalInv, TypeOK, SetupCheck, Enter, AccountCoherent, stored
<1>2. ASSUME NEW p \in Passwords, LoginVerify(c, p) PROVE LocalInv'
  <2>1. TypeOK'
    BY <1>2, AskType DEF LocalInv, TypeOK, LoginVerify, Enter, Steps, Kinds, Opt, stored
  <2>2. ReqOK(c)'
    BY <1>2 DEF LocalInv, TypeOK, LoginVerify, Enter, ReqOK, Ask
  <2>. QED
    BY <1>2, <2>1, <2>2, OthersLocal
    DEF LocalInv, TypeOK, LoginVerify, Enter, AccountCoherent, stored
<1>3. ASSUME NEW p \in Passwords, UnlockVerify(c, p) PROVE LocalInv'
  <2>1. TypeOK'
    BY <1>3, AskType DEF LocalInv, TypeOK, UnlockVerify, Enter, Steps, Kinds, Opt, stored
  <2>2. ReqOK(c)'
    BY <1>3 DEF LocalInv, TypeOK, UnlockVerify, Enter, ReqOK, Ask
  <2>. QED
    BY <1>3, <2>1, <2>2, OthersLocal
    DEF LocalInv, TypeOK, UnlockVerify, Enter, AccountCoherent, stored
<1>4. ASSUME NEW p \in Passwords, NEW new \in Passwords, ChangeVerify(c, p, new)
      PROVE LocalInv'
  <2>1. TypeOK'
    BY <1>4, AskType DEF LocalInv, TypeOK, ChangeVerify, Enter, Steps, Kinds, Opt, stored
  <2>2. ReqOK(c)'
    BY <1>4 DEF LocalInv, TypeOK, ChangeVerify, Enter, ReqOK, Ask
  <2>. QED
    BY <1>4, <2>1, <2>2, OthersLocal
    DEF LocalInv, TypeOK, ChangeVerify, Enter, AccountCoherent, stored
<1>5. ASSUME NEW s \in Slots, AskRead(c, s) PROVE LocalInv'
  <2>1. TypeOK'
    BY <1>5, AskType DEF LocalInv, TypeOK, AskRead, Enter, Steps, Kinds, Opt, stored
  <2>2. ReqOK(c)'
    BY <1>5 DEF LocalInv, TypeOK, AskRead, Enter, ReqOK, Ask
  <2>. QED
    BY <1>5, <2>1, <2>2, OthersLocal
    DEF LocalInv, TypeOK, AskRead, Enter, AccountCoherent, stored
<1>6. ASSUME NEW s \in Slots, AskDelete(c, s) PROVE LocalInv'
  <2>1. TypeOK'
    BY <1>6, AskType DEF LocalInv, TypeOK, AskDelete, Enter, Steps, Kinds, Opt, stored
  <2>2. ReqOK(c)'
    BY <1>6 DEF LocalInv, TypeOK, AskDelete, Enter, ReqOK, Ask
  <2>. QED
    BY <1>6, <2>1, <2>2, OthersLocal
    DEF LocalInv, TypeOK, AskDelete, Enter, AccountCoherent, stored
<1>7. ASSUME NEW s \in Slots, NEW v \in Values, AskSave(c, s, v) PROVE LocalInv'
  <2>1. TypeOK'
    BY <1>7, AskType DEF LocalInv, TypeOK, AskSave, Enter, Steps, Kinds, Opt, stored
  <2>2. ReqOK(c)'
    BY <1>7 DEF LocalInv, TypeOK, AskSave, Enter, ReqOK, Ask
  <2>. QED
    BY <1>7, <2>1, <2>2, OthersLocal
    DEF LocalInv, TypeOK, AskSave, Enter, AccountCoherent, stored
<1>. QED BY <1>1, <1>2, <1>3, <1>4, <1>5, <1>6, <1>7 DEF Begin

LEMMA ContinueLocal ==
  ASSUME LocalInv, NEW c \in Clients, Continue(c)
  PROVE  LocalInv'
<1>0. TypeOK /\ AccountCoherent /\ ReqOK(c)
  BY DEF LocalInv
<1>1. CASE Bootstrap(c)
  <2>1. CASE account = None /\ vault = None
    <3>1. /\ account' = req[c].pw /\ vault' = key[c] /\ Goto(c, "install")
          /\ UNCHANGED <<creds, session, up, sealer, key, snap>>
      BY <1>1, <2>1 DEF Bootstrap
    <3>2. req[c].kind = "setup" /\ req[c].pw \in Passwords /\ key[c] \in Keys
          /\ key[c].pw = req[c].pw
      BY <1>0, <1>1 DEF Bootstrap, ReqOK
    <3>3. TypeOK'
      BY <1>0, <3>1, <3>2 DEF TypeOK, Goto, Steps, Opt
    <3>4. ReqOK(c)'
      BY <1>0, <3>1, <3>2 DEF TypeOK, Goto, ReqOK
    <3>5. AccountCoherent'
      BY <3>1, <3>2, NoneIsNothing DEF AccountCoherent
    <3>. QED BY <1>0, <3>1, <3>3, <3>4, <3>5, OthersLocal DEF TypeOK, Goto
  <2>2. CASE ~(account = None /\ vault = None)
    BY <1>0, <1>1, <2>2, EndLocal DEF Bootstrap, TypeOK, AccountCoherent
  <2>. QED BY <2>1, <2>2
<1>2. CASE ReadVault(c)
  <2>1. CASE vault # None /\ vault = DeriveKey(req[c].pw, vault.salt)
    <3>1. /\ key' = [key EXCEPT ![c] = vault] /\ Goto(c, "install")
          /\ UNCHANGED <<stored, session, up, sealer, snap>>
      BY <1>2, <2>1 DEF ReadVault
    <3>2. vault \in Keys /\ req[c].kind \in {"login", "unlock"}
      BY <1>0, <1>2, <2>1 DEF ReadVault, TypeOK, Opt, ReqOK
    <3>3. TypeOK'
      BY <1>0, <3>1, <3>2 DEF TypeOK, Goto, Steps, Opt, stored
    <3>4. ReqOK(c)'
      BY <1>0, <3>1, <3>2 DEF TypeOK, Goto, ReqOK
    <3>. QED
      BY <1>0, <3>1, <3>3, <3>4, OthersLocal DEF TypeOK, Goto, AccountCoherent, stored
  <2>2. CASE ~(vault # None /\ vault = DeriveKey(req[c].pw, vault.salt))
    BY <1>0, <1>2, <2>2, EndLocal DEF ReadVault, TypeOK, AccountCoherent, stored
  <2>. QED BY <2>1, <2>2
<1>3. CASE InstallKey(c)
  <2>0. /\ req[c].kind \in {"setup", "login", "unlock", "change"} /\ key[c] \in Keys
        /\ sealer' = key[c] /\ UNCHANGED <<stored, session, up>>
    BY <1>0, <1>3 DEF InstallKey, ReqOK
  <2>1. CASE req[c].kind \in {"setup", "login"}
    <3>1. Goto(c, "issue") /\ UNCHANGED <<key, snap>>
      BY <1>3, <2>1 DEF InstallKey
    <3>2. TypeOK'
      BY <1>0, <2>0, <3>1 DEF TypeOK, Goto, Steps, Opt, stored
    <3>3. ReqOK(c)'
      BY <1>0, <2>0, <2>1, <3>1 DEF TypeOK, Goto, ReqOK
    <3>. QED
      BY <1>0, <2>0, <3>1, <3>2, <3>3, OthersLocal DEF TypeOK, Goto, AccountCoherent, stored
  <2>2. CASE req[c].kind = "change"
    <3>1. Goto(c, "kick") /\ UNCHANGED <<key, snap>>
      BY <1>3, <2>2 DEF InstallKey
    <3>2. TypeOK'
      BY <1>0, <2>0, <3>1 DEF TypeOK, Goto, Steps, Opt, stored
    <3>3. ReqOK(c)'
      BY <1>0, <2>0, <2>2, <3>1 DEF TypeOK, Goto, ReqOK
    <3>. QED
      BY <1>0, <2>0, <3>1, <3>2, <3>3, OthersLocal DEF TypeOK, Goto, AccountCoherent, stored
  <2>3. CASE req[c].kind = "unlock"
    <3>1. End(c)
      BY <1>3, <2>3 DEF InstallKey
    <3>. QED
      BY <1>0, <2>0, <3>1, EndLocal DEF TypeOK, Opt, AccountCoherent, stored
  <2>. QED BY <2>0, <2>1, <2>2, <2>3
<1>4. CASE Issue(c)
  BY <1>0, <1>4, EndLocal DEF Issue, TypeOK, ReqOK, Opt, AccountCoherent, stored
<1>5. CASE TakeSealer(c)
  <2>1. CASE sealer = None
    BY <1>0, <1>5, <2>1, EndLocal DEF TakeSealer, TypeOK, AccountCoherent, stored
  <2>2. CASE sealer # None
    <3>1. /\ key' = [key EXCEPT ![c] = sealer]
          /\ \/ req[c].kind = "change" /\ Goto(c, "snapshot")
             \/ req[c].kind = "save" /\ Goto(c, "store")
             \/ req[c].kind = "read" /\ Goto(c, "fetch")
          /\ UNCHANGED <<stored, session, up, sealer, snap>>
      BY <1>5, <2>2 DEF TakeSealer
    <3>2. sealer \in Keys /\ req[c].kind \in {"change", "save", "read"} /\ pc[c] = "sealer"
      BY <1>0, <1>5, <2>2 DEF TakeSealer, TypeOK, Opt, ReqOK
    <3>3. TypeOK'
      BY <1>0, <3>1, <3>2 DEF TypeOK, Goto, Steps, Opt, stored
    <3>4. ReqOK(c)'
      BY <1>0, <3>1, <3>2 DEF TypeOK, Goto, ReqOK
    <3>. QED
      BY <1>0, <3>1, <3>3, <3>4, OthersLocal DEF TypeOK, Goto, AccountCoherent, stored
  <2>. QED BY <2>1, <2>2
<1>6. CASE Snapshot(c)
  <2>1. CASE \E s \in Slots : creds[s] # None /\ ~Opens(key[c], s, creds[s])
    BY <1>0, <1>6, <2>1, EndLocal DEF Snapshot, TypeOK, AccountCoherent, stored
  <2>2. CASE ~\E s \in Slots : creds[s] # None /\ ~Opens(key[c], s, creds[s])
    <3>1. PICK salt \in Salts :
            /\ key' = [key EXCEPT ![c] = DeriveKey(req[c].new, salt)]
            /\ snap' = [snap EXCEPT ![c] = Resealed(DeriveKey(req[c].new, salt), creds)]
            /\ Goto(c, "rekey")
      BY <1>6, <2>2, FreshSaltsAreSalts DEF Snapshot
    <3>2. req[c].kind = "change" /\ req[c].new \in Passwords
      BY <1>0, <1>6 DEF Snapshot, ReqOK
    <3>3. /\ DeriveKey(req[c].new, salt) \in Keys
          /\ DeriveKey(req[c].new, salt).pw = req[c].new
          /\ Resealed(DeriveKey(req[c].new, salt), creds) \in [Slots -> Opt(Blobs)]
      BY <1>0, <3>2, DeriveKeyType, ResealedType DEF TypeOK
    <3>4. UNCHANGED <<stored, session, up, sealer>>
      BY <1>6 DEF Snapshot
    <3>5. TypeOK'
      BY <1>0, <3>1, <3>2, <3>3, <3>4 DEF TypeOK, Goto, Steps, Opt, stored
    <3>6. ReqOK(c)'
      BY <1>0, <3>1, <3>2, <3>3 DEF TypeOK, Goto, ReqOK
    <3>. QED
      BY <1>0, <3>1, <3>4, <3>5, <3>6, OthersLocal DEF TypeOK, Goto, AccountCoherent, stored
  <2>. QED BY <2>1, <2>2
<1>7. CASE Rekey(c)
  <2>1. req[c].kind = "change" /\ req[c].new \in Passwords /\ key[c] \in Keys
        /\ key[c].pw = req[c].new
    BY <1>0, <1>7 DEF Rekey, ReqOK
  <2>2. TypeOK'
    BY <1>0, <1>7, <2>1 DEF Rekey, TypeOK, Goto, Steps, Opt
  <2>3. ReqOK(c)'
    BY <1>0, <1>7, <2>1 DEF Rekey, TypeOK, Goto, ReqOK
  <2>4. AccountCoherent'
    BY <1>0, <1>7, <2>1, NoneIsNothing DEF Rekey, AccountCoherent
  <2>. QED BY <1>0, <1>7, <2>2, <2>3, <2>4, OthersLocal DEF Rekey, TypeOK, Goto
<1>8. CASE Kick(c)
  BY <1>0, <1>8, EndLocal DEF Kick, TypeOK, Opt, AccountCoherent, stored
<1>9. CASE Store(c)
  <2>1. Seal(key[c], req[c].slot, req[c].val) \in Blobs
    BY <1>0, <1>9, SealType DEF Store, ReqOK
  <2>. QED
    BY <1>0, <1>9, <2>1, EndLocal DEF Store, TypeOK, Opt, AccountCoherent
<1>10. CASE Drop(c)
  BY <1>0, <1>10, EndLocal DEF Drop, TypeOK, Opt, AccountCoherent
<1>11. CASE Fetch(c)
  BY <1>0, <1>11, EndLocal DEF Fetch, TypeOK, AccountCoherent, stored
<1>. QED
  BY <1>1, <1>2, <1>3, <1>4, <1>5, <1>6, <1>7, <1>8, <1>9, <1>10, <1>11 DEF Continue

LEMMA NextLocal == LocalInv /\ [Next]_vars => LocalInv'
<1>. SUFFICES ASSUME LocalInv, [Next]_vars PROVE LocalInv'
  OBVIOUS
<1>0. TypeOK /\ AccountCoherent
  BY DEF LocalInv
<1>1. ASSUME NEW c \in Clients, Logout(c) PROVE LocalInv'
  BY <1>0, <1>1 DEF LocalInv, TypeOK, Logout, AccountCoherent, ReqOK, Opt, stored, locals
<1>2. ASSUME NEW c \in Clients, Fail(c) PROVE LocalInv'
  BY <1>0, <1>2, EndLocal DEF Fail, TypeOK, AccountCoherent, stored
<1>3. CASE Lock
  BY <1>0, <1>3 DEF LocalInv, TypeOK, Lock, AccountCoherent, ReqOK, Opt, stored, locals
<1>4. CASE Crash
  BY <1>0, <1>4, NoReqType DEF LocalInv, TypeOK, Crash, AccountCoherent, ReqOK, Opt, Steps, stored
<1>5. CASE Start
  BY <1>0, <1>5 DEF LocalInv, TypeOK, Start, AccountCoherent, ReqOK, stored, locals
<1>6. CASE Reset
  BY <1>0, <1>6, NoReqType DEF LocalInv, TypeOK, Reset, AccountCoherent, ReqOK, Opt, locals
<1>7. CASE UNCHANGED vars
  BY <1>0, <1>7 DEF LocalInv, TypeOK, AccountCoherent, ReqOK, vars
<1>. QED
  BY <1>1, <1>2, <1>3, <1>4, <1>5, <1>6, <1>7, BeginLocal, ContinueLocal DEF Next

LEMMA LocalAlways == Spec => []LocalInv
BY LocalInit, NextLocal, PTL DEF Spec

\* Every row, key and request keeps its type: a credential row is never
\* anything but a sealed blob.
THEOREM TypeCorrect == Spec => []TypeOK
<1>1. LocalInv => TypeOK BY DEF LocalInv
<1>. QED BY <1>1, LocalAlways, PTL

\* Whatever overlaps and whatever is interrupted, the account and the vault
\* come, change and go together.
THEOREM AccountCoherence == Spec => []AccountCoherent
<1>1. LocalInv => AccountCoherent BY DEF LocalInv
<1>. QED BY <1>1, LocalAlways, PTL

-----------------------------------------------------------------------------
(* Under the owner's discipline: CarefulInv.                               *)

LEMMA CarefulInit == Init => CarefulInv
BY DEF Init, CarefulInv, Solo, Down, Held, CredentialsOpen, SealerCurrent, Busy, NoBlobs

\* What a request that may begin finds: a change begins alone, and nothing
\* begins beside one.
LEMMA BeginSolo ==
  ASSUME Careful, LocalInv, Solo, NEW c \in Clients, NEW kind \in Kinds,
         MayBegin(c, kind),
         req'[c].kind = kind,
         \A d \in Clients \ {c} : pc'[d] = pc[d] /\ req'[d] = req[d]
  PROVE  Solo'
<1>1. \A d \in Clients : Busy(d) => req[d].kind # "change"
  BY DEF Careful, MayBegin
<1>2. kind = "change" => \A d \in Clients : ~Busy(d)
  BY DEF Careful, MayBegin
<1>. QED BY <1>1, <1>2 DEF Solo, Busy

\* A request that merely begins, at a step that uses no key yet.
LEMMA BeginFrame ==
  ASSUME Careful, LocalInv, CarefulInv, NEW c \in Clients, NEW kind \in Kinds,
         MayBegin(c, kind),
         kind = "change" => account # None,
         UNCHANGED <<stored, up, sealer, snap>>,
         pc'[c] \in {"bootstrap", "vault", "sealer", "drop"},
         req'[c].kind = kind,
         \A d \in Clients \ {c} : pc'[d] = pc[d] /\ req'[d] = req[d] /\ key'[d] = key[d]
  PROVE  CarefulInv'
<1>0. TypeOK /\ AccountCoherent /\ Solo /\ Down /\ Held /\ CredentialsOpen /\ SealerCurrent
  BY DEF LocalInv, CarefulInv
<1>1. Solo'
  BY <1>0, BeginSolo
<1>2. Down'
  BY <1>0 DEF MayBegin, Down
<1>3. Held'
  <2>. SUFFICES ASSUME NEW d \in Clients
       PROVE  (/\ pc[d] \in {"install", "store", "fetch"} => vault # None /\ key[d] = vault
               /\ Busy(d) /\ req[d].kind = "change" => vault # None
               /\ pc[d] = "rekey" => snap[d] = Resealed(key[d], creds))'
    BY DEF Held
  <2>1. CASE d = c
    BY <1>0, <2>1 DEF AccountCoherent, stored
  <2>2. CASE d # c
    BY <1>0, <2>2 DEF Held, Busy, stored, Resealed
  <2>. QED BY <2>1, <2>2
<1>4. CredentialsOpen'
  BY <1>0 DEF CredentialsOpen, stored
<1>5. SealerCurrent'
  <2>. SUFFICES ASSUME sealer' # None, sealer' # vault'
       PROVE  \E d \in Clients : Rekeyed(d)'
    BY DEF SealerCurrent
  <2>1. PICK d \in Clients : Rekeyed(d)
    BY <1>0 DEF SealerCurrent, stored
  <2>2. d # c
    BY <2>1 DEF Rekeyed, MayBegin, Busy
  <2>. QED BY <2>1, <2>2 DEF Rekeyed
<1>. QED BY <1>1, <1>2, <1>3, <1>4, <1>5 DEF CarefulInv

LEMMA BeginCareful ==
  ASSUME Careful, LocalInv, CarefulInv, NEW c \in Clients, Begin(c)
  PROVE  CarefulInv'
<1>. DEFINE Began(kind, step) ==
              /\ pc'[c] = step
              /\ req'[c].kind = kind
              /\ \A d \in Clients \ {c} :
                   pc'[d] = pc[d] /\ req'[d] = req[d] /\ key'[d] = key[d]
<1>0. TypeOK
  BY DEF LocalInv
<1>1. ASSUME NEW p \in Passwords, SetupCheck(c, p)
      PROVE CarefulInv'
  <2>1. Began("setup", "bootstrap")
    BY <1>0, <1>1 DEF SetupCheck, TypeOK, Enter, Ask
  <2>. QED BY <1>1, <2>1, BeginFrame DEF SetupCheck, Kinds
<1>2. ASSUME NEW p \in Passwords, LoginVerify(c, p)
      PROVE CarefulInv'
  <2>1. Began("login", "vault")
    BY <1>0, <1>2 DEF LoginVerify, TypeOK, Enter, Ask
  <2>. QED BY <1>2, <2>1, BeginFrame DEF LoginVerify, Kinds
<1>3. ASSUME NEW p \in Passwords, UnlockVerify(c, p)
      PROVE CarefulInv'
  <2>1. Began("unlock", "vault")
    BY <1>0, <1>3 DEF UnlockVerify, TypeOK, Enter, Ask
  <2>. QED BY <1>3, <2>1, BeginFrame DEF UnlockVerify, Kinds
<1>4. ASSUME NEW p \in Passwords, NEW new \in Passwords, ChangeVerify(c, p, new)
      PROVE CarefulInv'
  <2>1. Began("change", "sealer")
    BY <1>0, <1>4 DEF ChangeVerify, TypeOK, Enter, Ask
  <2>. QED BY <1>4, <2>1, BeginFrame DEF ChangeVerify, Admitted, Kinds
<1>5. ASSUME NEW s \in Slots, AskRead(c, s)
      PROVE CarefulInv'
  <2>1. Began("read", "sealer")
    BY <1>0, <1>5 DEF AskRead, TypeOK, Enter, Ask
  <2>. QED BY <1>5, <2>1, BeginFrame DEF AskRead, Kinds
<1>6. ASSUME NEW s \in Slots, AskDelete(c, s)
      PROVE CarefulInv'
  <2>1. Began("delete", "drop")
    BY <1>0, <1>6 DEF AskDelete, TypeOK, Enter, Ask
  <2>. QED BY <1>6, <2>1, BeginFrame DEF AskDelete, Kinds
<1>7. ASSUME NEW s \in Slots, NEW v \in Values, AskSave(c, s, v)
      PROVE CarefulInv'
  <2>1. Began("save", "sealer")
    BY <1>0, <1>7 DEF AskSave, TypeOK, Enter, Ask
  <2>. QED BY <1>7, <2>1, BeginFrame DEF AskSave, Kinds
<1>. QED BY <1>1, <1>2, <1>3, <1>4, <1>5, <1>6, <1>7 DEF Begin

\* A request that ends without having touched what is stored or live.
LEMMA EndFrame ==
  ASSUME LocalInv, CarefulInv, NEW c \in Clients, End(c), Busy(c),
         UNCHANGED <<stored, up, sealer>>, ~Rekeyed(c)
  PROVE  CarefulInv'
<1>0. TypeOK /\ Solo /\ Down /\ Held /\ CredentialsOpen /\ SealerCurrent
  BY DEF LocalInv, CarefulInv
<1>1. /\ pc'[c] = "idle"
      /\ \A d \in Clients \ {c} :
           pc'[d] = pc[d] /\ req'[d] = req[d] /\ key'[d] = key[d] /\ snap'[d] = snap[d]
  BY <1>0 DEF TypeOK, End
<1>2. Solo'
  BY <1>0, <1>1 DEF Solo, Busy
<1>3. Down'
  BY <1>0, <1>1 DEF Down, Busy
<1>4. Held'
  BY <1>0, <1>1 DEF Held, Busy, stored
<1>5. CredentialsOpen'
  BY <1>0 DEF CredentialsOpen, stored
<1>6. SealerCurrent'
  BY <1>0, <1>1 DEF SealerCurrent, Rekeyed, stored
<1>. QED BY <1>2, <1>3, <1>4, <1>5, <1>6 DEF CarefulInv

\* A request that moves on keeps its kind, and the others where they were.
LEMMA GotoFrame ==
  ASSUME LocalInv, CarefulInv, NEW c \in Clients, NEW step \in Steps, Goto(c, step),
         Busy(c), up' = up, sealer' = sealer \/ up
  PROVE  /\ Solo'
         /\ Down'
         /\ pc'[c] = step
         /\ req' = req
         /\ \A d \in Clients \ {c} : pc'[d] = pc[d]
<1>1. TypeOK /\ Solo /\ Down
  BY DEF LocalInv, CarefulInv
<1>2. pc'[c] = step /\ req' = req /\ \A d \in Clients \ {c} : pc'[d] = pc[d]
  BY <1>1 DEF TypeOK, Goto
<1>3. Solo'
  BY <1>1, <1>2 DEF Solo, Busy
<1>4. Down'
  BY <1>1, <1>2 DEF Down
<1>. QED BY <1>2, <1>3, <1>4

LEMMA BootstrapCareful ==
  ASSUME LocalInv, CarefulInv, NEW c \in Clients, Bootstrap(c)
  PROVE  CarefulInv'
<1>0. TypeOK /\ ReqOK(c) /\ Held /\ CredentialsOpen /\ SealerCurrent /\ pc[c] = "bootstrap"
  BY DEF LocalInv, CarefulInv, Bootstrap
<1>1. CASE account = None /\ vault = None
  <2>1. /\ vault' = key[c] /\ key[c] \in Keys /\ key[c] # None /\ req[c].kind = "setup"
        /\ Goto(c, "install")
        /\ UNCHANGED <<creds, session, up, sealer, key, snap>>
    BY <1>0, <1>1, NoneIsNothing DEF Bootstrap, ReqOK
  <2>2. Solo' /\ Down' /\ pc'[c] = "install" /\ req' = req
        /\ \A d \in Clients \ {c} : pc'[d] = pc[d]
    BY <1>0, <2>1, GotoFrame DEF Steps, Busy
  <2>3. \A d \in Clients : /\ pc[d] \notin {"install", "store", "fetch", "rekey"}
                           /\ Busy(d) => req[d].kind # "change"
    BY <1>0, <1>1 DEF Held, LocalInv, ReqOK, Busy
  <2>4. Held'
    BY <2>1, <2>2, <2>3 DEF Held, Busy
  <2>5. \A s \in Slots : creds[s] = None
    BY <1>0, <1>1 DEF CredentialsOpen
  <2>6. CredentialsOpen'
    BY <2>1, <2>5 DEF CredentialsOpen
  <2>7. sealer = None
    BY <1>0, <1>1, <2>3 DEF SealerCurrent, Rekeyed
  <2>8. SealerCurrent'
    BY <2>1, <2>7 DEF SealerCurrent
  <2>. QED BY <2>2, <2>4, <2>6, <2>8 DEF CarefulInv
<1>2. CASE ~(account = None /\ vault = None)
  BY <1>0, <1>2, EndFrame DEF Bootstrap, Busy, Rekeyed, stored
<1>. QED BY <1>1, <1>2

LEMMA ReadVaultCareful ==
  ASSUME LocalInv, CarefulInv, NEW c \in Clients, ReadVault(c)
  PROVE  CarefulInv'
<1>0. TypeOK /\ ReqOK(c) /\ Held /\ CredentialsOpen /\ SealerCurrent /\ pc[c] = "vault"
  BY DEF LocalInv, CarefulInv, ReadVault
<1>1. CASE vault # None /\ vault = DeriveKey(req[c].pw, vault.salt)
  <2>1. /\ key' = [key EXCEPT ![c] = vault] /\ Goto(c, "install")
        /\ UNCHANGED <<stored, session, up, sealer, snap>>
    BY <1>1 DEF ReadVault
  <2>2. Solo' /\ Down' /\ pc'[c] = "install" /\ req' = req
        /\ \A d \in Clients \ {c} : pc'[d] = pc[d]
    BY <1>0, <2>1, GotoFrame DEF Steps, Busy
  <2>3. key'[c] = vault /\ \A d \in Clients \ {c} : key'[d] = key[d]
    BY <1>0, <2>1 DEF TypeOK
  <2>4. Held'
    BY <1>0, <1>1, <2>1, <2>2, <2>3 DEF Held, Busy, ReqOK, stored
  <2>5. CredentialsOpen'
    BY <1>0, <2>1 DEF CredentialsOpen, stored
  <2>6. SealerCurrent'
    BY <1>0, <2>1, <2>2 DEF SealerCurrent, Rekeyed, stored
  <2>. QED BY <2>2, <2>4, <2>5, <2>6 DEF CarefulInv
<1>2. CASE ~(vault # None /\ vault = DeriveKey(req[c].pw, vault.salt))
  BY <1>0, <1>2, EndFrame DEF ReadVault, Busy, Rekeyed
<1>. QED BY <1>1, <1>2

LEMMA InstallKeyCareful ==
  ASSUME LocalInv, CarefulInv, NEW c \in Clients, InstallKey(c)
  PROVE  CarefulInv'
<1>0. TypeOK /\ Solo /\ Down /\ Held /\ CredentialsOpen /\ pc[c] = "install"
  BY DEF LocalInv, CarefulInv, InstallKey
<1>1. sealer' = key[c] /\ key[c] = vault /\ vault # None /\ UNCHANGED <<stored, session, up>>
  BY <1>0 DEF Held, InstallKey
<1>2. up
  BY <1>0 DEF Down, Busy
<1>3. /\ pc'[c] \in {"issue", "kick", "idle"}
      /\ pc'[c] # "idle" => req'[c] = req[c]
      /\ \A d \in Clients \ {c} :
           pc'[d] = pc[d] /\ req'[d] = req[d] /\ key'[d] = key[d] /\ snap'[d] = snap[d]
  BY <1>0 DEF InstallKey, Goto, End, TypeOK
<1>4. Solo'
  BY <1>0, <1>3 DEF Solo, Busy
<1>5. Down'
  BY <1>1, <1>2 DEF Down
<1>6. Held'
  BY <1>0, <1>1, <1>3 DEF Held, Busy, stored
<1>7. CredentialsOpen' /\ SealerCurrent'
  BY <1>0, <1>1 DEF CredentialsOpen, SealerCurrent, stored
<1>. QED BY <1>4, <1>5, <1>6, <1>7 DEF CarefulInv

LEMMA TakeSealerCareful ==
  ASSUME LocalInv, CarefulInv, NEW c \in Clients, TakeSealer(c)
  PROVE  CarefulInv'
<1>0. TypeOK /\ ReqOK(c) /\ Solo /\ Held /\ CredentialsOpen /\ SealerCurrent /\ pc[c] = "sealer"
  BY DEF LocalInv, CarefulInv, TakeSealer
<1>1. CASE sealer = None
  BY <1>0, <1>1, EndFrame DEF TakeSealer, Busy, Rekeyed
<1>2. CASE sealer # None
  <2>1. PICK step \in {"snapshot", "store", "fetch"} :
          /\ step = "snapshot" <=> req[c].kind = "change"
          /\ key' = [key EXCEPT ![c] = sealer] /\ Goto(c, step)
          /\ UNCHANGED <<stored, session, up, sealer, snap>>
    BY <1>0, <1>2 DEF TakeSealer
  <2>2. Solo' /\ Down' /\ pc'[c] = step /\ req' = req
        /\ \A d \in Clients \ {c} : pc'[d] = pc[d]
    BY <1>0, <2>1, GotoFrame DEF Steps, Busy
  <2>3. key'[c] = sealer /\ \A d \in Clients \ {c} : key'[d] = key[d]
    BY <1>0, <2>1 DEF TypeOK
  <2>4. \A d \in Clients : ~Rekeyed(d)
    <3>1. ASSUME NEW d \in Clients, Rekeyed(d) PROVE FALSE
      BY <1>0, <3>1 DEF Rekeyed, Solo, Busy
    <3>. QED BY <3>1
  <2>5. sealer = vault /\ vault # None
    BY <1>0, <1>2, <2>4 DEF SealerCurrent
  <2>6. Held'
    BY <1>0, <2>1, <2>2, <2>3, <2>5 DEF Held, Busy, stored
  <2>7. CredentialsOpen' /\ SealerCurrent'
    BY <1>0, <2>1, <2>5 DEF CredentialsOpen, SealerCurrent, stored
  <2>. QED BY <2>2, <2>6, <2>7 DEF CarefulInv
<1>. QED BY <1>1, <1>2

LEMMA SnapshotCareful ==
  ASSUME LocalInv, CarefulInv, NEW c \in Clients, Snapshot(c)
  PROVE  CarefulInv'
<1>0. TypeOK /\ ReqOK(c) /\ Held /\ CredentialsOpen /\ SealerCurrent /\ pc[c] = "snapshot"
  BY DEF LocalInv, CarefulInv, Snapshot
<1>1. CASE \E s \in Slots : creds[s] # None /\ ~Opens(key[c], s, creds[s])
  BY <1>0, <1>1, EndFrame DEF Snapshot, Busy, Rekeyed
<1>2. CASE ~\E s \in Slots : creds[s] # None /\ ~Opens(key[c], s, creds[s])
  <2>1. PICK salt \in Salts :
          /\ key' = [key EXCEPT ![c] = DeriveKey(req[c].new, salt)]
          /\ snap' = [snap EXCEPT ![c] = Resealed(DeriveKey(req[c].new, salt), creds)]
          /\ Goto(c, "rekey")
          /\ UNCHANGED <<stored, session, up, sealer>>
    BY <1>2, FreshSaltsAreSalts DEF Snapshot
  <2>2. Solo' /\ Down' /\ pc'[c] = "rekey" /\ req' = req
        /\ \A d \in Clients \ {c} : pc'[d] = pc[d]
    BY <1>0, <2>1, GotoFrame DEF Steps, Busy
  <2>3. /\ snap'[c] = Resealed(key'[c], creds')
        /\ \A d \in Clients \ {c} : key'[d] = key[d] /\ snap'[d] = snap[d]
        /\ creds' = creds /\ vault' = vault
    BY <1>0, <2>1 DEF TypeOK, stored
  <2>4. req[c].kind = "change" /\ vault # None
    BY <1>0 DEF ReqOK, Held, Busy
  <2>5. Held'
    <3>. SUFFICES ASSUME NEW d \in Clients
         PROVE  (/\ pc[d] \in {"install", "store", "fetch"} => vault # None /\ key[d] = vault
                 /\ Busy(d) /\ req[d].kind = "change" => vault # None
                 /\ pc[d] = "rekey" => snap[d] = Resealed(key[d], creds))'
      BY DEF Held
    <3>1. CASE d = c
      BY <2>2, <2>3, <2>4, <3>1
    <3>2. CASE d # c
      BY <1>0, <2>2, <2>3, <2>4, <3>2 DEF Held, Busy, Resealed
    <3>. QED BY <3>1, <3>2
  <2>6. CredentialsOpen' /\ SealerCurrent'
    BY <1>0, <2>1, <2>2, <2>3 DEF CredentialsOpen, SealerCurrent, Rekeyed
  <2>. QED BY <2>2, <2>5, <2>6 DEF CarefulInv
<1>. QED BY <1>1, <1>2

LEMMA RekeyCareful ==
  ASSUME LocalInv, CarefulInv, NEW c \in Clients, Rekey(c)
  PROVE  CarefulInv'
<1>0. TypeOK /\ ReqOK(c) /\ Solo /\ Held /\ CredentialsOpen /\ pc[c] = "rekey"
  BY DEF LocalInv, CarefulInv, Rekey
<1>1. req[c].kind = "change" /\ vault # None /\ key[c] \in Keys /\ key[c] # None
  BY <1>0, NoneIsNothing DEF ReqOK, Held, Busy
<1>2. /\ vault' = key[c] /\ creds' = Resealed(key[c], creds)
      /\ Goto(c, "install") /\ UNCHANGED <<session, up, sealer, key, snap>>
  BY <1>0, <1>1 DEF Rekey, Held
<1>3. Solo' /\ Down' /\ pc'[c] = "install" /\ req' = req
      /\ \A d \in Clients \ {c} : pc'[d] = pc[d]
  BY <1>0, <1>2, GotoFrame DEF Steps, Busy
<1>4. \A d \in Clients \ {c} : pc[d] = "idle"
  BY <1>0, <1>1 DEF Solo, Busy
<1>5. Held'
  BY <1>1, <1>2, <1>3, <1>4 DEF Held, Busy
<1>6. CredentialsOpen'
  BY <1>0, <1>1, <1>2, ResealedType DEF TypeOK, CredentialsOpen
<1>7. SealerCurrent'
  BY <1>1, <1>3 DEF SealerCurrent, Rekeyed
<1>. QED BY <1>3, <1>5, <1>6, <1>7 DEF CarefulInv

\* The last step of a save or a delete: no password change is near.
LEMMA WriteSlotCareful ==
  ASSUME LocalInv, CarefulInv, NEW c \in Clients, NEW s \in Slots, NEW b \in Opt(Blobs),
         Busy(c), req[c].kind # "change", End(c),
         creds' = [creds EXCEPT ![s] = b],
         b # None => vault # None /\ Opens(vault, s, b),
         UNCHANGED <<account, vault, up, sealer>>
  PROVE  CarefulInv'
<1>0. TypeOK /\ Solo /\ Down /\ Held /\ CredentialsOpen /\ SealerCurrent
  BY DEF LocalInv, CarefulInv
<1>1. /\ pc'[c] = "idle"
      /\ \A d \in Clients \ {c} :
           pc'[d] = pc[d] /\ req'[d] = req[d] /\ key'[d] = key[d] /\ snap'[d] = snap[d]
  BY <1>0 DEF TypeOK, End
<1>2. \A d \in Clients \ {c} : Busy(d) => req[d].kind # "change"
  BY <1>0 DEF Solo
<1>3. \A d \in Clients : pc[d] # "rekey"
  BY <1>2 DEF LocalInv, ReqOK, Busy
<1>4. Solo' /\ Down'
  BY <1>0, <1>1 DEF Solo, Down, Busy
<1>5. Held'
  BY <1>0, <1>1, <1>3 DEF Held, Busy
<1>6. CredentialsOpen'
  BY <1>0 DEF TypeOK, CredentialsOpen, Opens
<1>7. SealerCurrent'
  BY <1>0, <1>1, <1>2 DEF SealerCurrent, Rekeyed, Busy
<1>. QED BY <1>4, <1>5, <1>6, <1>7 DEF CarefulInv

LEMMA ContinueCareful ==
  ASSUME LocalInv, CarefulInv, NEW c \in Clients, Continue(c)
  PROVE  CarefulInv'
<1>0. TypeOK /\ ReqOK(c) /\ Held
  BY DEF LocalInv, CarefulInv
<1>1. CASE Issue(c)
  BY <1>1, EndFrame DEF Issue, Busy, Rekeyed
<1>2. CASE Kick(c)
  BY <1>2, EndFrame DEF Kick, Busy, Rekeyed
<1>3. CASE Fetch(c)
  BY <1>3, EndFrame DEF Fetch, Busy, Rekeyed
<1>4. CASE Store(c)
  <2>1. /\ req[c].kind = "save" /\ req[c].slot \in Slots /\ req[c].val \in Values
        /\ key[c] \in Keys /\ key[c] = vault /\ vault # None /\ Busy(c)
    BY <1>0, <1>4 DEF Store, ReqOK, Held, Busy
  <2>2. /\ Seal(key[c], req[c].slot, req[c].val) \in Opt(Blobs)
        /\ Opens(vault, req[c].slot, Seal(key[c], req[c].slot, req[c].val))
    BY <2>1, SealType DEF Opt
  <2>. QED BY <1>4, <2>1, <2>2, WriteSlotCareful DEF Store
<1>5. CASE Drop(c)
  <2>1. req[c].kind = "delete" /\ req[c].slot \in Slots /\ Busy(c) /\ None \in Opt(Blobs)
    BY <1>0, <1>5 DEF Drop, ReqOK, Busy, Opt
  <2>. QED BY <1>5, <2>1, WriteSlotCareful DEF Drop
<1>. QED
  BY <1>1, <1>2, <1>3, <1>4, <1>5, BootstrapCareful, ReadVaultCareful, InstallKeyCareful,
     TakeSealerCareful, SnapshotCareful, RekeyCareful
  DEF Continue

LEMMA NextCareful == Careful /\ LocalInv /\ CarefulInv /\ [Next]_vars => CarefulInv'
<1>. SUFFICES ASSUME Careful, LocalInv, CarefulInv, [Next]_vars PROVE CarefulInv'
  OBVIOUS
<1>0. TypeOK /\ Solo /\ Down /\ Held /\ CredentialsOpen /\ SealerCurrent
  BY DEF LocalInv, CarefulInv
<1>1. ASSUME NEW c \in Clients, Logout(c) PROVE CarefulInv'
  BY <1>0, <1>1
  DEF Logout, CarefulInv, Solo, Down, Held, CredentialsOpen, SealerCurrent, Rekeyed, Busy,
      stored, locals
<1>2. ASSUME NEW c \in Clients, Fail(c) PROVE CarefulInv'
  BY <1>2, EndFrame DEF Fail, Busy, Rekeyed
<1>3. CASE Lock
  BY <1>0, <1>3
  DEF Lock, CarefulInv, Solo, Down, Held, CredentialsOpen, SealerCurrent, Busy, stored, locals
<1>4. CASE Crash
  BY <1>0, <1>4
  DEF Crash, CarefulInv, Solo, Down, Held, CredentialsOpen, SealerCurrent, Busy, stored
<1>5. CASE Start
  BY <1>0, <1>5
  DEF Start, CarefulInv, Solo, Down, Held, CredentialsOpen, SealerCurrent, Rekeyed, Busy,
      stored, locals
<1>6. CASE Reset
  <2>1. sealer = None /\ \A c \in Clients : pc[c] = "idle"
    BY <1>0, <1>6 DEF Careful, Reset, Down, Busy
  <2>. QED
    BY <1>0, <1>6, <2>1
    DEF Reset, CarefulInv, Solo, Down, Held, CredentialsOpen, SealerCurrent, Busy, locals,
        NoBlobs
<1>7. CASE UNCHANGED vars
  BY <1>0, <1>7
  DEF CarefulInv, Solo, Down, Held, CredentialsOpen, SealerCurrent, Rekeyed, Busy, vars
<1>. QED
  BY <1>1, <1>2, <1>3, <1>4, <1>5, <1>6, <1>7, BeginCareful, ContinueCareful DEF Next

LEMMA CarefulAlways == ASSUME Careful PROVE Spec => [](LocalInv /\ CarefulInv)
<1>1. Init => LocalInv /\ CarefulInv
  BY LocalInit, CarefulInit
<1>2. LocalInv /\ CarefulInv /\ [Next]_vars => LocalInv' /\ CarefulInv'
  BY NextLocal, NextCareful
<1>. QED BY <1>1, <1>2, PTL DEF Spec

\* With password changes alone and the panel stopped for a reset, no
\* interleaving, failure or crash leaves a stored credential unreadable.
THEOREM CredentialsStayReadable == ASSUME Careful PROVE Spec => []CredentialsOpen
<1>1. CarefulInv => CredentialsOpen BY DEF CarefulInv
<1>. QED BY <1>1, CarefulAlways, PTL

\* Under the same discipline the live key is the stored one's.
THEOREM SealerStaysCurrent == ASSUME Careful PROVE Spec => []SealerCurrent
<1>1. CarefulInv => SealerCurrent BY DEF CarefulInv
<1>. QED BY <1>1, CarefulAlways, PTL

\* Under the same discipline a read never fails on what is stored.
THEOREM ReadsStayOpen == ASSUME Careful PROVE Spec => []ReadsOpen
<1>1. LocalInv /\ CarefulInv => ReadsOpen
  BY DEF LocalInv, CarefulInv, Held, CredentialsOpen, ReadsOpen, ReqOK
<1>. QED BY <1>1, CarefulAlways, PTL

-----------------------------------------------------------------------------
(* The vault implements the keyring.                                       *)

\* What each slot's ciphertext holds, whichever key it needs.
Plain(blobs) == [s \in Slots |-> IF blobs[s] = None THEN None ELSE blobs[s].val]

LEMMA ReadableIsPlain == CredentialsOpen => Readable = Plain(creds)
BY DEF CredentialsOpen, Readable, Plain

LEMMA ReadableIsPlainNext == CredentialsOpen' => Readable' = Plain(creds')
BY DEF CredentialsOpen, Readable, Plain

LEMMA KeyringInit == Init => K!Init
BY DEF Init, K!Init, K!Empty, Readable, NoBlobs

LEMMA KeyringContinue ==
  ASSUME LocalInv, CarefulInv, CarefulInv', NEW c \in Clients, Continue(c)
  PROVE  [K!Next]_(K!vars)
<1>0. TypeOK /\ AccountCoherent /\ ReqOK(c) /\ Held
  BY DEF LocalInv, CarefulInv
<1>1. Readable = Plain(creds) /\ Readable' = Plain(creds')
  BY ReadableIsPlain, ReadableIsPlainNext DEF CarefulInv
<1>2. CASE UNCHANGED <<account, creds>>
  BY <1>1, <1>2 DEF K!vars
<1>3. CASE Bootstrap(c) /\ ~UNCHANGED <<account, creds>>
  <2>1. account = None /\ account' = req[c].pw /\ creds' = creds /\ req[c].pw \in Passwords
    BY <1>0, <1>3 DEF Bootstrap, ReqOK
  <2>. QED BY <1>1, <2>1 DEF K!Next, K!Claim
<1>4. CASE Rekey(c)
  <2>1. req[c].new \in Passwords /\ vault # None /\ key[c] \in Keys
    BY <1>0, <1>4 DEF Rekey, ReqOK, Held, Busy
  <2>2. account # None /\ account' = req[c].new /\ creds' = Resealed(key[c], creds)
    BY <1>0, <1>4, <2>1 DEF Rekey, AccountCoherent, Held
  <2>3. Plain(creds') = Plain(creds)
    BY <1>0, <2>1, <2>2, ResealedType DEF Plain, TypeOK
  <2>. QED BY <1>1, <2>1, <2>2, <2>3 DEF K!Next, K!Change
<1>5. CASE Store(c)
  <2>1. /\ req[c].slot \in Slots /\ req[c].val \in Values /\ key[c] \in Keys
        /\ vault # None /\ account' = account
        /\ creds' = [creds EXCEPT ![req[c].slot] = Seal(key[c], req[c].slot, req[c].val)]
    BY <1>0, <1>5 DEF Store, ReqOK, Held
  <2>2. /\ Seal(key[c], req[c].slot, req[c].val) # None
        /\ Seal(key[c], req[c].slot, req[c].val).val = req[c].val
    BY <2>1, SealType, NoneIsNothing
  <2>3. Plain(creds') = [Plain(creds) EXCEPT ![req[c].slot] = req[c].val]
    BY <1>0, <2>1, <2>2 DEF Plain, TypeOK
  <2>4. account # None
    BY <1>0, <2>1 DEF AccountCoherent
  <2>. QED BY <1>1, <2>1, <2>3, <2>4 DEF K!Next, K!Put
<1>6. CASE Drop(c)
  <2>1. /\ req[c].slot \in Slots /\ account' = account
        /\ creds' = [creds EXCEPT ![req[c].slot] = None]
    BY <1>0, <1>6 DEF Drop, ReqOK
  <2>2. Plain(creds') = [Plain(creds) EXCEPT ![req[c].slot] = None]
    BY <1>0, <2>1 DEF Plain, TypeOK
  <2>. QED BY <1>1, <2>1, <2>2 DEF K!Next, K!Erase
<1>. QED
  BY <1>2, <1>3, <1>4, <1>5, <1>6
  DEF Continue, ReadVault, InstallKey, Issue, TakeSealer, Snapshot, Kick, Fetch, stored

LEMMA KeyringNext ==
  ASSUME LocalInv, CarefulInv, CarefulInv', [Next]_vars
  PROVE  [K!Next]_(K!vars)
<1>1. Readable = Plain(creds) /\ Readable' = Plain(creds')
  BY ReadableIsPlain, ReadableIsPlainNext DEF CarefulInv
<1>2. CASE UNCHANGED <<account, creds>>
  BY <1>1, <1>2 DEF K!vars
<1>3. CASE Reset
  <2>1. account' = None /\ creds' = NoBlobs
    BY <1>3 DEF Reset
  <2>2. Plain(creds') = K!Empty
    BY <2>1 DEF Plain, NoBlobs, K!Empty
  <2>. QED BY <1>1, <2>1, <2>2 DEF K!Next, K!Wipe
<1>4. ASSUME NEW c \in Clients, Begin(c) PROVE UNCHANGED <<account, creds>>
  BY <1>4
  DEF Begin, SetupCheck, LoginVerify, UnlockVerify, ChangeVerify, AskRead, AskDelete, AskSave,
      stored
<1>. QED
  BY <1>2, <1>3, <1>4, KeyringContinue DEF Next, Logout, Fail, Lock, Crash, Start, stored, vars

\* For every number of browsers: with password changes alone and the panel
\* stopped for a reset, the owner sees nothing but a keyring.
THEOREM VaultIsKeyring == ASSUME Careful PROVE Spec => KeyringSpec
<1>1. LocalInv /\ CarefulInv /\ CarefulInv' /\ [Next]_vars => [K!Next]_(K!vars)
  BY KeyringNext
<1>. QED BY <1>1, KeyringInit, CarefulAlways, PTL DEF Spec, KeyringSpec, K!Spec
=============================================================================
