----------------------------- MODULE Relocation -----------------------------
(***************************************************************************)
(* Relocation through GitHub: the form that stores repository, target and  *)
(* credentials one statement at a time, the button that reads them back    *)
(* one at a time and asks GitHub for a workflow run (internal/web/sync.go, *)
(* internal/ghsync), and the settings table (internal/store/settings.go).  *)
(*                                                                         *)
(* Requests of several tabs interleave between any two statements; each    *)
(* may fail or be dropped at any of them.  GitHub, which is external,      *)
(* starts a run or does not; its answer may be lost, and a request whose   *)
(* sender has given up may still arrive.                                   *)
(***************************************************************************)
EXTENDS Integers, Sequences

CONSTANTS
  Values,      \* what a field may hold
  Bad,         \* the values no field's pattern accepts
  Blank,       \* an empty field, an absent row
  Default,     \* ghsync.DefaultWorkflowFile
  Secrets,     \* tokens and passwords
  Clear,       \* the mark that removes a credential
  Forms,       \* the submissions
  Savers,      \* requests that save
  Pressers,    \* requests that dispatch
  MaxSaves,    \* bound on the saves
  MaxPresses,  \* bound on the dispatches
  None

\* The order in which the settings are written, and read.
Keys == <<"owner", "repo", "workflow", "ref", "registry", "namespace">>

Names   == {"owner", "repo", "workflow", "ref", "registry", "namespace"}
Slots   == {"github_token", "acr_password"}
Fields  == [Names -> Values \cup {Blank}]
Creds   == [Slots -> Secrets \cup {Blank}]
Entries == [fields : Fields, creds : [Slots -> Secrets \cup {Blank, Clear}]]
Configs == [fields : Fields, creds : Creds]

\* A save in progress.  alone and goal are history: it met no other save, and
\* what it is to leave behind.
Saves == [form : Entries, at : 1 .. 8, alone : BOOLEAN, goal : Configs]

\* A dispatch.  base (history): what settled was when the button was pressed,
\* unless a save or a lock came since.
Presses ==
  [phase : {"idle", "reading", "calling"}, n : 0 .. MaxPresses, images : BOOLEAN,
   at : 1 .. 7, got : Fields, token : Secrets \cup {Blank},
   base : Configs \cup {None}]

ASSUME RelocationAssumption ==
  /\ Bad \subseteq Values
  /\ Default \in Values \ Bad
  /\ Blank \notin Values \cup Secrets
  /\ Clear \notin Secrets \cup {Blank}
  /\ Forms \subseteq Entries
  /\ MaxSaves \in Nat /\ MaxPresses \in Nat
  /\ None \notin Configs \cup Saves

VARIABLES
  settings,   \* the six settings
  creds,      \* the two credentials
  unlocked,   \* the vault has its key
  saving,     \* saving[s]: a save in progress, or None
  saves,      \* how many there were
  settled,    \* (history) what the last save left, if it ended and met no other
  press,      \* press[d]: a dispatch
  presses,    \* how many there were
  wire,       \* dispatches on their way to GitHub
  ran,        \* ran[n]: the runs GitHub started for press n
  told        \* told[n]: what its page said

stored == <<settings, creds>>
forms  == <<saving, saves, settled>>
button == <<press, presses, told>>
remote == <<wire, ran>>
vars   == <<stored, unlocked, forms, button, remote>>

NoFields == [k \in Names |-> Blank]
Fresh    == [fields |-> NoFields, creds |-> [c \in Slots |-> Blank]]

Nobody == [phase |-> "idle", n |-> 0, images |-> FALSE, at |-> 1,
           got |-> NoFields, token |-> Blank, base |-> None]

TypeOK ==
  /\ settings \in Fields /\ creds \in Creds /\ unlocked \in BOOLEAN
  /\ saving \in [Savers -> Saves \cup {None}]
  /\ saves \in 0 .. MaxSaves
  /\ settled \in Configs \cup {None}
  /\ press \in [Pressers -> Presses]
  /\ presses \in 0 .. MaxPresses
  /\ wire \in SUBSET (1 .. MaxPresses)
  /\ ran \in [1 .. MaxPresses -> Nat]
  /\ told \in [1 .. MaxPresses -> {"nothing", "dispatched", "problem", "refused"}]

Init ==
  /\ settings = NoFields /\ creds = Fresh.creds /\ unlocked = FALSE
  /\ saving = [s \in Savers |-> None]
  /\ saves = 0
  /\ settled = Fresh
  /\ press = [d \in Pressers |-> Nobody]
  /\ presses = 0
  /\ wire = {}
  /\ ran = [n \in 1 .. MaxPresses |-> 0]
  /\ told = [n \in 1 .. MaxPresses |-> "nothing"]

-----------------------------------------------------------------------------
(* What may be stored and what may be sent.                                *)

Good == Values \ Bad

\* Spec.Validate: a blank ref means the default branch.
SpecValid(f) ==
  {f.owner, f.repo, f.workflow} \subseteq Good /\ f.ref \in Good \cup {Blank}

\* Target.Validate.
TargetValid(f) == {f.registry, f.namespace} \subseteq Good

\* validateSyncForms: either pair may be blank, and a blank pair leaves the rest
\* of its form unchecked.
validateSyncForms(f) ==
  /\ f.owner = Blank <=> f.repo = Blank
  /\ f.owner # Blank => SpecValid(f)
  /\ f.registry = Blank <=> f.namespace = Blank
  /\ f.registry # Blank => TargetValid(f)

\* The form as handleSyncSettings reads it: the workflow has a default.
Read(form) ==
  LET f == form.fields
  IN  [fields |-> IF f.workflow = Blank THEN [f EXCEPT !["workflow"] = Default] ELSE f,
       creds |-> form.creds]

\* Mutant: the mark is stored.
Marked(entry, old) == IF entry = Blank THEN old ELSE entry

\* A credential field and its slot: the mark wins, blank means "unchanged".
Credential(entry, old) ==
  IF entry = Clear THEN Blank ELSE IF entry = Blank THEN old ELSE entry

\* Mutant: a blank field is not written.
storeSetting(k, value) ==
  settings' = IF value = Blank THEN settings ELSE [settings EXCEPT ![k] = value]

\* SetSetting, or DeleteSetting when the value is blank.
storeSettingOrClear(k, value) == settings' = [settings EXCEPT ![k] = value]

\* Mutant: the namespace is read from the registry's key.
SettingMixedUp(k) ==
  IF k = "namespace" THEN settings["registry"]
  ELSE IF settings[k] = Blank /\ k = "workflow" THEN Default ELSE settings[k]

\* SettingOrDefault, as syncSettings calls it.
SettingOrDefault(k) ==
  IF settings[k] = Blank /\ k = "workflow" THEN Default ELSE settings[k]

\* loadSyncPage: whether the page offers the button ("Configured reports whether
\* a dispatch could be attempted at all").
Configured ==
  LET f == [k \in Names |-> SettingOrDefault(k)]
  IN  unlocked /\ creds["github_token"] # Blank /\ SpecValid(f) /\ TargetValid(f)

-----------------------------------------------------------------------------
(* Saving.                                                                 *)

Unsettled == press' = [d \in Pressers |-> [press[d] EXCEPT !.base = None]]

\* handleSyncSettings, past its checks; what fails them stores nothing.
handleSyncSettings(s, form) ==
  LET typed == Read(form)
      goal  == [fields |-> typed.fields,
                creds  |-> [c \in Slots |->
                  IF form.creds[c] = Clear THEN Blank
                  ELSE IF form.creds[c] = Blank THEN creds[c] ELSE form.creds[c]]]
      alone == \A t \in Savers : saving[t] = None
  IN  /\ unlocked
      /\ saves < MaxSaves
      /\ saving[s] = None
      /\ validateSyncForms(typed.fields)
      /\ saves' = saves + 1
      /\ saving' = [t \in Savers |->
           IF t = s THEN [form |-> typed, at |-> 1, alone |-> alone, goal |-> goal]
           ELSE IF saving[t] = None THEN None ELSE [saving[t] EXCEPT !.alone = FALSE]]
      /\ settled' = None
      /\ Unsettled
      /\ UNCHANGED <<stored, unlocked, presses, told, remote>>

Advance(s) == saving' = [saving EXCEPT ![s].at = @ + 1]

\* saveSyncForms, one setting.
saveSyncForms(s) ==
  /\ saving[s] # None
  /\ saving[s].at <= Len(Keys)
  /\ LET k == Keys[saving[s].at]
     IN  storeSettingOrClear(k, saving[s].form.fields[k])
  /\ Advance(s)
  /\ UNCHANGED <<creds, unlocked, saves, settled, button, remote>>

\* saveSyncCredentials, one slot: sealing a value takes the key, removing one
\* does not.
SaveCredential(s, c) ==
  LET entry == saving[s].form.creds[c]
  IN  /\ entry \in {Blank, Clear} \/ unlocked
      /\ creds' = [creds EXCEPT ![c] = Credential(entry, @)]

SaveToken(s) ==
  /\ saving[s] # None
  /\ saving[s].at = 7
  /\ SaveCredential(s, "github_token")
  /\ Advance(s)
  /\ UNCHANGED <<settings, unlocked, saves, settled, button, remote>>

SavePassword(s) ==
  /\ saving[s] # None
  /\ saving[s].at = 8
  /\ SaveCredential(s, "acr_password")
  /\ saving' = [saving EXCEPT ![s] = None]
  /\ settled' = IF saving[s].alone THEN saving[s].goal ELSE None
  /\ UNCHANGED <<settings, unlocked, saves, button, remote>>

\* A statement fails, the vault is locked, or the browser goes away: what was
\* written stays.
SaveFails(s) ==
  /\ saving[s] # None
  /\ saving' = [saving EXCEPT ![s] = None]
  /\ UNCHANGED <<stored, unlocked, saves, settled, button, remote>>

Unlock ==
  /\ ~unlocked
  /\ unlocked' = TRUE
  /\ UNCHANGED <<stored, forms, button, remote>>

Lock ==
  /\ unlocked
  /\ unlocked' = FALSE
  /\ Unsettled
  /\ UNCHANGED <<stored, forms, presses, told, remote>>

-----------------------------------------------------------------------------
(* Dispatching.                                                            *)

\* handleSyncDispatch begins; images says that the box is not empty.
Press(d, images) ==
  /\ unlocked
  /\ press[d].phase = "idle"
  /\ presses < MaxPresses
  /\ presses' = presses + 1
  /\ press' = [press EXCEPT ![d] =
       [phase |-> "reading", n |-> presses + 1, images |-> images, at |-> 1,
        got |-> NoFields, token |-> Blank, base |-> settled]]
  /\ UNCHANGED <<stored, unlocked, forms, told, remote>>

\* syncSettings, one setting.
syncSettings(d) ==
  /\ press[d].phase = "reading"
  /\ press[d].at <= Len(Keys)
  /\ LET p == press[d]
         k == Keys[p.at]
     IN  press' = [press EXCEPT ![d] =
           [p EXCEPT !.at = p.at + 1, !.got[k] = SettingOrDefault(k)]]
  /\ UNCHANGED <<stored, unlocked, forms, presses, told, remote>>

\* What is sent has a valid spec, a valid target and an image (Spec.Validate,
\* Target.Validate, Inputs.Validate).
Dispatchable(d) ==
  SpecValid(press[d].got) /\ TargetValid(press[d].got) /\ press[d].images

Ready(d) == press[d].phase = "reading" /\ press[d].at = Len(Keys) + 1

End(d, page) ==
  /\ press' = [press EXCEPT ![d] = Nobody]
  /\ told' = [told EXCEPT ![press[d].n] = page]

\* syncClient: no token when the vault is locked or the slot is empty.
HasToken == unlocked /\ creds["github_token"] # Blank

\* Nothing to send, or no token to send it with.
Refuse(d) ==
  /\ Ready(d)
  /\ ~(Dispatchable(d) /\ HasToken)
  /\ End(d, "refused")
  /\ UNCHANGED <<stored, unlocked, forms, presses, remote>>

Send(d) ==
  /\ Ready(d)
  /\ Dispatchable(d) /\ HasToken
  /\ press' = [press EXCEPT ![d] =
       [@ EXCEPT !.phase = "calling", !.token = creds["github_token"]]]
  /\ wire' = wire \cup {press[d].n}
  /\ UNCHANGED <<stored, unlocked, forms, presses, told, ran>>

\* GitHub takes the request and starts a run.
Accept(n) ==
  /\ n \in wire
  /\ wire' = wire \ {n}
  /\ ran' = [ran EXCEPT ![n] = @ + 1]
  /\ UNCHANGED <<stored, unlocked, forms, button>>

\* GitHub refuses it, or it never arrives.
Drop(n) ==
  /\ n \in wire
  /\ wire' = wire \ {n}
  /\ UNCHANGED <<stored, unlocked, forms, button, ran>>

\* do: the 204 is read.
Answered(d) ==
  /\ press[d].phase = "calling"
  /\ ran[press[d].n] > 0
  /\ End(d, "dispatched")
  /\ UNCHANGED <<stored, unlocked, forms, presses, remote>>

\* Mutant: a call that failed is made again.
CallAgain(d) ==
  /\ press[d].phase = "calling"
  /\ wire' = wire \cup {press[d].n}
  /\ UNCHANGED <<stored, unlocked, forms, button, ran>>

\* do: a refusal, a failure of GitHub's, a lost answer or the client's timeout.
CallFails(d) ==
  /\ press[d].phase = "calling"
  /\ End(d, "problem")
  /\ UNCHANGED <<stored, unlocked, forms, presses, remote>>

\* A read fails, or the browser goes away.
PressFails(d) ==
  /\ press[d].phase # "idle"
  /\ press' = [press EXCEPT ![d] = Nobody]
  /\ UNCHANGED <<stored, unlocked, forms, presses, told, remote>>

\* The process stops and is started again, locked.
Restart ==
  /\ unlocked' = FALSE
  /\ saving' = [s \in Savers |-> None]
  /\ press' = [d \in Pressers |-> Nobody]
  /\ UNCHANGED <<stored, saves, settled, presses, told, remote>>

-----------------------------------------------------------------------------
Saving ==
  \E s \in Savers :
    \/ \E form \in Forms : handleSyncSettings(s, form)
    \/ saveSyncForms(s)
    \/ SaveToken(s)
    \/ SavePassword(s)
    \/ SaveFails(s)

Dispatching ==
  \E d \in Pressers :
    \/ \E images \in BOOLEAN : Press(d, images)
    \/ syncSettings(d)
    \/ Refuse(d)
    \/ Send(d)
    \/ Answered(d)
    \/ CallFails(d)
    \/ PressFails(d)

GitHub == \E n \in 1 .. MaxPresses : Accept(n) \/ Drop(n)

Next == Saving \/ Dispatching \/ GitHub \/ Unlock \/ Lock \/ Restart

Spec == Init /\ [][Next]_vars

-----------------------------------------------------------------------------
(* Properties.                                                             *)

\* A save that reached its end and met no other has left exactly what was typed,
\* blank fields cleared and blank secrets as they were, whatever an earlier save
\* that broke off had left half written (saveSyncForms, saveSyncCredentials).
SavedWhole ==
  settled # None => settings = settled.fields /\ creds = settled.creds

\* A press that no save broke into, and that came after no broken or crossed one,
\* sends that configuration and its token: never a mixture of two forms, never a
\* token since replaced; and given images it is sent exactly when the page says
\* that it can be (syncSettings, syncClient, loadSyncPage).
SentWhole ==
  \A d \in Pressers :
    press[d].base # None =>
      /\ press[d].phase = "calling" =>
           /\ press[d].got = press[d].base.fields
           /\ press[d].token = press[d].base.creds["github_token"]
      /\ Ready(d) /\ press[d].images => (Dispatchable(d) /\ HasToken <=> Configured)

\* Whatever mixture was read, what is sent names a whole repository and a whole
\* target, each field fit for a URL, and at least one image ("an owner containing
\* a slash would silently address a different repository").
SentValid ==
  \A d \in Pressers :
    press[d].phase = "calling" =>
      /\ SpecValid(press[d].got) /\ TargetValid(press[d].got)
      /\ press[d].images /\ press[d].token \in Secrets

\* A press starts at most one run, however its answer is lost, and a page that
\* says "dispatched" means a run was started (handleSyncDispatch, do).
RunsMatchPresses ==
  \A n \in 1 .. MaxPresses :
    ran[n] <= 1 /\ (told[n] = "dispatched" => ran[n] = 1)
=============================================================================
