-------------------------- MODULE RelocationProofs --------------------------
(***************************************************************************)
(* What is stored, sent and started is as Relocation promises, for any     *)
(* forms, any number of tabs and whatever fails.                           *)
(***************************************************************************)
EXTENDS Relocation, TLAPS

-----------------------------------------------------------------------------
(* The invariant.                                                          *)

\* A save that no other has met has put down what it has passed, and the rest of
\* it leads to its goal.
Progress ==
  \A s \in Savers :
    saving[s] # None /\ saving[s].alone =>
      LET v == saving[s]
      IN  /\ \A o \in Savers \ {s} : saving[o] = None
          /\ v.goal.fields = v.form.fields
          /\ v.form.fields["workflow"] # Blank
          /\ \A j \in 1 .. 6 : j < v.at => settings[Keys[j]] = v.form.fields[Keys[j]]
          /\ v.at <= 7 =>
               Credential(v.form.creds["github_token"], creds["github_token"])
                 = v.goal.creds["github_token"]
          /\ v.at = 8 => creds["github_token"] = v.goal.creds["github_token"]
          /\ Credential(v.form.creds["acr_password"], creds["acr_password"])
               = v.goal.creds["acr_password"]

\* What is settled is what is stored, nobody is writing, and a repository has its
\* workflow.
Settled ==
  settled # None =>
    /\ \A s \in Savers : saving[s] = None
    /\ settings = settled.fields /\ creds = settled.creds
    /\ settled.fields["workflow"] = Blank => settled.fields["owner"] = Blank

\* A dispatch that nothing disturbed reads, and then sends, what is settled.
Based ==
  \A d \in Pressers :
    press[d].base # None =>
      /\ press[d].base = settled /\ unlocked
      /\ press[d].phase = "reading" =>
           \A j \in 1 .. 6 :
             j < press[d].at => press[d].got[Keys[j]] = SettingOrDefault(Keys[j])
      /\ press[d].phase = "calling" =>
           /\ press[d].got = press[d].base.fields
           /\ press[d].token = press[d].base.creds["github_token"]

\* Each press has a number of its own, and a run only after its request left.
Numbered ==
  \A d \in Pressers :
    press[d].phase # "idle" =>
      /\ press[d].n \in 1 .. presses
      /\ \A e \in Pressers \ {d} : press[e].phase # "idle" => press[e].n # press[d].n
      /\ press[d].phase = "reading" => press[d].n \notin wire /\ ran[press[d].n] = 0

Counted ==
  \A n \in 1 .. MaxPresses :
    /\ n \in wire => ran[n] = 0 /\ n <= presses
    /\ n > presses => ran[n] = 0
    /\ ran[n] <= 1
    /\ told[n] = "dispatched" => ran[n] = 1

Invariant == TypeOK /\ Progress /\ Settled /\ Based /\ SentValid /\ Numbered /\ Counted

-----------------------------------------------------------------------------
(* The settings and their keys.                                            *)

LEMMA KeysAreNames ==
  /\ Len(Keys) = 6
  /\ \A j \in 1 .. 6 : Keys[j] \in Names
  /\ \A k \in Names : \E j \in 1 .. 6 : Keys[j] = k
  /\ \A i, j \in 1 .. 6 : Keys[i] = Keys[j] => i = j
  BY DEF Keys, Names

LEMMA ReadTyped ==
  ASSUME NEW form \in Forms
  PROVE  /\ Read(form) \in Entries
         /\ Read(form).fields["workflow"] # Blank
         /\ Read(form).creds = form.creds
  <1>1. form.fields \in Fields /\ form.creds \in [Slots -> Secrets \cup {Blank, Clear}]
    BY RelocationAssumption DEF Entries
  <1> DEFINE f == form.fields
             g == IF f.workflow = Blank THEN [f EXCEPT !["workflow"] = Default] ELSE f
  <1>2. g \in Fields /\ g["workflow"] # Blank
    BY <1>1, RelocationAssumption DEF Fields, Names
  <1>3. Read(form) = [fields |-> g, creds |-> form.creds]
    BY DEF Read
  <1>4. QED
    BY <1>1, <1>2, <1>3 DEF Entries

LEMMA SettingTyped ==
  ASSUME TypeOK, NEW k \in Names
  PROVE  SettingOrDefault(k) \in Values \cup {Blank}
  BY RelocationAssumption DEF TypeOK, Fields, SettingOrDefault

LEMMA CredentialTyped ==
  ASSUME NEW entry \in Secrets \cup {Blank, Clear}, NEW old \in Secrets \cup {Blank}
  PROVE  Credential(entry, old) \in Secrets \cup {Blank}
  BY DEF Credential

LEMMA NobodyTyped == Nobody \in Presses
  BY RelocationAssumption DEF Nobody, Presses, NoFields, Fields

-----------------------------------------------------------------------------
(* Type correctness.                                                       *)

LEMMA InitTyped == Init => TypeOK
  <1>1. NoFields \in Fields /\ Fresh.creds \in Creds /\ Fresh \in Configs
    BY DEF NoFields, Fresh, Fields, Creds, Configs
  <1>2. 0 \in 0 .. MaxSaves /\ 0 \in 0 .. MaxPresses
    BY RelocationAssumption
  <1>3. ASSUME Init PROVE TypeOK
    <2>1. settings \in Fields /\ creds \in Creds /\ unlocked \in BOOLEAN
      BY <1>1, <1>3 DEF Init
    <2>2. saving \in [Savers -> Saves \cup {None}] /\ settled \in Configs \cup {None}
      BY <1>1, <1>3 DEF Init
    <2>3. press \in [Pressers -> Presses]
      BY <1>3, NobodyTyped DEF Init
    <2>4. wire \in SUBSET (1 .. MaxPresses) /\ ran \in [1 .. MaxPresses -> Nat]
      BY <1>3 DEF Init
    <2>5. told \in [1 .. MaxPresses -> {"nothing", "dispatched", "problem", "refused"}]
      BY <1>3 DEF Init
    <2>6. QED
      BY <1>2, <1>3, <2>1, <2>2, <2>3, <2>4, <2>5 DEF Init, TypeOK
  <1>4. QED
    BY <1>3

\* Nobody's base leaves a press of its type.
LEMMA UnsettledTyped ==
  ASSUME TypeOK, Unsettled PROVE press' \in [Pressers -> Presses]
  <1>1. ASSUME NEW d \in Pressers PROVE [press[d] EXCEPT !.base = None] \in Presses
    <2>1. press[d] \in Presses
      BY DEF TypeOK
    <2>2. QED
      BY <2>1 DEF Presses
  <1>2. QED
    BY <1>1 DEF Unsettled

LEMMA EndTyped ==
  ASSUME TypeOK, NEW d \in Pressers, NEW page \in {"dispatched", "problem", "refused"},
         End(d, page)
  PROVE  /\ press' \in [Pressers -> Presses]
         /\ told' \in [1 .. MaxPresses -> {"nothing", "dispatched", "problem", "refused"}]
  BY NobodyTyped DEF TypeOK, End

LEMMA StartTyped ==
  ASSUME TypeOK, NEW s \in Savers, NEW form \in Forms, handleSyncSettings(s, form)
  PROVE  TypeOK'
  <1> DEFINE typed == Read(form)
             kept  == [c \in Slots |->
                        IF form.creds[c] = Clear THEN Blank
                        ELSE IF form.creds[c] = Blank THEN creds[c] ELSE form.creds[c]]
             goal  == [fields |-> typed.fields, creds |-> kept]
             alone == \A t \in Savers : saving[t] = None
             new   == [form |-> typed, at |-> 1, alone |-> alone, goal |-> goal]
  <1>1. typed \in Entries /\ form \in Entries
    BY ReadTyped, RelocationAssumption
  <1>2. kept \in Creds
    BY <1>1 DEF Entries, Creds, TypeOK
  <1>3. goal \in Configs
    BY <1>1, <1>2 DEF Configs, Entries
  <1>4. new \in Saves
    BY <1>1, <1>3 DEF Saves
  <1>5. ASSUME NEW t \in Savers, saving[t] # None
        PROVE  [saving[t] EXCEPT !.alone = FALSE] \in Saves
    <2>1. saving[t] \in Saves
      BY <1>5 DEF TypeOK
    <2>2. QED
      BY <2>1 DEF Saves
  <1>6. saving' \in [Savers -> Saves \cup {None}]
    BY <1>4, <1>5 DEF handleSyncSettings
  <1>7. press' \in [Pressers -> Presses]
    BY UnsettledTyped DEF handleSyncSettings
  <1>8. saves' \in 0 .. MaxSaves
    BY RelocationAssumption DEF TypeOK, handleSyncSettings
  <1>9. QED
    BY <1>6, <1>7, <1>8 DEF TypeOK, handleSyncSettings, stored, remote

LEMMA AdvanceTyped ==
  ASSUME TypeOK, NEW s \in Savers, saving[s] # None, saving[s].at <= 7, Advance(s)
  PROVE  saving' \in [Savers -> Saves \cup {None}]
  <1>1. saving[s] \in Saves
    BY DEF TypeOK
  <1>2. [saving[s] EXCEPT !.at = saving[s].at + 1] \in Saves
    BY <1>1 DEF Saves
  <1>3. QED
    BY <1>2 DEF TypeOK, Advance

LEMMA SlotTyped ==
  ASSUME TypeOK, NEW s \in Savers, saving[s] # None, NEW c \in Slots, SaveCredential(s, c)
  PROVE  creds' \in Creds
  <1>1. saving[s].form.creds[c] \in Secrets \cup {Blank, Clear}
    BY DEF TypeOK, Saves, Entries
  <1>2. QED
    BY <1>1, CredentialTyped DEF TypeOK, Creds, SaveCredential

LEMMA SavingTyped == ASSUME TypeOK, Saving PROVE TypeOK'
  <1>1. ASSUME NEW s \in Savers, saveSyncForms(s) PROVE TypeOK'
    <2> DEFINE k == Keys[saving[s].at]
    <2>1. saving[s].at \in 1 .. 6 /\ saving[s] # None /\ saving[s].form.fields \in Fields
      BY <1>1, KeysAreNames DEF saveSyncForms, TypeOK, Saves, Entries
    <2>2. k \in Names
      BY <2>1, KeysAreNames
    <2>3. settings' \in Fields
      BY <1>1, <2>1, <2>2 DEF TypeOK, saveSyncForms, storeSettingOrClear, Fields
    <2>4. saving' \in [Savers -> Saves \cup {None}]
      BY <1>1, <2>1, AdvanceTyped DEF saveSyncForms
    <2>5. QED
      BY <1>1, <2>3, <2>4 DEF TypeOK, saveSyncForms, button, remote
  <1>2. ASSUME NEW s \in Savers, SaveToken(s) PROVE TypeOK'
    <2>1. creds' \in Creds
      BY <1>2, SlotTyped DEF SaveToken, Slots
    <2>2. saving' \in [Savers -> Saves \cup {None}]
      BY <1>2, AdvanceTyped DEF SaveToken
    <2>3. QED
      BY <1>2, <2>1, <2>2 DEF TypeOK, SaveToken, button, remote
  <1>3. ASSUME NEW s \in Savers, SavePassword(s) PROVE TypeOK'
    <2>1. creds' \in Creds
      BY <1>3, SlotTyped DEF SavePassword, Slots
    <2>2. settled' \in Configs \cup {None}
      BY <1>3 DEF TypeOK, SavePassword, Saves
    <2>3. saving' \in [Savers -> Saves \cup {None}]
      BY <1>3 DEF TypeOK, SavePassword
    <2>4. QED
      BY <1>3, <2>1, <2>2, <2>3 DEF TypeOK, SavePassword, button, remote
  <1>4. ASSUME NEW s \in Savers, SaveFails(s) PROVE TypeOK'
    BY <1>4 DEF TypeOK, SaveFails, stored, button, remote
  <1>5. QED
    BY <1>1, <1>2, <1>3, <1>4, StartTyped DEF Saving

LEMMA PressTyped ==
  ASSUME TypeOK, NEW d \in Pressers, NEW images \in BOOLEAN, Press(d, images)
  PROVE  TypeOK'
  <1>1. presses + 1 \in 0 .. MaxPresses
    BY RelocationAssumption DEF TypeOK, Press
  <1>2. [phase |-> "reading", n |-> presses + 1, images |-> images, at |-> 1,
         got |-> NoFields, token |-> Blank, base |-> settled] \in Presses
    BY <1>1 DEF TypeOK, Presses, NoFields, Fields
  <1>3. press' \in [Pressers -> Presses]
    BY <1>2 DEF TypeOK, Press
  <1>4. QED
    BY <1>1, <1>3 DEF TypeOK, Press, stored, forms, remote

\* What one read does to its press.
LEMMA ReadStep ==
  ASSUME TypeOK, NEW d \in Pressers, syncSettings(d)
  PROVE  /\ press[d].at \in 1 .. 6
         /\ press'[d] \in Presses
         /\ press'[d].phase = "reading" /\ press'[d].n = press[d].n
         /\ press'[d].base = press[d].base
         /\ press'[d].at = press[d].at + 1
         /\ press'[d].got =
              [press[d].got EXCEPT ![Keys[press[d].at]] = SettingOrDefault(Keys[press[d].at])]
         /\ \A e \in Pressers \ {d} : press'[e] = press[e]
  <1> DEFINE p == press[d]
             k == Keys[p.at]
             v == SettingOrDefault(k)
             got == [p.got EXCEPT ![k] = v]
  <1>1. p \in Presses /\ p.at \in 1 .. 6
    BY KeysAreNames DEF TypeOK, syncSettings, Presses
  <1>2. k \in Names /\ SettingOrDefault(k) \in Values \cup {Blank}
    BY <1>1, KeysAreNames, SettingTyped
  <1>3. got \in Fields
    BY <1>1, <1>2 DEF Presses, Fields
  <1>4. press' = [press EXCEPT ![d] = [p EXCEPT !.at = p.at + 1, !.got[k] = v]]
    BY DEF syncSettings
  <1>5. press'[d] = [p EXCEPT !.at = p.at + 1, !.got[k] = v]
        /\ \A e \in Pressers \ {d} : press'[e] = press[e]
    BY <1>4 DEF TypeOK
  <1>6. p.at + 1 \in 1 .. 7
    BY <1>1
  <1> HIDE DEF k, v
  <1>7. /\ press'[d].at = p.at + 1 /\ press'[d].got = got
        /\ press'[d].phase = p.phase /\ press'[d].n = p.n /\ press'[d].base = p.base
        /\ press'[d] \in Presses
    BY <1>1, <1>3, <1>5, <1>6 DEF Presses
  <1>8. p.phase = "reading"
    BY DEF syncSettings
  <1>9. QED
    BY <1>1, <1>5, <1>7, <1>8 DEF k, v

\* What sending does to its press.
LEMMA SendStep ==
  ASSUME TypeOK, NEW d \in Pressers, Send(d)
  PROVE  /\ press'[d] \in Presses
         /\ press'[d].phase = "calling" /\ press'[d].n = press[d].n
         /\ press'[d].base = press[d].base /\ press'[d].got = press[d].got
         /\ press'[d].images = press[d].images
         /\ press'[d].token = creds["github_token"]
         /\ \A e \in Pressers \ {d} : press'[e] = press[e]
  <1>1. press[d] \in Presses /\ creds["github_token"] \in Secrets \cup {Blank}
    BY DEF TypeOK, Creds, Slots
  <1>2. press'[d] = [press[d] EXCEPT !.phase = "calling", !.token = creds["github_token"]]
        /\ \A e \in Pressers \ {d} : press'[e] = press[e]
    BY DEF TypeOK, Send
  <1>3. QED
    BY <1>1, <1>2 DEF Presses

LEMMA DispatchingTyped == ASSUME TypeOK, Numbered, Dispatching PROVE TypeOK'
  <1>1. ASSUME NEW d \in Pressers, syncSettings(d) PROVE TypeOK'
    <2>1. press' \in [Pressers -> Presses]
      <3>1. press'[d] \in Presses
        BY <1>1, ReadStep
      <3>2. QED
        BY <1>1, <3>1 DEF TypeOK, syncSettings
    <2>2. QED
      BY <1>1, <2>1 DEF TypeOK, syncSettings, stored, forms, remote
  <1>2. ASSUME NEW d \in Pressers, Refuse(d) PROVE TypeOK'
    BY <1>2, EndTyped DEF TypeOK, Refuse, stored, forms, remote
  <1>3. ASSUME NEW d \in Pressers, Send(d) PROVE TypeOK'
    <2>1. press' \in [Pressers -> Presses]
      <3>1. press'[d] \in Presses
        BY <1>3, SendStep
      <3>2. QED
        BY <1>3, <3>1 DEF TypeOK, Send
    <2>2. wire' \in SUBSET (1 .. MaxPresses)
      <3>1. press[d].n \in 1 .. MaxPresses
        BY <1>3 DEF TypeOK, Numbered, Presses, Ready, Send
      <3>2. QED
        BY <1>3, <3>1 DEF TypeOK, Send
    <2>3. QED
      BY <1>3, <2>1, <2>2 DEF TypeOK, Send, stored, forms
  <1>4. ASSUME NEW d \in Pressers, Answered(d) PROVE TypeOK'
    BY <1>4, EndTyped DEF TypeOK, Answered, stored, forms, remote
  <1>5. ASSUME NEW d \in Pressers, CallFails(d) PROVE TypeOK'
    BY <1>5, EndTyped DEF TypeOK, CallFails, stored, forms, remote
  <1>6. ASSUME NEW d \in Pressers, PressFails(d) PROVE TypeOK'
    BY <1>6, NobodyTyped DEF TypeOK, PressFails, stored, forms, remote
  <1>7. QED
    BY <1>1, <1>2, <1>3, <1>4, <1>5, <1>6, PressTyped DEF Dispatching

LEMMA GitHubTyped == ASSUME TypeOK, GitHub PROVE TypeOK'
  <1>1. ASSUME NEW n \in 1 .. MaxPresses, Accept(n) PROVE TypeOK'
    BY <1>1 DEF TypeOK, Accept, stored, forms, button
  <1>2. ASSUME NEW n \in 1 .. MaxPresses, Drop(n) PROVE TypeOK'
    BY <1>2 DEF TypeOK, Drop, stored, forms, button
  <1>3. QED
    BY <1>1, <1>2 DEF GitHub

LEMMA StepTyped == ASSUME TypeOK, Numbered, [Next]_vars PROVE TypeOK'
  <1>1. CASE Unlock
    BY <1>1 DEF TypeOK, Unlock, stored, forms, button, remote
  <1>2. CASE Lock
    BY <1>2, UnsettledTyped DEF TypeOK, Lock, stored, forms, remote
  <1>3. CASE Restart
    BY <1>3, NobodyTyped DEF TypeOK, Restart, stored, remote
  <1>4. CASE UNCHANGED vars
    BY <1>4 DEF TypeOK, vars, stored, forms, button, remote
  <1>5. QED
    BY <1>1, <1>2, <1>3, <1>4, SavingTyped, DispatchingTyped, GitHubTyped DEF Next

-----------------------------------------------------------------------------
(* Saving.                                                                 *)

LEMMA SettingsTyped == ASSUME TypeOK PROVE settings \in Fields /\ creds \in Creds
  BY DEF TypeOK

\* A save in progress: nothing is settled, and no other is alone.
LEMMA SaveShuts ==
  ASSUME TypeOK, Progress, Settled, NEW s \in Savers, saving[s] # None
  PROVE  /\ settled = None
         /\ \A t \in Savers \ {s} : saving[t] # None => ~saving[t].alone
  BY DEF Progress, Settled

LEMMA StartHolds ==
  ASSUME TypeOK, Progress, Settled,
         NEW s \in Savers, NEW form \in Forms, handleSyncSettings(s, form)
  PROVE  Progress' /\ Settled'
  <1> DEFINE typed == Read(form)
             kept  == [c \in Slots |->
                        IF form.creds[c] = Clear THEN Blank
                        ELSE IF form.creds[c] = Blank THEN creds[c] ELSE form.creds[c]]
             goal  == [fields |-> typed.fields, creds |-> kept]
             alone == \A t \in Savers : saving[t] = None
             new   == [form |-> typed, at |-> 1, alone |-> alone, goal |-> goal]
  <1>1. settled' = None /\ settings' = settings /\ creds' = creds
    BY DEF handleSyncSettings, stored
  <1>2. saving' = [t \in Savers |->
           IF t = s THEN new
           ELSE IF saving[t] = None THEN None ELSE [saving[t] EXCEPT !.alone = FALSE]]
    BY DEF handleSyncSettings
  <1>3. typed.fields["workflow"] # Blank /\ typed.creds = form.creds
    BY ReadTyped
  <1>4. \A c \in Slots : Credential(typed.creds[c], creds[c]) = goal.creds[c]
    BY <1>3 DEF Credential
  <1>5. saving'[s] = new
    BY <1>2
  <1>6. ASSUME NEW t \in Savers \ {s}, saving'[t] # None
        PROVE  saving[t] # None /\ ~saving'[t].alone
    <2>1. saving[t] # None /\ saving'[t] = [saving[t] EXCEPT !.alone = FALSE]
      BY <1>2, <1>6
    <2>2. saving[t] \in Saves
      BY <2>1 DEF TypeOK
    <2>3. QED
      BY <2>1, <2>2 DEF Saves
  <1>7. ASSUME alone PROVE \A t \in Savers \ {s} : saving'[t] = None
    BY <1>6, <1>7
  <1>8. /\ new.at = 1 /\ new.form = typed /\ new.goal = goal /\ goal.fields = typed.fields
        /\ new.alone = alone
    OBVIOUS
  <1> HIDE DEF new, goal, typed
  <1>9. Progress'
    <2> SUFFICES ASSUME NEW t \in Savers, saving'[t] # None, saving'[t].alone
                 PROVE  LET v == saving'[t]
                        IN  /\ \A o \in Savers \ {t} : saving'[o] = None
                            /\ v.goal.fields = v.form.fields
                            /\ v.form.fields["workflow"] # Blank
                            /\ \A j \in 1 .. 6 :
                                 j < v.at => settings'[Keys[j]] = v.form.fields[Keys[j]]
                            /\ v.at <= 7 =>
                                 Credential(v.form.creds["github_token"], creds'["github_token"])
                                   = v.goal.creds["github_token"]
                            /\ v.at = 8 =>
                                 creds'["github_token"] = v.goal.creds["github_token"]
                            /\ Credential(v.form.creds["acr_password"], creds'["acr_password"])
                                 = v.goal.creds["acr_password"]
      BY DEF Progress
    <2>1. t = s
      BY <1>6
    <2>2. alone
      BY <1>5, <1>8, <2>1
    <2>3. \A j \in 1 .. 6 : ~(j < 1)
      OBVIOUS
    <2>4. "github_token" \in Slots /\ "acr_password" \in Slots
      BY DEF Slots
    <2>5. QED
      BY <1>1, <1>3, <1>4, <1>5, <1>7, <1>8, <2>1, <2>2, <2>3, <2>4
  <1>10. QED
    BY <1>1, <1>9 DEF Settled

\* A save goes on: where it stands now, and that it stands alone.
LEMMA AdvanceStep ==
  ASSUME TypeOK, NEW s \in Savers, saving[s] # None, saving[s].at <= 7, Advance(s)
  PROVE  /\ saving'[s] # None
         /\ saving'[s].at = saving[s].at + 1 /\ saving'[s].form = saving[s].form
         /\ saving'[s].goal = saving[s].goal /\ saving'[s].alone = saving[s].alone
         /\ \A t \in Savers \ {s} : saving'[t] = saving[t]
  <1>1. saving[s] \in Saves
    BY DEF TypeOK
  <1>2. saving'[s] = [saving[s] EXCEPT !.at = saving[s].at + 1]
        /\ \A t \in Savers \ {s} : saving'[t] = saving[t]
    BY DEF TypeOK, Advance
  <1>3. saving'[s] \in Saves
    BY <1>1, <1>2 DEF Saves
  <1>4. saving'[s] # None
    BY <1>3, RelocationAssumption
  <1>5. QED
    BY <1>1, <1>2, <1>4 DEF Saves

LEMMA FieldHolds ==
  ASSUME TypeOK, Progress, Settled, NEW s \in Savers, saveSyncForms(s)
  PROVE  Progress' /\ Settled'
  <1> DEFINE v == saving[s]
             k == Keys[v.at]
  <1>1. v # None /\ v.at \in 1 .. 6
    BY KeysAreNames DEF saveSyncForms, TypeOK, Saves
  <1>2. k \in Names
    BY <1>1, KeysAreNames
  <1>3. settings' = [settings EXCEPT ![k] = v.form.fields[k]] /\ creds' = creds
        /\ settled' = settled
    BY DEF saveSyncForms, storeSettingOrClear
  <1>4. /\ saving'[s] # None
        /\ saving'[s].at = v.at + 1 /\ saving'[s].form = v.form
        /\ saving'[s].goal = v.goal /\ saving'[s].alone = v.alone
        /\ \A t \in Savers \ {s} : saving'[t] = saving[t]
    BY <1>1, AdvanceStep DEF saveSyncForms
  <1>5. settled = None /\ \A t \in Savers \ {s} : saving[t] # None => ~saving[t].alone
    BY <1>1, SaveShuts
  <1>6. ASSUME NEW j \in 1 .. 6, j < v.at + 1, v.alone
        PROVE  settings'[Keys[j]] = v.form.fields[Keys[j]]
    <2>1. Keys[j] \in Names
      BY KeysAreNames
    <2>2. CASE j = v.at
      BY <1>2, <1>3, <2>2, SettingsTyped DEF Fields
    <2>3. CASE j # v.at
      <3>1. j < v.at /\ Keys[j] # k
        BY <1>1, <1>6, <2>3, KeysAreNames
      <3>2. settings[Keys[j]] = v.form.fields[Keys[j]]
        BY <1>1, <1>6, <3>1 DEF Progress
      <3>3. QED
        BY <1>3, <2>1, <3>1, <3>2, SettingsTyped DEF Fields
    <2>4. QED
      BY <2>2, <2>3
  <1>7. v.at <= 7 /\ ~(v.at + 1 = 8)
    BY <1>1
  <1> HIDE DEF v, k
  <1>8. Progress'
    BY <1>1, <1>3, <1>4, <1>5, <1>6, <1>7 DEF Progress, v
  <1>9. QED
    BY <1>3, <1>5, <1>8 DEF Settled

LEMMA TokenHolds ==
  ASSUME TypeOK, Progress, Settled, NEW s \in Savers, SaveToken(s)
  PROVE  Progress' /\ Settled'
  <1> DEFINE v == saving[s]
  <1>1. v # None /\ v.at = 7
    BY DEF SaveToken
  <1>2. /\ creds'["github_token"] = Credential(v.form.creds["github_token"], creds["github_token"])
        /\ creds'["acr_password"] = creds["acr_password"]
        /\ settings' = settings /\ settled' = settled
    BY DEF SaveToken, SaveCredential, TypeOK, Creds, Slots
  <1>3. /\ saving'[s] # None
        /\ saving'[s].at = 8 /\ saving'[s].form = v.form
        /\ saving'[s].goal = v.goal /\ saving'[s].alone = v.alone
        /\ \A t \in Savers \ {s} : saving'[t] = saving[t]
    BY <1>1, AdvanceStep DEF SaveToken
  <1>4. settled = None /\ \A t \in Savers \ {s} : saving[t] # None => ~saving[t].alone
    BY <1>1, SaveShuts
  <1>5. v.alone => \A j \in 1 .. 6 : settings[Keys[j]] = v.form.fields[Keys[j]]
    BY <1>1 DEF Progress
  <1> HIDE DEF v
  <1>6. Progress'
    BY <1>1, <1>2, <1>3, <1>4, <1>5 DEF Progress, v
  <1>7. QED
    BY <1>2, <1>4, <1>6 DEF Settled

LEMMA PasswordHolds ==
  ASSUME TypeOK, Progress, Settled, NEW s \in Savers, SavePassword(s)
  PROVE  Progress' /\ Settled'
  <1> DEFINE v == saving[s]
  <1>1. v # None /\ v.at = 8 /\ v \in Saves
    BY DEF SavePassword, TypeOK
  <1>2. /\ creds' \in Creds
        /\ creds'["acr_password"] = Credential(v.form.creds["acr_password"], creds["acr_password"])
        /\ creds'["github_token"] = creds["github_token"]
        /\ settings' = settings
    <2>1. creds' \in Creds
      BY SlotTyped DEF SavePassword, Slots
    <2>2. QED
      BY <2>1 DEF SavePassword, SaveCredential, TypeOK, Creds, Slots
  <1>3. saving'[s] = None /\ \A t \in Savers \ {s} : saving'[t] = saving[t]
    BY DEF SavePassword, TypeOK
  <1>4. \A t \in Savers \ {s} : saving[t] # None => ~saving[t].alone
    BY <1>1, SaveShuts
  <1>5. Progress'
    BY <1>3, <1>4 DEF Progress
  <1>6. CASE v.alone
    <2>1. settled' = v.goal
      BY <1>6 DEF SavePassword
    <2>2. \A t \in Savers : saving'[t] = None
      BY <1>1, <1>3, <1>6 DEF Progress
    <2>3. settings' = v.goal.fields
      <3>1. settings \in [Names -> Values \cup {Blank}]
            /\ v.goal.fields \in [Names -> Values \cup {Blank}]
        BY <1>1 DEF TypeOK, Saves, Configs, Fields
      <3>2. \A j \in 1 .. 6 : settings[Keys[j]] = v.goal.fields[Keys[j]]
        BY <1>1, <1>6 DEF Progress
      <3>3. \A k \in Names : settings[k] = v.goal.fields[k]
        BY <3>2, KeysAreNames
      <3>4. QED
        BY <1>2, <3>1, <3>3
    <2>4. creds' = v.goal.creds
      <3>1. v.goal.creds \in Creds
        BY <1>1 DEF Saves, Configs
      <3>2. /\ creds'["github_token"] = v.goal.creds["github_token"]
            /\ creds'["acr_password"] = v.goal.creds["acr_password"]
        BY <1>1, <1>2, <1>6 DEF Progress
      <3>3. QED
        BY <1>2, <3>1, <3>2 DEF Creds, Slots
    <2>5. v.goal.fields["workflow"] # Blank
      BY <1>1, <1>6 DEF Progress
    <2>6. Settled'
      BY <2>1, <2>2, <2>3, <2>4, <2>5 DEF Settled
    <2>7. QED
      BY <1>5, <2>6
  <1>7. CASE ~v.alone
    <2>1. settled' = None
      BY <1>7 DEF SavePassword
    <2>2. QED
      BY <1>5, <2>1 DEF Settled
  <1>8. QED
    BY <1>6, <1>7

LEMMA SaveFailsHolds ==
  ASSUME TypeOK, Progress, Settled, NEW s \in Savers, SaveFails(s)
  PROVE  Progress' /\ Settled'
  <1>1. settled = None /\ \A t \in Savers \ {s} : saving[t] # None => ~saving[t].alone
    BY SaveShuts DEF SaveFails
  <1>2. saving'[s] = None /\ \A t \in Savers \ {s} : saving'[t] = saving[t]
    BY DEF SaveFails, TypeOK
  <1>3. QED
    BY <1>1, <1>2 DEF Progress, Settled, SaveFails

\* Whoever dispatches, locks or unlocks writes nothing.
StoreUntouched == UNCHANGED <<settings, creds, saving, settled>>

LEMMA SaveHolds == ASSUME TypeOK, Progress, Settled, [Next]_vars PROVE Progress' /\ Settled'
  <1>1. CASE Saving
    BY <1>1, StartHolds, FieldHolds, TokenHolds, PasswordHolds, SaveFailsHolds DEF Saving
  <1>2. CASE Restart
    BY <1>2 DEF Progress, Settled, Restart, stored
  <1>3. CASE StoreUntouched
    BY <1>3 DEF Progress, Settled, StoreUntouched
  <1>4. (~Saving /\ ~Restart) => StoreUntouched
    BY DEF Next, Dispatching, GitHub, Press, syncSettings, Refuse, Send, Accept, Drop, Answered,
           CallFails, PressFails, Unlock, Lock, vars, stored, forms, StoreUntouched
  <1>5. QED
    BY <1>1, <1>2, <1>3, <1>4

-----------------------------------------------------------------------------
(* Dispatching.                                                            *)

Reads == [k \in Names |-> SettingOrDefault(k)]

\* A press that has read everything undisturbed has read what is stored.
LEMMA ReadWhole ==
  ASSUME TypeOK, Based, NEW d \in Pressers, press[d].base # None, Ready(d)
  PROVE  press[d].got = Reads
  <1>1. press[d].got \in [Names -> Values \cup {Blank}] /\ press[d].at = 7
        /\ press[d].phase = "reading"
    BY KeysAreNames DEF TypeOK, Presses, Fields, Ready
  <1>2. \A j \in 1 .. 6 : j < 7 /\ press[d].got[Keys[j]] = SettingOrDefault(Keys[j])
    BY <1>1 DEF Based
  <1>3. \A k \in Names : press[d].got[k] = SettingOrDefault(k)
    BY <1>2, KeysAreNames
  <1>4. QED
    BY <1>1, <1>3 DEF Reads

\* What is settled and fit to be sent is read as it is.
LEMMA ReadsSettled ==
  ASSUME TypeOK, Settled, settled # None, SpecValid(Reads)
  PROVE  Reads = settled.fields
  <1>1. settings = settled.fields /\ settings \in [Names -> Values \cup {Blank}]
    BY DEF Settled, TypeOK, Fields
  <1>2. Reads.owner \in Good
    BY DEF SpecValid
  <1>3. Reads["owner"] = settings["owner"]
    BY DEF Reads, SettingOrDefault, Names
  <1>4. settings["owner"] # Blank
    BY <1>2, <1>3, RelocationAssumption DEF Good
  <1>5. settings["workflow"] # Blank
    BY <1>1, <1>4 DEF Settled
  <1>6. \A k \in Names : SettingOrDefault(k) = settings[k]
    BY <1>5 DEF SettingOrDefault
  <1>7. QED
    BY <1>1, <1>6 DEF Reads

\* A press whose base is gone, or that is over, promises nothing.
LEMMA BaseGone == ASSUME TypeOK, Unsettled, NEW d \in Pressers PROVE press'[d].base = None
  BY DEF TypeOK, Unsettled, Presses

LEMMA PressHolds ==
  ASSUME TypeOK, Based, NEW d \in Pressers, NEW images \in BOOLEAN, Press(d, images)
  PROVE  Based'
  <1>1. /\ press'[d].phase = "reading" /\ press'[d].at = 1 /\ press'[d].base = settled
        /\ \A e \in Pressers \ {d} : press'[e] = press[e]
    BY DEF TypeOK, Press
  <1>2. unlocked /\ UNCHANGED <<settings, creds, unlocked, settled>>
    BY DEF Press, stored, forms
  <1>3. \A j \in 1 .. 6 : ~(j < 1)
    OBVIOUS
  <1>4. QED
    BY <1>1, <1>2, <1>3 DEF Based, SettingOrDefault

LEMMA ReadHolds ==
  ASSUME TypeOK, Based, NEW d \in Pressers, syncSettings(d)
  PROVE  Based'
  <1> DEFINE p == press[d]
             k == Keys[p.at]
  <1>1. /\ p.at \in 1 .. 6
        /\ press'[d].phase = "reading" /\ press'[d].base = p.base /\ press'[d].at = p.at + 1
        /\ press'[d].got = [p.got EXCEPT ![k] = SettingOrDefault(k)]
        /\ \A e \in Pressers \ {d} : press'[e] = press[e]
    BY ReadStep
  <1>2. UNCHANGED <<settings, creds, unlocked, settled>> /\ p.phase = "reading"
    BY DEF syncSettings, stored, forms
  <1>3. p.got \in [Names -> Values \cup {Blank}]
    BY DEF TypeOK, Presses, Fields
  <1>4. k \in Names
    BY <1>1, KeysAreNames
  <1>5. ASSUME NEW j \in 1 .. 6, j < p.at + 1, p.base # None
        PROVE  press'[d].got[Keys[j]] = SettingOrDefault(Keys[j])
    <2>1. Keys[j] \in Names
      BY KeysAreNames
    <2>2. CASE j = p.at
      BY <1>1, <1>3, <1>4, <2>2
    <2>3. CASE j # p.at
      <3>1. j < p.at /\ Keys[j] # k
        BY <1>1, <1>5, <2>3, KeysAreNames
      <3>2. p.got[Keys[j]] = SettingOrDefault(Keys[j])
        BY <1>2, <1>5, <3>1 DEF Based
      <3>3. QED
        BY <1>1, <1>3, <2>1, <3>1, <3>2
    <2>4. QED
      BY <2>2, <2>3
  <1>6. \A j \in 1 .. 6 : (SettingOrDefault(Keys[j]))' = SettingOrDefault(Keys[j])
    BY <1>2 DEF SettingOrDefault, Keys
  <1> HIDE DEF p, k
  <1>7. ASSUME NEW e \in Pressers, press'[e].base # None
        PROVE  /\ press'[e].base = settled' /\ unlocked'
               /\ press'[e].phase = "reading" =>
                    \A j \in 1 .. 6 :
                      j < press'[e].at => press'[e].got[Keys[j]] = SettingOrDefault(Keys[j])
               /\ press'[e].phase = "calling" =>
                    /\ press'[e].got = press'[e].base.fields
                    /\ press'[e].token = press'[e].base.creds["github_token"]
    <2>1. CASE e = d
      BY <1>1, <1>2, <1>5, <1>7, <2>1 DEF Based, p
    <2>2. CASE e # d
      BY <1>1, <1>2, <1>7, <2>2 DEF Based
    <2>3. QED
      BY <2>1, <2>2
  <1>8. QED
    BY <1>6, <1>7 DEF Based

LEMMA SendHolds ==
  ASSUME TypeOK, Settled, Based, NEW d \in Pressers, Send(d)
  PROVE  Based'
  <1>1. /\ press'[d].phase = "calling" /\ press'[d].base = press[d].base
        /\ press'[d].got = press[d].got /\ press'[d].token = creds["github_token"]
        /\ \A e \in Pressers \ {d} : press'[e] = press[e]
    BY SendStep
  <1>2. UNCHANGED <<settings, creds, unlocked, settled>>
    BY DEF Send, stored, forms
  <1>3. ASSUME press[d].base # None
        PROVE  /\ press[d].base = settled /\ unlocked
               /\ press[d].got = settled.fields
               /\ creds["github_token"] = settled.creds["github_token"]
    <2>1. press[d].base = settled /\ unlocked
      BY <1>3 DEF Based
    <2>2. press[d].got = Reads
      BY <1>3, ReadWhole DEF Send
    <2>3. SpecValid(Reads)
      BY <2>2 DEF Send, Dispatchable
    <2>4. QED
      BY <1>3, <2>1, <2>2, <2>3, ReadsSettled DEF Settled
  <1>4. QED
    BY <1>1, <1>2, <1>3 DEF Based, SettingOrDefault

\* A step that touches neither the store nor any press but to end it.
Ending ==
  /\ UNCHANGED <<settings, creds, settled>>
  /\ unlocked => unlocked' \/ \A d \in Pressers : press'[d].base = None
  /\ \A d \in Pressers : press'[d] = press[d] \/ press'[d].base = None

LEMMA EndingHolds == ASSUME TypeOK, Based, Ending PROVE Based'
  BY DEF Based, Ending, SettingOrDefault

LEMMA BasedHolds ==
  ASSUME TypeOK, Progress, Settled, Based, [Next]_vars PROVE Based'
  <1>1. ASSUME Saving PROVE Based'
    <2>1. CASE \E s \in Savers, form \in Forms : handleSyncSettings(s, form)
      <3>1. \A d \in Pressers : press'[d].base = None
        BY <2>1, BaseGone DEF handleSyncSettings
      <3>2. QED
        BY <3>1 DEF Based
    <2>2. CASE \E s \in Savers :
                 saveSyncForms(s) \/ SaveToken(s) \/ SavePassword(s) \/ SaveFails(s)
      <3>1. settled = None /\ press' = press
        BY <2>2, SaveShuts
        DEF saveSyncForms, SaveToken, SavePassword, SaveFails, button
      <3>2. \A d \in Pressers : press'[d].base = None
        BY <3>1 DEF Based
      <3>3. QED
        BY <3>2 DEF Based
    <2>3. QED
      BY <1>1, <2>1, <2>2 DEF Saving
  <1>2. ASSUME Dispatching PROVE Based'
    <2>1. ASSUME NEW d \in Pressers, NEW page, End(d, page)
          PROVE  \A e \in Pressers : press'[e] = press[e] \/ press'[e].base = None
      BY <2>1 DEF TypeOK, End, Nobody
    <2>2. ASSUME NEW d \in Pressers,
                 Refuse(d) \/ Answered(d) \/ CallFails(d) \/ PressFails(d)
          PROVE  Ending
      <3>1. UNCHANGED <<settings, creds, settled, unlocked>>
        BY <2>2 DEF Refuse, Answered, CallFails, PressFails, stored, forms
      <3>2. \A e \in Pressers : press'[e] = press[e] \/ press'[e].base = None
        BY <2>1, <2>2 DEF Refuse, Answered, CallFails, PressFails, TypeOK, Nobody
      <3>3. QED
        BY <3>1, <3>2 DEF Ending
    <2>3. QED
      BY <1>2, <2>2, EndingHolds, PressHolds, ReadHolds, SendHolds DEF Dispatching
  <1>3. ASSUME ~Saving, ~Dispatching PROVE Ending
    <2>1. CASE Lock
      BY <2>1, BaseGone DEF Ending, Lock, stored, forms
    <2>2. CASE Restart
      BY <2>2 DEF Ending, Restart, Nobody, stored
    <2>3. CASE GitHub \/ Unlock \/ UNCHANGED vars
      BY <2>3 DEF Ending, GitHub, Accept, Drop, Unlock, vars, stored, forms, button
    <2>4. QED
      BY <1>3, <2>1, <2>2, <2>3 DEF Next
  <1>4. QED
    BY <1>1, <1>2, <1>3, EndingHolds

-----------------------------------------------------------------------------
(* What is sent.                                                           *)

\* Only Send begins a call, and no step changes one but to end it.
LEMMA CallsBegin ==
  ASSUME TypeOK, [Next]_vars, NEW d \in Pressers, press'[d].phase = "calling"
  PROVE  Send(d) \/ /\ press[d].phase = "calling"
                    /\ press'[d].n = press[d].n /\ press'[d].got = press[d].got
                    /\ press'[d].images = press[d].images /\ press'[d].token = press[d].token
  <1>1. CASE press'[d] = press[d]
    BY <1>1
  <1>2. CASE press'[d] = [press[d] EXCEPT !.base = None]
    <2>1. press[d] \in Presses
      BY DEF TypeOK
    <2>2. QED
      BY <1>2, <2>1 DEF Presses
  <1>3. CASE press'[d] = Nobody
    BY <1>3 DEF Nobody
  <1>4. CASE \E e \in Pressers, images \in BOOLEAN : Press(e, images)
    <2>1. PICK e \in Pressers, images \in BOOLEAN : Press(e, images)
      BY <1>4
    <2>2. CASE e = d
      BY <2>1, <2>2 DEF TypeOK, Press
    <2>3. CASE e # d
      BY <1>1, <2>1, <2>3 DEF TypeOK, Press
    <2>4. QED
      BY <2>2, <2>3
  <1>5. CASE \E e \in Pressers : syncSettings(e)
    <2>1. PICK e \in Pressers : syncSettings(e)
      BY <1>5
    <2>2. CASE e = d
      BY <2>1, <2>2, ReadStep
    <2>3. CASE e # d
      BY <1>1, <2>1, <2>3, ReadStep
    <2>4. QED
      BY <2>2, <2>3
  <1>6. CASE \E e \in Pressers : Send(e)
    <2>1. PICK e \in Pressers : Send(e)
      BY <1>6
    <2>2. CASE e = d
      BY <2>1, <2>2
    <2>3. CASE e # d
      BY <1>1, <2>1, <2>3, SendStep
    <2>4. QED
      BY <2>2, <2>3
  <1>7. ASSUME NEW e \in Pressers, NEW page, End(e, page)
        PROVE  press'[d] = press[d] \/ press'[d] = Nobody
    BY <1>7 DEF TypeOK, End
  <1>8. CASE Saving
    BY <1>1, <1>2, <1>8
    DEF Saving, handleSyncSettings, Unsettled, saveSyncForms, SaveToken, SavePassword,
        SaveFails, button
  <1>9. CASE \E e \in Pressers : Refuse(e) \/ Answered(e) \/ CallFails(e) \/ PressFails(e)
    BY <1>1, <1>3, <1>7, <1>9 DEF Refuse, Answered, CallFails, PressFails, TypeOK
  <1>10. CASE GitHub \/ Unlock \/ Lock \/ Restart \/ UNCHANGED vars
    BY <1>1, <1>2, <1>3, <1>10
    DEF GitHub, Accept, Drop, Unlock, Lock, Unsettled, Restart, vars, button
  <1>11. QED
    BY <1>4, <1>5, <1>6, <1>8, <1>9, <1>10 DEF Next, Dispatching

LEMMA SentHolds == ASSUME TypeOK, SentValid, [Next]_vars PROVE SentValid'
  <1> SUFFICES ASSUME NEW d \in Pressers, press'[d].phase = "calling"
               PROVE  /\ SpecValid(press'[d].got) /\ TargetValid(press'[d].got)
                      /\ press'[d].images /\ press'[d].token \in Secrets
    BY DEF SentValid, SpecValid, TargetValid, Good
  <1>1. CASE Send(d)
    <2>1. /\ press'[d].got = press[d].got /\ press'[d].images = press[d].images
          /\ press'[d].token = creds["github_token"]
      BY <1>1, SendStep
    <2>2. /\ SpecValid(press[d].got) /\ TargetValid(press[d].got) /\ press[d].images
          /\ creds["github_token"] # Blank
      BY <1>1 DEF Send, Dispatchable, HasToken
    <2>3. creds["github_token"] \in Secrets
      BY <2>2 DEF TypeOK, Creds, Slots
    <2>4. QED
      BY <2>1, <2>2, <2>3
  <1>2. CASE ~Send(d)
    BY <1>2, CallsBegin DEF SentValid
  <1>3. QED
    BY <1>1, <1>2

-----------------------------------------------------------------------------
(* Runs.                                                                   *)

\* A step that sends nothing and starts nothing: presses only end.
Waiting ==
  /\ UNCHANGED <<presses, wire, ran>>
  /\ \A d \in Pressers :
       press'[d].phase = "idle" \/ /\ press'[d].phase = press[d].phase
                                   /\ press'[d].n = press[d].n
  /\ \A n \in 1 .. MaxPresses : told'[n] = "dispatched" => told[n] = "dispatched" \/ ran[n] > 0

LEMMA WaitingHolds ==
  ASSUME TypeOK, Numbered, Counted, Waiting PROVE Numbered' /\ Counted'
  <1>1. Numbered'
    BY DEF Numbered, Waiting
  <1>2. ASSUME NEW n \in 1 .. MaxPresses
        PROVE  /\ n \in wire' => ran'[n] = 0 /\ n <= presses'
               /\ n > presses' => ran'[n] = 0
               /\ ran'[n] <= 1
               /\ told'[n] = "dispatched" => ran'[n] = 1
    <2>1. ran[n] \in Nat
      BY DEF TypeOK
    <2>2. QED
      BY <2>1 DEF Counted, Waiting
  <1>3. QED
    BY <1>1, <1>2 DEF Counted

LEMMA PressCounts ==
  ASSUME TypeOK, Numbered, Counted, NEW d \in Pressers, NEW images \in BOOLEAN,
         Press(d, images)
  PROVE  Numbered' /\ Counted'
  <1>1. /\ press'[d].phase = "reading" /\ press'[d].n = presses + 1
        /\ \A e \in Pressers \ {d} : press'[e] = press[e]
        /\ presses' = presses + 1 /\ presses \in Nat /\ presses < MaxPresses
        /\ UNCHANGED <<wire, ran, told>>
    BY RelocationAssumption DEF TypeOK, Press, remote
  <1>2. presses + 1 \in 1 .. MaxPresses
    BY <1>1, RelocationAssumption
  <1>3. presses + 1 \notin wire /\ ran[presses + 1] = 0
    BY <1>1, <1>2 DEF Counted
  <1>4. \A e \in Pressers : press[e].phase # "idle" => press[e].n \in 1 .. presses
    BY DEF Numbered
  <1>5. ASSUME NEW e \in Pressers, press'[e].phase # "idle"
        PROVE  /\ press'[e].n \in 1 .. presses'
               /\ \A f \in Pressers \ {e} : press'[f].phase # "idle" => press'[f].n # press'[e].n
               /\ press'[e].phase = "reading" =>
                    press'[e].n \notin wire' /\ ran'[press'[e].n] = 0
    <2>1. CASE e = d
      BY <1>1, <1>2, <1>3, <1>4, <2>1
    <2>2. CASE e # d
      <3>1. press'[e].n \in 1 .. presses /\ press'[e].n # presses + 1
        BY <1>1, <1>4, <1>5, <2>2
      <3>2. \A f \in Pressers \ {e} : press'[f].phase # "idle" => press'[f].n # press'[e].n
        BY <1>1, <1>5, <2>2, <3>1 DEF Numbered
      <3>3. press'[e].phase = "reading" => press'[e].n \notin wire' /\ ran'[press'[e].n] = 0
        BY <1>1, <1>5, <2>2 DEF Numbered
      <3>4. QED
        BY <1>1, <3>1, <3>2, <3>3
    <2>3. QED
      BY <2>1, <2>2
  <1>6. Numbered'
    BY <1>5 DEF Numbered
  <1>7. Counted'
    BY <1>1 DEF Counted
  <1>8. QED
    BY <1>6, <1>7

LEMMA ReadCounts ==
  ASSUME TypeOK, Numbered, Counted, NEW d \in Pressers, syncSettings(d)
  PROVE  Numbered' /\ Counted'
  <1>1. Waiting
    BY ReadStep DEF Waiting, syncSettings, remote
  <1>2. QED
    BY <1>1, WaitingHolds

LEMMA SendCounts ==
  ASSUME TypeOK, Numbered, Counted, NEW d \in Pressers, Send(d)
  PROVE  Numbered' /\ Counted'
  <1>1. /\ press'[d].phase = "calling" /\ press'[d].n = press[d].n
        /\ \A e \in Pressers \ {d} : press'[e] = press[e]
        /\ wire' = wire \cup {press[d].n} /\ UNCHANGED <<presses, ran, told>>
        /\ press[d].phase = "reading"
    BY SendStep DEF Send, Ready
  <1>2. press[d].n \in 1 .. presses /\ ran[press[d].n] = 0
    BY <1>1 DEF Numbered
  <1>3. Numbered'
    BY <1>1 DEF Numbered
  <1>4. Counted'
    BY <1>1, <1>2 DEF Counted
  <1>5. QED
    BY <1>3, <1>4

LEMMA GitHubCounts ==
  ASSUME TypeOK, Numbered, Counted, GitHub PROVE Numbered' /\ Counted'
  <1>1. ASSUME NEW n \in 1 .. MaxPresses, Accept(n) PROVE Numbered' /\ Counted'
    <2>1. n \in wire /\ ran[n] = 0 /\ n <= presses
      BY <1>1 DEF Accept, Counted
    <2>2. /\ ran'[n] = 1 /\ \A m \in 1 .. MaxPresses : m # n => ran'[m] = ran[m]
          /\ wire' = wire \ {n} /\ UNCHANGED <<press, presses, told>>
      BY <1>1, <2>1 DEF TypeOK, Accept, button
    <2>3. Counted'
      BY <2>1, <2>2 DEF Counted, TypeOK
    <2>4. \A d \in Pressers : press[d].phase # "idle" => press[d].n \in 1 .. MaxPresses
      BY RelocationAssumption DEF Numbered, TypeOK
    <2>5. Numbered'
      BY <2>1, <2>2, <2>4 DEF Numbered
    <2>6. QED
      BY <2>3, <2>5
  <1>2. ASSUME NEW n \in 1 .. MaxPresses, Drop(n) PROVE Numbered' /\ Counted'
    BY <1>2 DEF Drop, Numbered, Counted, button
  <1>3. QED
    BY <1>1, <1>2 DEF GitHub

LEMMA EndWaits ==
  ASSUME TypeOK, NEW d \in Pressers, NEW page, End(d, page), UNCHANGED <<presses, wire, ran>>,
         page = "dispatched" => ran[press[d].n] > 0
  PROVE  Waiting
  <1>1. \A e \in Pressers : press'[e] = press[e] \/ press'[e].phase = "idle"
    BY DEF TypeOK, End, Nobody
  <1>2. ASSUME NEW n \in 1 .. MaxPresses, told'[n] = "dispatched"
        PROVE  told[n] = "dispatched" \/ ran[n] > 0
    BY <1>2 DEF TypeOK, End
  <1>3. QED
    BY <1>1, <1>2 DEF Waiting

\* What saving, locking and restarting do to presses.
LEMMA OthersWait ==
  ASSUME TypeOK, [Next]_vars, ~Dispatching, ~GitHub PROVE Waiting
  <1>1. UNCHANGED <<presses, wire, ran, told>>
    BY DEF Next, Saving, handleSyncSettings, saveSyncForms, SaveToken, SavePassword, SaveFails,
           Unlock, Lock, Restart, vars, button, remote
  <1>2. \/ press' = press
        \/ Unsettled
        \/ press' = [d \in Pressers |-> Nobody]
    BY DEF Next, Saving, handleSyncSettings, saveSyncForms, SaveToken, SavePassword, SaveFails,
           Unlock, Lock, Restart, vars, button
  <1>3. ASSUME NEW d \in Pressers
        PROVE  press'[d].phase = "idle" \/ /\ press'[d].phase = press[d].phase
                                           /\ press'[d].n = press[d].n
    <2>1. CASE Unsettled
      <3>1. press[d] \in Presses
        BY DEF TypeOK
      <3>2. QED
        BY <2>1, <3>1 DEF Unsettled, Presses
    <2>2. QED
      BY <1>2, <2>1 DEF Nobody
  <1>4. QED
    BY <1>1, <1>3 DEF Waiting

LEMMA CountHolds ==
  ASSUME TypeOK, Numbered, Counted, [Next]_vars PROVE Numbered' /\ Counted'
  <1>1. ASSUME NEW d \in Pressers, Refuse(d) \/ Answered(d) \/ CallFails(d) PROVE Waiting
    BY <1>1, EndWaits DEF Refuse, Answered, CallFails, remote
  <1>2. ASSUME NEW d \in Pressers, PressFails(d) PROVE Waiting
    BY <1>2 DEF PressFails, Waiting, TypeOK, Nobody, remote
  <1>3. CASE Dispatching
    BY <1>1, <1>2, <1>3, WaitingHolds, PressCounts, ReadCounts, SendCounts DEF Dispatching
  <1>4. CASE GitHub
    BY <1>4, GitHubCounts
  <1>5. CASE ~Dispatching /\ ~GitHub
    BY <1>5, OthersWait, WaitingHolds
  <1>6. QED
    BY <1>3, <1>4, <1>5

-----------------------------------------------------------------------------
LEMMA InitHolds == Init => Invariant
  <1>1. ASSUME Init PROVE Invariant
    <2>1. TypeOK
      BY <1>1, InitTyped
    <2>2. Progress
      BY <1>1 DEF Init, Progress
    <2>3. Settled
      BY <1>1 DEF Init, Settled, Fresh, NoFields, Names
    <2>4. Based /\ SentValid /\ Numbered
      BY <1>1 DEF Init, Nobody, Based, SentValid, Numbered
    <2>5. Counted
      BY <1>1 DEF Init, Counted
    <2>6. QED
      BY <2>1, <2>2, <2>3, <2>4, <2>5 DEF Invariant
  <1>2. QED
    BY <1>1

LEMMA InvariantHolds == Spec => []Invariant
  <1>1. Invariant /\ [Next]_vars => Invariant'
    BY StepTyped, SaveHolds, BasedHolds, SentHolds, CountHolds DEF Invariant
  <1>2. QED
    BY <1>1, InitHolds, PTL DEF Spec

-----------------------------------------------------------------------------
(* The theorems.                                                           *)

\* Every variable keeps its type, whatever fails, crosses or restarts.
THEOREM TypeCorrect == Spec => []TypeOK
  <1>1. Invariant => TypeOK
    BY DEF Invariant
  <1>2. QED
    BY <1>1, InvariantHolds, PTL

\* A save that met no other leaves what was typed (handleSyncSettings).
THEOREM SavesAreWhole == Spec => []SavedWhole
  <1>1. Invariant => SavedWhole
    BY DEF Invariant, Settled, SavedWhole
  <1>2. QED
    BY <1>1, InvariantHolds, PTL

\* A press that nothing disturbed sends what was saved, with its token, exactly
\* when the page said that it could (handleSyncDispatch).
THEOREM SendsAreWhole == Spec => []SentWhole
  <1>1. ASSUME Invariant, NEW d \in Pressers, press[d].base # None
        PROVE  /\ press[d].phase = "calling" =>
                    /\ press[d].got = press[d].base.fields
                    /\ press[d].token = press[d].base.creds["github_token"]
               /\ Ready(d) /\ press[d].images => (Dispatchable(d) /\ HasToken <=> Configured)
    <2>1. Ready(d) => press[d].got = Reads
      BY <1>1, ReadWhole DEF Invariant
    <2>2. Configured <=> HasToken /\ SpecValid(Reads) /\ TargetValid(Reads)
      BY DEF Configured, HasToken, Reads
    <2>3. Ready(d) /\ press[d].images => (Dispatchable(d) /\ HasToken <=> Configured)
      BY <2>1, <2>2 DEF Dispatchable
    <2>4. QED
      BY <1>1, <2>3 DEF Invariant, Based
  <1>2. Invariant => SentWhole
    BY <1>1 DEF SentWhole
  <1>3. QED
    BY <1>2, InvariantHolds, PTL

\* What is sent could be sent: a whole repository, a whole target, an image and a
\* token (Spec.Validate, Target.Validate, Inputs.Validate).
THEOREM SendsAreValid == Spec => []SentValid
  <1>1. Invariant => SentValid
    BY DEF Invariant
  <1>2. QED
    BY <1>1, InvariantHolds, PTL

\* No press starts two runs, and none is announced that was not started.
THEOREM RunsAreCounted == Spec => []RunsMatchPresses
  <1>1. Invariant => RunsMatchPresses
    BY DEF Invariant, Counted, RunsMatchPresses
  <1>2. QED
    BY <1>1, InvariantHolds, PTL
=============================================================================
