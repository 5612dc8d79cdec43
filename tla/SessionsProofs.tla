--------------------------- MODULE SessionsProofs ---------------------------
(***************************************************************************)
(* Theorems about Sessions, for any sessions, requests in flight, lifetime *)
(* and bound on the clock.                                                 *)
(***************************************************************************)
EXTENDS Sessions, TLAPS

\* What a request knows of its session at each step, and how long a row lasts.
Known(r) ==
  /\ pc[r] # "idle" => who[r] \in Ids /\ active[who[r]] # None
  /\ pc[r] = "judge" => found[r] # None /\ found[r] <= active[who[r]] + TTL
  /\ pc[r] = "touch" => now[r] # None /\ now[r] < active[who[r]] + TTL

Lasts(i) == row[i] # None => active[i] # None /\ row[i] <= active[i] + TTL

IInv ==
  /\ TypeOK
  /\ \A r \in Requests : Known(r)
  /\ \A i \in Ids : Lasts(i)

LEMMA NoneIsNoTime == None \notin Int /\ None \notin Ids
BY NoneAssumption

LEMMA InitInv == Init => IInv
BY TimeAssumption DEF Init, IInv, TypeOK, Known, Lasts, Opt, Times, Ends

\* Steps of one request leave what the others know as it was.
LEMMA EndInv ==
  ASSUME IInv, NEW r \in Requests, End(r), UNCHANGED <<clock, active, sweeping>>,
         TypeOK', \A i \in Ids : row'[i] \in {row[i], None}
  PROVE  IInv'
<1>1. ASSUME NEW q \in Requests PROVE Known(q)'
  BY <1>1 DEF IInv, TypeOK, End, Known
<1>2. ASSUME NEW i \in Ids PROVE Lasts(i)'
  BY <1>2 DEF IInv, Lasts
<1>. QED BY <1>1, <1>2 DEF IInv

LEMMA StepInv ==
  ASSUME IInv, NEW r \in Requests,
         \/ Judge(r) \/ Touch(r) \/ Reap(r) \/ Fail(r) \/ Logout(r) \/ KickAll(r)
  PROVE  IInv'
<1>0. TypeOK /\ Known(r)
  BY DEF IInv
<1>1. CASE Judge(r)
  <2>1. TypeOK'
    BY <1>0, <1>1 DEF Judge, TypeOK, Opt
  <2>2. ASSUME NEW q \in Requests PROVE Known(q)'
    <3>1. CASE q = r
      BY <1>0, <1>1, <3>1, NoneIsNoTime, TimeAssumption
      DEF Judge, TypeOK, Known, Opt, Times, Ends
    <3>2. CASE q # r
      BY <1>1, <2>2, <3>2 DEF Judge, IInv, TypeOK, Known
    <3>. QED BY <3>1, <3>2
  <2>3. ASSUME NEW i \in Ids PROVE Lasts(i)'
    BY <1>1, <2>3 DEF Judge, IInv, Lasts
  <2>. QED BY <2>1, <2>2, <2>3 DEF IInv
<1>2. CASE Touch(r) /\ row[who[r]] = None
  <2>1. TypeOK'
    BY <1>0, <1>2 DEF Touch, Reject, Forget, End, TypeOK, Opt
  <2>. QED BY <1>0, <1>2, <2>1, EndInv DEF Touch, Reject, TypeOK
<1>3. CASE Touch(r) /\ row[who[r]] # None
  <2>0. /\ who[r] \in Ids /\ active[who[r]] \in Times /\ active[who[r]] # None
        /\ now[r] \in Times
        /\ row' = [row EXCEPT ![who[r]] = now[r] + TTL]
        /\ active' = [active EXCEPT ![who[r]] = IF @ < now[r] THEN now[r] ELSE @]
        /\ UNCHANGED <<cookie, clock, ended, sweeping>>
    BY <1>0, <1>3 DEF Touch, Admit, Used, Known, TypeOK, Opt
  <2>1. now[r] + TTL \in Ends /\ \A t \in Times : t \in Int
    BY <2>0, TimeAssumption DEF Times, Ends
  <2>2. /\ pc'[r] \in {"idle", "logout", "change"}
        /\ who' \in [Requests -> Opt(Ids)] /\ found' \in [Requests -> Opt(Ends)]
        /\ now' \in [Requests -> Opt(Times)]
        /\ pc' \in [Requests -> {"idle", "judge", "touch", "reap", "logout", "change"}]
        /\ pc'[r] # "idle" => who'[r] = who[r]
        /\ \A q \in Requests \ {r} :
             pc'[q] = pc[q] /\ who'[q] = who[q] /\ found'[q] = found[q] /\ now'[q] = now[q]
    BY <1>0, <1>3 DEF Touch, Admit, End, TypeOK, Opt
  <2>3. row' \in [Ids -> Opt(Ends)] /\ active' \in [Ids -> Opt(Times)]
    BY <1>0, <2>0, <2>1 DEF TypeOK, Opt
  <2>4. TypeOK'
    <3>1. alone' \in [Ids -> Opt(Times)]
      BY <1>0, <1>3, <2>0 DEF Touch, Admit, Used, TypeOK, Opt
    <3>. QED BY <1>0, <2>0, <2>2, <2>3, <3>1 DEF TypeOK
  <2>5. \A i \in Ids : active[i] # None => /\ active'[i] # None
                                           /\ active'[i] >= active[i]
    <3>. SUFFICES ASSUME NEW i \in Ids, active[i] # None
         PROVE  active'[i] # None /\ active'[i] >= active[i]
      OBVIOUS
    <3>1. active[i] \in Times
      BY <1>0 DEF TypeOK, Opt
    <3>. QED BY <1>0, <2>0, <2>1, <3>1, NoneIsNoTime DEF TypeOK
  <2>6. ASSUME NEW q \in Requests PROVE Known(q)'
    <3>1. CASE q = r
      BY <1>0, <2>0, <2>2, <2>5, <3>1 DEF Known
    <3>2. CASE q # r
      <4>1. Known(q)
        BY DEF IInv
      <4>2. CASE pc[q] = "idle"
        BY <2>2, <3>2, <4>2 DEF Known
      <4>3. CASE pc[q] # "idle"
        <5>1. who[q] \in Ids /\ active[who[q]] \in Int /\ active'[who[q]] \in Int
              /\ active'[who[q]] # None /\ active'[who[q]] >= active[who[q]]
          BY <1>0, <2>1, <2>3, <2>5, <4>1, <4>3 DEF Known, TypeOK, Opt
        <5>2. found[q] \in Int \cup {None} /\ now[q] \in Int \cup {None} /\ TTL \in Int
          BY <1>0, TimeAssumption DEF TypeOK, Opt, Times, Ends
        <5>. QED BY <2>2, <3>2, <4>1, <4>3, <5>1, <5>2 DEF Known
      <4>. QED BY <4>2, <4>3
    <3>. QED BY <3>1, <3>2
  <2>7. ASSUME NEW i \in Ids PROVE Lasts(i)'
    <3>1. Lasts(i)
      BY DEF IInv
    <3>2. CASE i = who[r]
      BY <1>0, <2>0, <2>1, <2>5, <3>2, TimeAssumption, NoneIsNoTime DEF Lasts, TypeOK, Times
    <3>3. CASE i # who[r]
      BY <1>0, <2>0, <3>1, <3>3 DEF Lasts, TypeOK
    <3>. QED BY <3>2, <3>3
  <2>. QED BY <2>4, <2>6, <2>7 DEF IInv
<1>4. CASE Reap(r)
  <2>1. TypeOK'
    BY <1>0, <1>4 DEF Reap, Reject, Forget, End, TypeOK, Opt
  <2>. QED BY <1>0, <1>4, <2>1, EndInv DEF Reap, Reject, TypeOK
<1>5. CASE Fail(r)
  <2>1. TypeOK'
    BY <1>0, <1>5 DEF Fail, End, TypeOK, Opt
  <2>. QED BY <1>0, <1>5, <2>1, EndInv DEF Fail, TypeOK
<1>6. CASE Logout(r)
  <2>1. TypeOK'
    BY <1>0, <1>6 DEF Logout, Forget, End, TypeOK, Opt, Known
  <2>. QED BY <1>0, <1>6, <2>1, EndInv DEF Logout, TypeOK
<1>7. CASE KickAll(r)
  <2>1. TypeOK'
    BY <1>0, <1>7 DEF KickAll, Forget, End, TypeOK, Opt
  <2>. QED BY <1>0, <1>7, <2>1, EndInv DEF KickAll, TypeOK
<1>. QED BY <1>1, <1>2, <1>3, <1>4, <1>5, <1>6, <1>7

LEMMA NextInv == IInv /\ [Next]_vars => IInv'
<1>. SUFFICES ASSUME IInv, [Next]_vars PROVE IInv'
  OBVIOUS
<1>0. TypeOK /\ (\A r \in Requests : Known(r)) /\ (\A i \in Ids : Lasts(i))
  BY DEF IInv
<1>1. CASE Tick
  BY <1>0, <1>1, TimeAssumption DEF Tick, IInv, TypeOK, Known, Lasts, Times, reqs
<1>2. ASSUME NEW i \in Ids, Login(i) PROVE IInv'
  <2>0. clock \in Int /\ clock # None /\ clock + TTL \in Ends /\ clock + TTL \in Int /\ TTL \in Int
    BY <1>0, TimeAssumption, NoneIsNoTime DEF TypeOK, Times, Ends
  <2>1. TypeOK'
    BY <1>0, <1>2, <2>0 DEF Login, TypeOK, Opt, reqs
  <2>2. ASSUME NEW r \in Requests PROVE Known(r)'
    <3>1. Known(r) /\ (pc[r] # "idle" => who[r] # i)
      BY <1>0, <1>2 DEF Login, Known
    <3>. QED BY <1>0, <1>2, <3>1 DEF Login, Known, TypeOK, reqs
  <2>3. ASSUME NEW j \in Ids PROVE Lasts(j)'
    BY <1>0, <1>2, <2>0 DEF Login, Lasts, TypeOK
  <2>. QED BY <2>1, <2>2, <2>3 DEF IInv
<1>3. ASSUME NEW i \in Ids, LogoutUnknown(i) PROVE IInv'
  BY <1>0, <1>3 DEF LogoutUnknown, Forget, IInv, TypeOK, Known, Lasts, Opt, reqs
<1>4. ASSUME NEW i \in Ids, NEW r \in Requests, Lookup(r, i) PROVE IInv'
  <2>1. TypeOK'
    BY <1>0, <1>4 DEF Lookup, TypeOK, Opt
  <2>2. ASSUME NEW q \in Requests PROVE Known(q)'
    <3>1. Known(q) /\ Lasts(i)
      BY <1>0
    <3>2. CASE q = r
      BY <1>0, <1>4, <3>1, <3>2 DEF Lookup, Known, Lasts, TypeOK
    <3>3. CASE q # r
      BY <1>0, <1>4, <3>1, <3>3 DEF Lookup, Known, TypeOK
    <3>. QED BY <3>2, <3>3
  <2>3. ASSUME NEW j \in Ids PROVE Lasts(j)'
    BY <1>0, <1>4 DEF Lookup, Lasts
  <2>. QED BY <2>1, <2>2, <2>3 DEF IInv
<1>5. CASE SweepTick
  BY <1>0, <1>5 DEF SweepTick, IInv, TypeOK, Known, Lasts, Opt, reqs
<1>6. CASE SweepRun
  BY <1>0, <1>6 DEF SweepRun, IInv, TypeOK, Known, Lasts, Opt, reqs
<1>7. CASE SweepFail
  BY <1>0, <1>7 DEF SweepFail, IInv, TypeOK, Known, Lasts, Opt, reqs
<1>8. CASE Restart
  BY <1>0, <1>8 DEF Restart, IInv, TypeOK, Known, Lasts, Opt
<1>9. CASE UNCHANGED vars
  BY <1>0, <1>9 DEF IInv, TypeOK, Known, Lasts, vars
<1>. QED
  BY <1>1, <1>2, <1>3, <1>4, <1>5, <1>6, <1>7, <1>8, <1>9, StepInv DEF Next

LEMMA AlwaysInv == Spec => []IInv
BY InitInv, NextInv, PTL DEF Spec

\* The rows, the cookies and what the requests know are of their types.
THEOREM TypeCorrect == Spec => []TypeOK
<1>1. IInv => TypeOK
  BY DEF IInv
<1>. QED BY <1>1, AlwaysInv, PTL

\* However requests overlap, no session is judged good TTL after its latest use,
\* and no row is given longer than that.
THEOREM IdleEnds == Spec => []IdleSessionsEnd
<1>1. IInv => IdleSessionsEnd
  BY DEF IInv, Known, Lasts, IdleSessionsEnd
<1>. QED BY <1>1, AlwaysInv, PTL

\* Nothing a request in flight knows brings a revoked session back.
THEOREM RevokedStays == Spec => RevokedStaysRevoked
<1>1. ASSUME IInv, [Next]_vars, NEW i \in Ids, active[i] # None, row[i] = None
      PROVE  row'[i] = None
  BY <1>1
  DEF IInv, TypeOK, Known, Next, vars, Tick, Login, LogoutUnknown, Lookup, Judge, Touch, Admit,
      Reap, Fail, Logout, KickAll, SweepTick, SweepRun, SweepFail, Restart
<1>2. IInv /\ [Next]_vars =>
        [\A i \in Ids : active[i] # None /\ row[i] = None => row'[i] = None]_vars
  BY <1>1
<1>. QED BY <1>2, AlwaysInv, PTL DEF Spec, RevokedStaysRevoked

-----------------------------------------------------------------------------
(* What becomes of a use that no other request overlapped.                 *)

\* A row has a lifetime from that use; an absent one was ended or has run out.
Kept(i) ==
  alone[i] # None =>
    /\ alone[i] <= clock
    /\ row[i] # None => row[i] >= alone[i] + TTL
    /\ row[i] = None => i \in ended \/ clock >= alone[i] + TTL

\* What a request read, it read after that use: it can write or reap no sooner.
Since(r) ==
  /\ pc[r] \in {"judge", "touch", "reap"} => alone[who[r]] # None
  /\ pc[r] = "judge" => found[r] >= alone[who[r]] + TTL
  /\ pc[r] = "touch" => alone[who[r]] <= now[r] /\ now[r] <= clock
  /\ pc[r] = "reap"  => clock >= alone[who[r]] + TTL

AloneInv ==
  /\ \A i \in Ids : active[i] # None => alone[i] # None
  /\ sweeping # None => sweeping <= clock
  /\ \A i \in Ids : Kept(i)
  /\ \A r \in Requests : Since(r)

LEMMA AloneInit == Init => AloneInv
BY DEF Init, AloneInv, Kept, Since

\* The numbers are numbers, and what each request knows holds.
LEMMA Numbers ==
  ASSUME IInv, AloneInv
  PROVE  /\ TypeOK /\ (\A r \in Requests : Known(r)) /\ (\A i \in Ids : Kept(i))
         /\ (\A r \in Requests : Since(r))
         /\ \A i \in Ids : active[i] # None => alone[i] # None
         /\ clock \in Int /\ TTL \in Nat \ {0} /\ clock # None
         /\ \A i \in Ids : alone[i] # None => alone[i] \in Int
         /\ \A i \in Ids : row[i] # None => row[i] \in Int
         /\ \A r \in Requests : now[r] # None => now[r] \in Int
         /\ \A r \in Requests : found[r] # None => found[r] \in Int
         /\ sweeping # None => sweeping \in Int /\ sweeping <= clock
BY TimeAssumption, NoneIsNoTime DEF IInv, AloneInv, TypeOK, Opt, Times, Ends

\* A request that ends, and at most takes rows that were ended or have run out.
LEMMA EndAlone ==
  ASSUME IInv, AloneInv, NEW r \in Requests, End(r),
         UNCHANGED <<clock, active, alone, sweeping>>, ended \subseteq ended',
         \A i \in Ids : \/ row'[i] = row[i]
                       \/ /\ row'[i] = None
                          /\ i \in ended' \/ clock >= alone[i] + TTL
  PROVE  AloneInv'
<1>0. TypeOK /\ (\A i \in Ids : Kept(i)) /\ (\A q \in Requests : Since(q))
  BY DEF IInv, AloneInv
<1>1. ASSUME NEW q \in Requests PROVE Since(q)'
  BY <1>0, <1>1 DEF TypeOK, End, Since
<1>2. ASSUME NEW i \in Ids PROVE Kept(i)'
  BY <1>0, <1>2 DEF Kept
<1>. QED BY <1>1, <1>2 DEF AloneInv

\* A use: the row slides from the time it read.
LEMMA UseAlone ==
  ASSUME IInv, AloneInv, NEW r \in Requests, Touch(r), row[who[r]] # None
  PROVE  AloneInv'
<1>0. /\ TypeOK /\ (\A q \in Requests : Known(q)) /\ (\A i \in Ids : Kept(i))
      /\ (\A q \in Requests : Since(q)) /\ clock \in Int /\ TTL \in Nat \ {0}
      /\ \A i \in Ids : active[i] # None => alone[i] # None
      /\ \A i \in Ids : alone[i] # None => alone[i] \in Int
      /\ sweeping # None => sweeping <= clock
  BY Numbers
<1>1. /\ who[r] \in Ids /\ now[r] \in Int /\ now[r] # None /\ now[r] <= clock
      /\ alone[who[r]] # None /\ alone[who[r]] \in Int /\ alone[who[r]] <= now[r]
      /\ active[who[r]] # None
  BY <1>0, Numbers DEF Touch, Known, Since
<1>2. /\ row' = [row EXCEPT ![who[r]] = now[r] + TTL]
      /\ alone' = [alone EXCEPT ![who[r]] = IF Overlapped(r) THEN @ ELSE now[r]]
      /\ UNCHANGED <<clock, ended, sweeping>>
      /\ pc'[r] \in {"idle", "logout", "change"}
  BY <1>0 DEF Touch, Admit, Used, End, TypeOK
<1>3. \A i \in Ids : i # who[r] => active'[i] = active[i]
  BY <1>0 DEF Touch, Admit, Used, TypeOK
<1>4. \A q \in Requests \ {r} :
        pc'[q] = pc[q] /\ who'[q] = who[q] /\ found'[q] = found[q] /\ now'[q] = now[q]
  BY <1>0 DEF Touch, Admit, End, TypeOK
<1>5. \/ alone'[who[r]] = alone[who[r]]
      \/ alone'[who[r]] = now[r] /\ ~Overlapped(r)
  BY <1>0, <1>1, <1>2 DEF TypeOK
<1>6. alone'[who[r]] # None /\ alone'[who[r]] \in Int /\ alone'[who[r]] <= now[r]
  BY <1>1, <1>5
<1>7. \A i \in Ids : i # who[r] => alone'[i] = alone[i] /\ row'[i] = row[i]
  BY <1>0, <1>2 DEF TypeOK
<1>8. row'[who[r]] = now[r] + TTL /\ row'[who[r]] # None
  BY <1>0, <1>1, <1>2, NoneIsNoTime DEF TypeOK
<1>9. ASSUME NEW i \in Ids PROVE Kept(i)'
  <2>1. CASE i = who[r]
    BY <1>0, <1>1, <1>2, <1>6, <1>8, <2>1 DEF Kept
  <2>2. CASE i # who[r]
    BY <1>0, <1>2, <1>7, <2>2 DEF Kept
  <2>. QED BY <2>1, <2>2
<1>10. ASSUME NEW q \in Requests PROVE Since(q)'
  <2>1. CASE q = r
    BY <1>2, <2>1 DEF Since
  <2>2. CASE q # r /\ pc[q] \in {"judge", "touch", "reap"}
    <3>1. who[q] \in Ids
      BY <1>0, <2>2 DEF Known
    <3>2. alone'[who[q]] = alone[who[q]]
      BY <1>5, <1>7, <2>2, <3>1 DEF Overlapped
    <3>. QED BY <1>0, <1>2, <1>4, <2>2, <3>2 DEF Since
  <2>3. CASE q # r /\ pc[q] \notin {"judge", "touch", "reap"}
    BY <1>4, <2>3 DEF Since
  <2>. QED BY <2>1, <2>2, <2>3
<1>11. ASSUME NEW i \in Ids, active'[i] # None PROVE alone'[i] # None
  BY <1>0, <1>3, <1>6, <1>7, <1>11
<1>. QED BY <1>0, <1>2, <1>9, <1>10, <1>11 DEF AloneInv

LEMMA AloneNext == IInv /\ AloneInv /\ [Next]_vars => AloneInv'
<1>. SUFFICES ASSUME IInv, AloneInv, [Next]_vars PROVE AloneInv'
  OBVIOUS
<1>0. /\ TypeOK /\ (\A r \in Requests : Known(r)) /\ (\A i \in Ids : Kept(i))
      /\ (\A r \in Requests : Since(r))
      /\ \A i \in Ids : active[i] # None => alone[i] # None
      /\ clock \in Int /\ TTL \in Nat \ {0} /\ clock # None
      /\ \A i \in Ids : alone[i] # None => alone[i] \in Int
      /\ \A i \in Ids : row[i] # None => row[i] \in Int
      /\ \A r \in Requests : now[r] # None => now[r] \in Int
      /\ \A r \in Requests : found[r] # None => found[r] \in Int
      /\ sweeping # None => sweeping \in Int /\ sweeping <= clock
  BY Numbers
<1>1. CASE Tick
  <2>1. ASSUME NEW i \in Ids PROVE Kept(i)'
    BY <1>0, <1>1, <2>1 DEF Tick, Kept
  <2>2. ASSUME NEW r \in Requests PROVE Since(r)'
    <3>1. pc[r] \in {"judge", "touch", "reap"} => who[r] \in Ids
      BY <1>0, <2>2 DEF Known
    <3>2. Since(r) /\ Known(r) /\ clock' = clock + 1 /\ UNCHANGED <<alone, reqs>>
      BY <1>0, <1>1, <2>2 DEF Tick
    <3>. QED BY <1>0, <2>2, <3>1, <3>2 DEF Since, Known, reqs
  <2>. QED BY <1>0, <1>1, <2>1, <2>2 DEF Tick, AloneInv
<1>2. ASSUME NEW i \in Ids, Login(i) PROVE AloneInv'
  <2>1. ASSUME NEW r \in Requests PROVE Since(r)'
    <3>1. Known(r) /\ Since(r) /\ (pc[r] # "idle" => who[r] # i)
      BY <1>0, <1>2 DEF Login, Known
    <3>. QED BY <1>0, <1>2, <3>1 DEF Login, Known, Since, TypeOK, reqs
  <2>2. ASSUME NEW j \in Ids PROVE Kept(j)'
    BY <1>0, <1>2, NoneIsNoTime DEF Login, Kept, TypeOK
  <2>. QED BY <1>0, <1>2, <2>1, <2>2 DEF Login, AloneInv, TypeOK
<1>3. ASSUME NEW i \in Ids, LogoutUnknown(i) PROVE AloneInv'
  BY <1>0, <1>3 DEF LogoutUnknown, AloneInv, Kept, Since, reqs
<1>4. ASSUME NEW i \in Ids, NEW r \in Requests, Lookup(r, i) PROVE AloneInv'
  <2>1. Kept(i) /\ Lasts(i) /\ alone[i] # None
    BY <1>0, <1>4 DEF IInv, Lasts, Lookup
  <2>2. ASSUME NEW q \in Requests PROVE Since(q)'
    <3>1. CASE q = r
      BY <1>0, <1>4, <2>1, <3>1 DEF Lookup, Since, Kept, TypeOK
    <3>2. CASE q # r
      BY <1>0, <1>4, <3>2 DEF Lookup, Since, TypeOK
    <3>. QED BY <3>1, <3>2
  <2>. QED BY <1>0, <1>4, <2>2 DEF Lookup, AloneInv, Kept
<1>5. CASE SweepTick
  BY <1>0, <1>5 DEF SweepTick, AloneInv, Kept, Since, reqs
<1>6. CASE SweepRun
  <2>1. ASSUME NEW i \in Ids PROVE Kept(i)'
    <3>1. row'[i] = IF row[i] # None /\ row[i] <= sweeping THEN None ELSE row[i]
      BY <1>6 DEF SweepRun
    <3>. QED BY <1>0, <1>6, <3>1 DEF SweepRun, Kept
  <2>. QED BY <1>0, <1>6, <2>1 DEF SweepRun, AloneInv, Since, reqs
<1>7. CASE SweepFail
  BY <1>0, <1>7 DEF SweepFail, AloneInv, Kept, Since, reqs
<1>8. CASE Restart
  BY <1>0, <1>8 DEF Restart, AloneInv, Kept, Since
<1>9. ASSUME NEW r \in Requests, Judge(r) PROVE AloneInv'
  <2>1. Since(r) /\ Known(r) /\ who[r] \in Ids /\ Kept(who[r])
    BY <1>0, <1>9 DEF Judge, Known
  <2>2. ASSUME NEW q \in Requests PROVE Since(q)'
    <3>1. CASE q = r
      BY <1>0, <1>9, <2>1, <3>1 DEF Judge, Since, Known, Kept, TypeOK
    <3>2. CASE q # r
      BY <1>0, <1>9, <3>2 DEF Judge, Since, TypeOK
    <3>. QED BY <3>1, <3>2
  <2>. QED BY <1>0, <1>9, <2>2 DEF Judge, AloneInv, Kept
<1>10. ASSUME NEW r \in Requests, Reap(r) PROVE AloneInv'
  <2>1. Since(r) /\ who[r] \in Ids
    BY <1>0, <1>10 DEF Reap, Known
  <2>2. \A i \in Ids : row'[i] = row[i] \/ (row'[i] = None /\ clock >= alone[i] + TTL)
    BY <1>0, <1>10, <2>1 DEF Reap, Since, TypeOK
  <2>. QED BY <1>10, <2>2, EndAlone DEF Reap, Reject
<1>11. ASSUME NEW r \in Requests, Touch(r) PROVE AloneInv'
  <2>1. CASE row[who[r]] # None
    BY <1>11, <2>1, UseAlone
  <2>2. CASE row[who[r]] = None
    BY <1>11, <2>2, EndAlone DEF Touch, Reject
  <2>. QED BY <2>1, <2>2
<1>12. ASSUME NEW r \in Requests, Fail(r) PROVE AloneInv'
  BY <1>12, EndAlone DEF Fail
<1>13. ASSUME NEW r \in Requests, Logout(r) PROVE AloneInv'
  <2>1. \A i \in Ids : row'[i] = row[i] \/ (row'[i] = None /\ i \in ended')
    BY <1>0, <1>13 DEF Logout, TypeOK
  <2>. QED BY <1>13, <2>1, EndAlone DEF Logout
<1>14. ASSUME NEW r \in Requests, KickAll(r) PROVE AloneInv'
  <2>1. \A i \in Ids : row'[i] = row[i] \/ (row'[i] = None /\ i \in ended')
    BY <1>0, <1>14 DEF KickAll, TypeOK, IInv, Lasts
  <2>. QED BY <1>14, <2>1, EndAlone DEF KickAll
<1>15. CASE UNCHANGED vars
  BY <1>0, <1>15 DEF AloneInv, Kept, Since, vars
<1>. QED
  BY <1>1, <1>2, <1>3, <1>4, <1>5, <1>6, <1>7, <1>8, <1>9, <1>10, <1>11, <1>12, <1>13, <1>14,
     <1>15 DEF Next

\* However many requests, sweeps and crashes follow, and however they interleave, a
\* use that no other request for the session overlapped keeps it for a full lifetime
\* (Authenticate, TouchSession, DeleteExpiredSessions).
THEOREM UsesKeep == Spec => []UseKeepsSession
<1>1. AloneInv /\ IInv => UseKeepsSession
  <2>. SUFFICES ASSUME AloneInv, IInv, NEW i \in Ids, alone[i] # None, i \notin ended,
                       clock < alone[i] + TTL
       PROVE  row[i] # None /\ row[i] >= alone[i] + TTL
    BY DEF UseKeepsSession
  <2>1. Kept(i) /\ clock \in Int /\ alone[i] \in Int /\ TTL \in Int
    BY Numbers
  <2>. QED BY <2>1 DEF Kept
<1>. QED BY <1>1, AloneInit, AloneNext, AlwaysInv, PTL DEF Spec
=============================================================================
