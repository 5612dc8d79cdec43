------------------------------ MODULE Sessions ------------------------------
(***************************************************************************)
(* The life of a session: auth.Manager's Authenticate, Logout, issue and   *)
(* SweepSessions over the sessions table, the browser cookie that carries  *)
(* the session's ID, and the sweeper goroutine of cmd/mirrorpilot.         *)
(*                                                                         *)
(* A browser that logs in gets a fresh ID and presents it with every       *)
(* request, several of them at once when tabs and assets load together.    *)
(* Each request reads the row, then the clock, then slides or reaps the    *)
(* row: three steps that interleave with those of the others, with the     *)
(* sweeper and with time.  Rows outlive the process, requests do not.      *)
(*                                                                         *)
(* The clock is the wall clock, which only moves forward here.  Of a row   *)
(* only the expiry is kept: created_at and last_seen are never read.       *)
(***************************************************************************)
EXTENDS Integers

CONSTANTS
  Ids,        \* session IDs; each is issued at most once
  Requests,   \* requests in flight at once
  TTL,        \* how long a session lasts without use
  MaxTime,    \* bound on the clock
  None        \* an absent row, cookie or time

Times == 0 .. MaxTime
Ends  == 0 .. (MaxTime + TTL)

ASSUME TimeAssumption == TTL \in Nat \ {0} /\ MaxTime \in Nat
ASSUME NoneAssumption == None \notin Ids \cup Int

VARIABLES
  clock,      \* the time
  row,        \* sessions.expires_at of each ID, or None
  cookie,     \* when the browser drops the cookie holding the ID, or None
  active,     \* when the ID was last admitted, None if never issued
  alone,      \* history: its latest use that no other request for it overlapped
  ended,      \* IDs that a logout or a password change has ended
  pc,         \* next step of a request
  who,        \* the ID its cookie holds
  found,      \* the expiry it read
  now,        \* the time it read
  sweeping    \* the sweeper's time, None between two ticks

reqs == <<pc, who, found, now>>
vars == <<clock, row, cookie, active, alone, ended, pc, who, found, now, sweeping>>

Opt(S) == S \cup {None}

TypeOK ==
  /\ clock \in Times
  /\ row \in [Ids -> Opt(Ends)]
  /\ cookie \in [Ids -> Opt(Ends)]
  /\ active \in [Ids -> Opt(Times)]
  /\ alone \in [Ids -> Opt(Times)]
  /\ ended \subseteq Ids
  /\ pc \in [Requests -> {"idle", "judge", "touch", "reap", "logout", "change"}]
  /\ who \in [Requests -> Opt(Ids)]
  /\ found \in [Requests -> Opt(Ends)]
  /\ now \in [Requests -> Opt(Times)]
  /\ sweeping \in Opt(Times)

Init ==
  /\ clock = 0
  /\ row = [i \in Ids |-> None]
  /\ cookie = [i \in Ids |-> None]
  /\ active = [i \in Ids |-> None]
  /\ alone = [i \in Ids |-> None]
  /\ ended = {}
  /\ pc = [r \in Requests |-> "idle"]
  /\ who = [r \in Requests |-> None]
  /\ found = [r \in Requests |-> None]
  /\ now = [r \in Requests |-> None]
  /\ sweeping = None

-----------------------------------------------------------------------------
Tick ==
  /\ clock < MaxTime
  /\ clock' = clock + 1
  /\ UNCHANGED <<row, cookie, active, alone, ended, reqs, sweeping>>

\* Manager.issue and setSessionCookie.  Nobody knows the ID before the reply,
\* so the steps of a login are one.
Login(i) ==
  /\ active[i] = None
  /\ row' = [row EXCEPT ![i] = clock + TTL]
  /\ cookie' = [cookie EXCEPT ![i] = clock + TTL]
  /\ active' = [active EXCEPT ![i] = clock]
  /\ alone' = [alone EXCEPT ![i] = clock]
  /\ UNCHANGED <<clock, ended, reqs, sweeping>>

Presents(i) == cookie[i] # None /\ clock < cookie[i]

End(r) ==
  /\ pc' = [pc EXCEPT ![r] = "idle"]
  /\ who' = [who EXCEPT ![r] = None]
  /\ found' = [found EXCEPT ![r] = None]
  /\ now' = [now EXCEPT ![r] = None]

\* The cookie is dropped by the reply to a request for ID i.
Forget(i) == cookie' = [cookie EXCEPT ![i] = None]

\* A session that is not valid: a page redirects to the login form, and a
\* logout clears the cookie all the same (handleLogout).
Reject(r) ==
  /\ UNCHANGED cookie \/ Forget(who[r])
  /\ End(r)

\* Authenticate: the row is read, and for a live one the request goes on.
Lookup(r, i) ==
  /\ pc[r] = "idle"
  /\ Presents(i)
  /\ row[i] # None
  /\ pc' = [pc EXCEPT ![r] = "judge"]
  /\ who' = [who EXCEPT ![r] = i]
  /\ found' = [found EXCEPT ![r] = row[i]]
  /\ UNCHANGED <<clock, row, cookie, active, alone, ended, now, sweeping>>

\* A revoked ID: only the logout form has an effect, on the cookie.
LogoutUnknown(i) ==
  /\ Presents(i)
  /\ row[i] = None
  /\ Forget(i)
  /\ UNCHANGED <<clock, row, active, alone, ended, reqs, sweeping>>

\* Mutant: a session is still good at the very moment it expires.
JudgeLate(r) ==
  /\ pc[r] = "judge"
  /\ now' = [now EXCEPT ![r] = clock]
  /\ pc' = [pc EXCEPT ![r] = IF clock > found[r] THEN "reap" ELSE "touch"]
  /\ found' = [found EXCEPT ![r] = None]
  /\ UNCHANGED <<clock, row, cookie, active, alone, ended, who, sweeping>>

\* The clock is read after the row, and the row judged by it.
Judge(r) ==
  /\ pc[r] = "judge"
  /\ now' = [now EXCEPT ![r] = clock]
  /\ pc' = [pc EXCEPT ![r] = IF clock >= found[r] THEN "reap" ELSE "touch"]
  /\ found' = [found EXCEPT ![r] = None]
  /\ UNCHANGED <<clock, row, cookie, active, alone, ended, who, sweeping>>

\* DeleteSession, whatever has become of the row since it was read.
Reap(r) ==
  /\ pc[r] = "reap"
  /\ row' = [row EXCEPT ![who[r]] = None]
  /\ Reject(r)
  /\ UNCHANGED <<clock, active, alone, ended, sweeping>>

\* A request for the same session between its read and its write.
Overlapped(r) ==
  \E q \in Requests \ {r} : who[q] = who[r] /\ pc[q] \in {"judge", "touch", "reap"}

\* The session of r has been used, at the time r read.
Used(r) ==
  /\ active' = [active EXCEPT ![who[r]] = IF @ < now[r] THEN now[r] ELSE @]
  /\ alone' = [alone EXCEPT ![who[r]] = IF Overlapped(r) THEN @ ELSE now[r]]

\* Mutant: the expiry slides from the old expiry, not from the time of use.
AdmitFromExpiry(r) ==
  /\ row' = [row EXCEPT ![who[r]] = @ + TTL]
  /\ Used(r)
  /\ End(r)
  /\ UNCHANGED cookie

\* Mutant: the row is written only once more than half its lifetime has passed.
AdmitLazily(r) ==
  /\ row' = [row EXCEPT ![who[r]] = IF 2 * (@ - now[r]) >= TTL THEN @ ELSE now[r] + TTL]
  /\ Used(r)
  /\ End(r)
  /\ UNCHANGED cookie

\* The row slides and the handler runs; only a logout and a password change
\* come back to the sessions.
Admit(r) ==
  /\ row' = [row EXCEPT ![who[r]] = now[r] + TTL]
  /\ Used(r)
  /\ \/ End(r)
     \/ \E step \in {"logout", "change"} :
          /\ pc' = [pc EXCEPT ![r] = step]
          /\ now' = [now EXCEPT ![r] = None]
          /\ UNCHANGED <<who, found>>
  /\ UNCHANGED cookie

\* Mutant: the row is written whether or not it is still there.
TouchUpserting(r) ==
  /\ pc[r] = "touch"
  /\ Admit(r)
  /\ UNCHANGED <<clock, ended, sweeping>>

\* TouchSession updates the row only if it is still there.
Touch(r) ==
  /\ pc[r] = "touch"
  /\ \/ /\ row[who[r]] # None
        /\ Admit(r)
     \/ /\ row[who[r]] = None
        /\ Reject(r)
        /\ UNCHANGED <<row, active, alone>>
  /\ UNCHANGED <<clock, ended, sweeping>>

Logout(r) ==
  /\ pc[r] = "logout"
  /\ row' = [row EXCEPT ![who[r]] = None]
  /\ ended' = ended \cup {who[r]}
  /\ Forget(who[r])
  /\ End(r)
  /\ UNCHANGED <<clock, active, alone, sweeping>>

\* The end of a password change: DeleteAllSessions, and the browser that asked
\* drops its cookie.
KickAll(r) ==
  /\ pc[r] = "change"
  /\ row' = [i \in Ids |-> None]
  /\ ended' = ended \cup {i \in Ids : active[i] # None}
  /\ Forget(who[r])
  /\ End(r)
  /\ UNCHANGED <<clock, active, alone, sweeping>>

\* A statement fails or the browser goes away: the request returns.
Fail(r) ==
  /\ pc[r] # "idle"
  /\ End(r)
  /\ UNCHANGED <<clock, row, cookie, active, alone, ended, sweeping>>

-----------------------------------------------------------------------------
(* sweepSessions: the time is taken when the ticker fires, the rows are    *)
(* deleted when the one connection is free, and an error only skips a tick.*)

SweepTick ==
  /\ sweeping = None
  /\ sweeping' = clock
  /\ UNCHANGED <<clock, row, cookie, active, alone, ended, reqs>>

\* Mutant: rows that expire later than the sweep go, the expired ones stay.
SweepInverted ==
  /\ sweeping # None
  /\ row' = [i \in Ids |-> IF row[i] # None /\ row[i] > sweeping THEN None ELSE row[i]]
  /\ sweeping' = None
  /\ UNCHANGED <<clock, cookie, active, alone, ended, reqs>>

SweepRun ==
  /\ sweeping # None
  /\ row' = [i \in Ids |-> IF row[i] # None /\ row[i] <= sweeping THEN None ELSE row[i]]
  /\ sweeping' = None
  /\ UNCHANGED <<clock, cookie, active, alone, ended, reqs>>

SweepFail ==
  /\ sweeping # None
  /\ sweeping' = None
  /\ UNCHANGED <<clock, row, cookie, active, alone, ended, reqs>>

\* A crash and a restart: the table and the cookies survive.
Restart ==
  /\ pc' = [r \in Requests |-> "idle"]
  /\ who' = [r \in Requests |-> None]
  /\ found' = [r \in Requests |-> None]
  /\ now' = [r \in Requests |-> None]
  /\ sweeping' = None
  /\ UNCHANGED <<clock, row, cookie, active, alone, ended>>

-----------------------------------------------------------------------------
Next ==
  \/ Tick \/ SweepTick \/ SweepRun \/ SweepFail \/ Restart
  \/ \E i \in Ids :
       \/ Login(i) \/ LogoutUnknown(i)
       \/ \E r \in Requests : Lookup(r, i)
  \/ \E r \in Requests :
       \/ Judge(r) \/ Touch(r) \/ Reap(r) \/ Fail(r)
       \/ Logout(r) \/ KickAll(r)

Spec == Init /\ [][Next]_vars

\* The ticker keeps firing, and a database that is asked again and again does
\* not fail every time.  Nothing is asked of browsers, requests or the clock.
Fairness == WF_vars(SweepTick) /\ SF_vars(SweepRun)

FairSpec == Spec /\ Fairness

-----------------------------------------------------------------------------
(* Properties.                                                             *)

\* A session that was revoked, reaped or swept is never brought back, not even
\* by an Authenticate that had read its row before (TouchSession is an UPDATE).
RevokedStaysRevoked ==
  [][\A i \in Ids : active[i] # None /\ row[i] = None => row'[i] = None]_vars

\* A request is judged good only within TTL of the latest use of its session,
\* and no row claims to last longer: overlapping requests, each writing an
\* expiry computed earlier, never stretch an idle session.
IdleSessionsEnd ==
  /\ \A r \in Requests : pc[r] = "touch" => now[r] < active[who[r]] + TTL
  /\ \A i \in Ids : row[i] # None => row[i] <= active[i] + TTL

\* The row of a browser that never comes back does not stay for ever.
ExpiredRowsGo ==
  \A i \in Ids :
    (row[i] # None /\ clock >= row[i]) ~> (row[i] = None \/ clock < row[i])

\* "slides its expiry forward": a use that no other request for the session overlaps
\* keeps it in the table for a full TTL, whatever overlaps after that: requests that
\* write, or reap by, what they read, the sweeper, crashes.  Only a logout or a
\* password change ends it sooner.  Of overlapping uses an earlier may write last.
UseKeepsSession ==
  \A i \in Ids :
    alone[i] # None /\ i \notin ended /\ clock < alone[i] + TTL =>
      row[i] # None /\ row[i] >= alone[i] + TTL

InUse(i) == active[i] # None /\ i \notin ended /\ clock < active[i] + TTL

\* "an actively used panel should not log the user out mid-session": the
\* browser still presents the cookie of such a session.
UseKeepsCookie == \A i \in Ids : InUse(i) => Presents(i)
=============================================================================
