----------------------------- MODULE ProbeRuns -----------------------------
(***************************************************************************)
(* Who probes what, and what the panel shows of it: handleProbeRun and its *)
(* batch lock (internal/web/probe.go), the background sweep (cmd/          *)
(* mirrorpilot/main.go), the worker pool of probe.Runner and the live view *)
(* probe.Activity (internal/probe).                                        *)
(*                                                                         *)
(* A prober is a browser tab or the sweep.  A tab measures every enabled   *)
(* mirror, under the batch lock, or one mirror, without it; the sweep      *)
(* measures every enabled mirror and knows nothing of lock or view.  Every *)
(* run has its own pool: a feeder hands the mirrors over an unbuffered     *)
(* channel to workers that probe, publish what they do and store a row.    *)
(*                                                                         *)
(* The four layers of a probe are one here.  Of the view is kept which     *)
(* mirrors it lists, whose layers it has seen finish, and the count.       *)
(***************************************************************************)
EXTENDS Integers, FiniteSets

CONSTANTS
  Tabs,       \* browser tabs that press the buttons
  Sweep,      \* the background sweep
  Sources,    \* mirrors
  Workers,    \* goroutines of one pool (probe.concurrency)
  MaxRuns,    \* bound on the runs that are registered
  None

Probers == Tabs \cup {Sweep}

\* One mirror in the view: whose finished layers it lists, and whether it is over.
Lines == [by : SUBSET Probers, done : BOOLEAN]
Views == [id : 1 .. MaxRuns, total : 0 .. Cardinality(Sources),
          done : 0 .. Cardinality(Sources), lines : [Sources -> Lines \cup {None}]]

\* A pool has a worker at least (NewRunner replaces a concurrency of 0 or less).
ASSUME ProberAssumption ==
  /\ Sweep \notin Tabs
  /\ IsFiniteSet(Sources)
  /\ IsFiniteSet(Workers) /\ Workers # {}
  /\ None \notin Sources \cup Tabs \cup Lines \cup Views
  /\ MaxRuns \in Nat

VARIABLES
  batchLock,  \* Server.probeBatch: the tab that holds it, or None
  next,       \* Activity.next
  view,       \* Activity.run, or None
  phase,      \* where each prober's run is
  id,         \* the identifier its run was registered under, 0 for none
  single,     \* the run is one of runOneMirror
  job,        \* the mirrors the run covers
  todo,       \* those the feeder still holds
  cur,        \* the mirror each worker of the run has taken, or None
  step,       \* what that worker does next
  settled     \* mirrors whose row was written, or its loss noted in RecordErrors

activity == <<next, view>>
pools    == <<todo, cur, step, settled>>
vars     == <<batchLock, next, view, phase, id, single, job, todo, cur, step, settled>>

Phases == {"idle", "list", "run", "end", "unlock"}
Moves  == {"wait", "finish", "done", "insert"}

TypeOK ==
  /\ batchLock \in Tabs \cup {None}
  /\ next \in 0 .. MaxRuns
  /\ view \in Views \cup {None}
  /\ phase \in [Probers -> Phases]
  /\ id \in [Probers -> 0 .. MaxRuns]
  /\ single \in [Probers -> BOOLEAN]
  /\ \A f \in {job, todo, settled} : f \in [Probers -> SUBSET Sources]
  /\ cur \in [Probers -> [Workers -> Sources \cup {None}]]
  /\ step \in [Probers -> [Workers -> Moves]]

Nothing == [p \in Probers |-> {}]

Init ==
  /\ batchLock = None
  /\ next = 0
  /\ view = None
  /\ phase = [p \in Probers |-> "idle"]
  /\ id = [p \in Probers |-> 0]
  /\ single = [p \in Probers |-> FALSE]
  /\ job = Nothing /\ todo = Nothing /\ settled = Nothing
  /\ cur = [p \in Probers |-> [w \in Workers |-> None]]
  /\ step = [p \in Probers |-> [w \in Workers |-> "wait"]]

-----------------------------------------------------------------------------
(* Activity: each operation holds its mutex from end to end.               *)

\* Begin: the newest run takes the view over from any other.
Begin(p, total) ==
  /\ next < MaxRuns
  /\ next' = next + 1
  /\ id' = [id EXCEPT ![p] = next + 1]
  /\ view' = [id |-> next + 1, total |-> total, done |-> 0,
              lines |-> [s \in Sources |-> None]]

\* Mutant: whoever finishes first wipes the view.
EndAny(p) ==
  /\ view' = None
  /\ UNCHANGED next

\* End: a run that was superseded leaves the view alone.
End(p) ==
  /\ view' = IF view # None /\ view.id = id[p] THEN None ELSE view
  /\ UNCHANGED next

\* stepFor: a mirror's line, started the first time it is seen.
Line(s) ==
  IF view.lines[s] = None THEN [by |-> {}, done |-> FALSE]
  ELSE view.lines[s]

\* A finished layer is one more in the line's trace; the last event closes it.
AfterEvent(p, line, event) ==
  [by   |-> IF event = "finish" THEN line.by \cup {p} ELSE line.by,
   done |-> line.done \/ event = "done"]

\* Mutant: every probe of a mirror counts.
CountsAgain(line, event) == event = "done"

\* A mirror counts once, however many probes of it end.
Counts(line, event) == event = "done" /\ ~line.done

\* Observe: an event goes into the current run, whoever sent it, or nowhere.
Observe(p, s, event) ==
  /\ UNCHANGED next
  /\ view' = IF view = None THEN None
             ELSE [view EXCEPT !.lines[s] = AfterEvent(p, Line(s), event),
                               !.done = IF Counts(Line(s), event) THEN @ + 1 ELSE @]

\* Snapshot: what a page is shown of a run in view.  The deadline of every run
\* comes before staleAfter, so none is hidden for its age.
Snapshot ==
  [total |-> view.total,
   done  |-> IF view.done <= view.total THEN view.done ELSE view.total,
   steps |-> {s \in Sources : view.lines[s] # None}]

-----------------------------------------------------------------------------
(* The handlers and the sweep.                                             *)

Cover(p, S) ==
  /\ job' = [job EXCEPT ![p] = S]
  /\ todo' = [todo EXCEPT ![p] = S]

Goto(p, where) == phase' = [phase EXCEPT ![p] = where]

Return(p) ==
  /\ Goto(p, "idle")
  /\ id' = [id EXCEPT ![p] = 0]
  /\ single' = [single EXCEPT ![p] = FALSE]
  /\ job' = [job EXCEPT ![p] = {}]
  /\ settled' = [settled EXCEPT ![p] = {}]
  /\ UNCHANGED <<todo, cur, step>>

\* Mutant: the answer of TryLock is not looked at.
PressBatchAnyway(p) ==
  /\ phase[p] = "idle"
  /\ batchLock' = p
  /\ Goto(p, "list")
  /\ UNCHANGED <<activity, id, single, job, pools>>

\* handleProbeRun for a batch: TryLock, or "busy" and nothing happens.
PressBatch(p) ==
  /\ phase[p] = "idle"
  /\ batchLock = None
  /\ batchLock' = p
  /\ Goto(p, "list")
  /\ UNCHANGED <<activity, id, single, job, pools>>

\* The enabled mirrors are read; a failure only unlocks.  RunAll of none returns
\* at once.
ListBatch(p) ==
  /\ phase[p] = "list"
  /\ \/ /\ Goto(p, "unlock")
        /\ UNCHANGED <<activity, id, job, pools>>
     \/ \E S \in SUBSET Sources :
          /\ Begin(p, Cardinality(S))
          /\ Cover(p, S)
          /\ Goto(p, IF S = {} THEN "end" ELSE "run")
          /\ UNCHANGED <<cur, step, settled>>
  /\ UNCHANGED <<batchLock, single>>

\* runOneMirror, past GetSource: no lock is asked for.
PressOne(p, s) ==
  /\ phase[p] = "idle"
  /\ Begin(p, 1)
  /\ Cover(p, {s})
  /\ single' = [single EXCEPT ![p] = TRUE]
  /\ Goto(p, "run")
  /\ UNCHANGED <<batchLock, cur, step, settled>>

\* newProbeSweep, past its reads: no lock is asked for and no run registered.
SweepStart(S) ==
  /\ phase[Sweep] = "idle"
  /\ S # {}
  /\ Cover(Sweep, S)
  /\ Goto(Sweep, "run")
  /\ UNCHANGED <<batchLock, activity, id, single, cur, step, settled>>

-----------------------------------------------------------------------------
(* Runner.RunAll and RunOne.                                               *)

Frame == UNCHANGED <<batchLock, phase, id, single, job>>

Move(p, w, move) == step' = [step EXCEPT ![p][w] = move]

\* queue <- i and its receive are one step, the channel having no buffer, and
\* the first layer starts.
HandOff(p, w, s) ==
  /\ phase[p] = "run"
  /\ s \in todo[p]
  /\ step[p][w] = "wait"
  /\ todo' = [todo EXCEPT ![p] = @ \ {s}]
  /\ cur' = [cur EXCEPT ![p][w] = s]
  /\ Move(p, w, "finish")
  /\ Observe(p, s, "start")
  /\ Frame
  /\ UNCHANGED settled

\* Prober.Probe as its observer sees it.  It always comes back with a result,
\* for a cancelled context sooner.
Measure(p, w) ==
  /\ step[p][w] \in {"finish", "done"}
  /\ Observe(p, cur[p][w], step[p][w])
  /\ Move(p, w, IF step[p][w] = "finish" THEN "done" ELSE "insert")
  /\ Frame
  /\ UNCHANGED <<todo, cur, settled>>

Settle(p, w) ==
  /\ step[p][w] = "insert"
  /\ settled' = [settled EXCEPT ![p] = @ \cup {cur[p][w]}]
  /\ cur' = [cur EXCEPT ![p][w] = None]
  /\ Frame
  /\ UNCHANGED <<activity, todo>>

\* Mutant: a worker whose row is not written gives up.
InsertOrQuit(p, w) == Settle(p, w) /\ \E move \in {"wait", "gone"} : Move(p, w, move)

\* InsertProbe, which fails when the run's deadline has passed, when the mirror
\* was deleted meanwhile or when the database does.  The failure is noted and
\* the worker asks for the next mirror all the same.
Insert(p, w) == Settle(p, w) /\ Move(p, w, "wait")

\* What follows the pool: the sweep is done, a handler's deferred calls run.
Over(p) ==
  /\ IF p = Sweep THEN Return(p)
     ELSE Goto(p, "end") /\ UNCHANGED <<id, single, job, pools>>
  /\ UNCHANGED <<batchLock, activity>>

\* Mutant: the run is over when the last mirror has been handed over.
WaitedForFeeder(p) == phase[p] = "run" /\ todo[p] = {} /\ Over(p)

\* close(queue) and wg.Wait.  PruneProbes comes next; the rows it deletes are
\* not in this module, and its failure is only noted.
Waited(p) ==
  /\ phase[p] = "run"
  /\ todo[p] = {}
  /\ \A w \in Workers : cur[p][w] = None
  /\ Over(p)

\* The deferred calls run last first: End, then Unlock.
EndRun(p) ==
  /\ phase[p] = "end"
  /\ End(p)
  /\ IF single[p] THEN Return(p)
     ELSE Goto(p, "unlock") /\ UNCHANGED <<id, single, job, pools>>
  /\ UNCHANGED batchLock

Unlock(p) ==
  /\ phase[p] = "unlock"
  /\ batchLock' = None
  /\ Return(p)
  /\ UNCHANGED activity

-----------------------------------------------------------------------------
Work(p, w) == Measure(p, w) \/ Insert(p, w) \/ \E s \in Sources : HandOff(p, w, s)
Advance(p) == ListBatch(p) \/ Waited(p) \/ EndRun(p) \/ Unlock(p)

Next ==
  \/ \E p \in Tabs : PressBatch(p) \/ \E s \in Sources : PressOne(p, s)
  \/ \E S \in SUBSET Sources : SweepStart(S)
  \/ \E p \in Probers : Advance(p) \/ \E w \in Workers : Work(p, w)

Spec == Init /\ [][Next]_vars

\* Goroutines are scheduled, and every probe, read and write is bounded by its
\* budget or the run's deadline.  Nobody has to press a button.
Fairness ==
  \A p \in Probers : WF_vars(Advance(p)) /\ \A w \in Workers : WF_vars(Work(p, w))

FairSpec == Spec /\ Fairness

-----------------------------------------------------------------------------
(* Properties.                                                             *)

\* Two tabs never measure the whole list at once ("one batch at a time").
OneBatch ==
  \A p, q \in Tabs :
    phase[p] # "idle" /\ ~single[p] /\ phase[q] # "idle" /\ ~single[q] => p = q

\* A run loses no mirror and measures none twice: each is with the feeder, with
\* one worker, or settled; once the pool has returned, all are settled (RunAll).
RunsAccount ==
  \A p \in Probers :
    LET busy == {cur[p][w] : w \in Workers} \ {None}
    IN  /\ job[p] = todo[p] \cup busy \cup settled[p]
        /\ busy \cap (todo[p] \cup settled[p]) = {} /\ todo[p] \cap settled[p] = {}
        /\ \A v, w \in Workers : cur[p][v] # None /\ cur[p][v] = cur[p][w] => v = w
        /\ phase[p] = "end" => job[p] = settled[p]

Registered(p) == id[p] # 0 /\ phase[p] \in {"run", "end"}

\* The newest run stays in view until it ends, whichever older ones end before,
\* and what is in view belongs to a run that has not ended.
ViewFollowsNewest ==
  /\ \A p \in Tabs : Registered(p) /\ id[p] = next => view # None /\ view.id = id[p]
  /\ view # None => \E p \in Tabs : Registered(p) /\ id[p] = view.id

\* A page is told of as many finished mirrors as it lists, even when two probers
\* measure the same mirror at once, and of no more than the run covers, even when
\* others' mirrors crowd in ("finished 5 of 4 is a number no reader should be
\* shown").
DoneCountsMirrors ==
  view # None =>
    LET over == {s \in Snapshot.steps : view.lines[s].done}
    IN  Snapshot.done = IF Cardinality(over) <= view.total THEN Cardinality(over)
                        ELSE view.total

\* Every run comes to its end and gives the batch lock back, whatever fails.
RunsReturn == \A p \in Probers : phase[p] # "idle" ~> phase[p] = "idle"

\* "its measurements are published into nothing": the sweep, which registers no
\* run, puts nothing into the view of the run a visitor asked for.
SweepStaysOutOfView ==
  view # None => \A s \in Sources : view.lines[s] # None => Sweep \notin view.lines[s].by
=============================================================================
