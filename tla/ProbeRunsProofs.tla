-------------------------- MODULE ProbeRunsProofs --------------------------
(***************************************************************************)
(* Runs, their pools and the live view keep the promises of ProbeRuns, for *)
(* any number of tabs, mirrors and workers.                                *)
(***************************************************************************)
EXTENDS ProbeRuns, FiniteSetTheorems, TLAPS

-----------------------------------------------------------------------------
(* The invariant.                                                          *)

\* A batch under way holds the lock; a single run never comes to unlock.
Locked ==
  \A p \in Tabs :
    /\ phase[p] # "idle" /\ ~single[p] => batchLock = p
    /\ single[p] => phase[p] \in {"run", "end"}

\* The sweep asks for no lock and registers nothing.
SweepApart == phase[Sweep] \in {"idle", "run"} /\ id[Sweep] = 0

\* A worker waits exactly when it has nothing, and a pool works only in its run.
Pools ==
  \A p \in Probers :
    /\ \A w \in Workers : step[p][w] = "wait" <=> cur[p][w] = None
    /\ phase[p] # "run" => todo[p] = {} /\ \A w \in Workers : cur[p][w] = None
    /\ phase[p] \in {"idle", "list"} => job[p] = {} /\ settled[p] = {}

\* Each mirror of a run is in one place.
Placed ==
  \A p \in Probers :
    /\ todo[p] \cap settled[p] = {}
    /\ todo[p] \subseteq job[p] /\ settled[p] \subseteq job[p]
    /\ \A w \in Workers :
         cur[p][w] # None => cur[p][w] \in job[p] \ (todo[p] \cup settled[p])
    /\ \A v, w \in Workers : cur[p][v] # None /\ cur[p][v] = cur[p][w] => v = w
    /\ \A s \in job[p] \ (todo[p] \cup settled[p]) : \E w \in Workers : cur[p][w] = s

\* Identifiers are handed out once.
Numbered ==
  /\ \A p \in Probers : id[p] <= next
  /\ \A p, q \in Probers : id[p] # 0 /\ id[p] = id[q] => p = q

Finished == {s \in Sources : view.lines[s] # None /\ view.lines[s].done}

\* What is in view is the newest run, and its count is right.
Viewed == view # None => view.id = next /\ view.done = Cardinality(Finished)

Invariant ==
  /\ TypeOK /\ Locked /\ SweepApart /\ Pools /\ Placed
  /\ Numbered /\ Viewed /\ ViewFollowsNewest

-----------------------------------------------------------------------------
(* The live view.                                                          *)

LEMMA Probing == Sweep \in Probers /\ Tabs \subseteq Probers /\ Probers \ {Sweep} = Tabs
  BY ProberAssumption DEF Probers

LEMMA CountTyped == ASSUME NEW S \in SUBSET Sources
                    PROVE  /\ IsFiniteSet(S) /\ Cardinality(S) \in 0 .. Cardinality(Sources)
  <1>1. IsFiniteSet(S) /\ Cardinality(S) <= Cardinality(Sources)
    BY ProberAssumption, FS_Subset
  <1>2. Cardinality(S) \in Nat /\ Cardinality(Sources) \in Nat
    BY <1>1, ProberAssumption, FS_CardinalityType
  <1>3. QED
    BY <1>1, <1>2

\* A fresh run in view has its type and lists nothing.
LEMMA BeginView ==
  ASSUME TypeOK, NEW p \in Probers, NEW total \in 0 .. Cardinality(Sources), Begin(p, total)
  PROVE  /\ next' = next + 1 /\ next' \in 1 .. MaxRuns
         /\ view' \in Views /\ view' # None /\ view'.id = next'
         /\ (view' # None => view'.done = Cardinality(Finished'))
         /\ id' \in [Probers -> 0 .. MaxRuns]
         /\ id'[p] = next' /\ \A q \in Probers \ {p} : id'[q] = id[q]
  <1>1. next + 1 \in 1 .. MaxRuns /\ next' = next + 1
    BY ProberAssumption DEF TypeOK, Begin
  <1>2. 0 \in 0 .. Cardinality(Sources)
    BY CountTyped
  <1>3. view' \in Views
    BY <1>1, <1>2 DEF Begin, Views
  <1>4. view'.id = next' /\ view'.done = 0 /\ \A s \in Sources : view'.lines[s] = None
    BY <1>1 DEF Begin
  <1>5. Cardinality(Finished') = 0
    <2>1. Finished' = {}
      BY <1>4 DEF Finished
    <2>2. QED
      BY <2>1, FS_EmptySet
  <1>6. id' \in [Probers -> 0 .. MaxRuns] /\ id'[p] = next'
        /\ \A q \in Probers \ {p} : id'[q] = id[q]
    BY <1>1 DEF TypeOK, Begin
  <1>7. view' # None
    BY <1>3, ProberAssumption
  <1>8. QED
    BY <1>1, <1>3, <1>4, <1>5, <1>6, <1>7

\* The last event of a mirror counts it, once.
LEMMA ObserveView ==
  ASSUME TypeOK, Viewed, NEW p \in Probers, NEW s \in Sources,
         NEW event \in {"start", "finish", "done"}, Observe(p, s, event)
  PROVE  /\ next' = next /\ view' \in Views \cup {None}
         /\ view = None <=> view' = None
         /\ view # None => view'.id = view.id /\ view'.done = Cardinality(Finished')
  <1>1. CASE view = None
    BY <1>1 DEF Observe
  <1>2. CASE view # None
    <2> DEFINE line  == Line(s)
               after == AfterEvent(p, line, event)
               done  == IF Counts(line, event) THEN view.done + 1 ELSE view.done
    <2>1. view \in Views
      BY <1>2 DEF TypeOK
    <2>2. line \in Lines
      BY <2>1 DEF Line, Views, Lines
    <2>3. after \in Lines /\ after.done = (line.done \/ event = "done")
      BY <2>2 DEF AfterEvent, Lines
    <2>4. after # None
      BY <2>3, ProberAssumption
    <2>5. view' = [view EXCEPT !.lines[s] = after, !.done = done] /\ next' = next
      BY <1>2 DEF Observe
    <2> HIDE DEF after, done
    <2>6. /\ view'.lines = [view.lines EXCEPT ![s] = after]
          /\ view'.done = done /\ view'.id = view.id /\ view'.total = view.total
          /\ view' = [id |-> view'.id, total |-> view'.total, done |-> view'.done,
                      lines |-> view'.lines]
      BY <2>1, <2>5 DEF Views
    <2>7. /\ view'.lines[s] = after
          /\ \A t \in Sources \ {s} : view'.lines[t] = view.lines[t]
      BY <2>1, <2>6 DEF Views
    <2>8. Finished \in SUBSET Sources /\ Finished' \in SUBSET Sources
      BY DEF Finished
    <2>9. s \in Finished <=> line.done
      BY DEF Finished, Line
    <2>10. s \in Finished' <=> after.done
      BY <2>4, <2>7 DEF Finished
    <2>11. \A t \in Sources \ {s} : t \in Finished' <=> t \in Finished
      BY <2>7 DEF Finished
    <2>12. done = Cardinality(Finished')
      <3>1. view.done = Cardinality(Finished) /\ Cardinality(Finished) \in Nat
        BY <1>2, <2>8, CountTyped DEF Viewed
      <3>2. CASE Counts(line, event)
        <4>1. s \notin Finished /\ Finished' = Finished \cup {s}
          BY <2>3, <2>8, <2>9, <2>10, <2>11, <3>2 DEF Counts
        <4>2. Cardinality(Finished') = Cardinality(Finished) + 1
          BY <2>8, <4>1, CountTyped, FS_AddElement
        <4>3. QED
          BY <3>1, <3>2, <4>2 DEF done
      <3>3. CASE ~Counts(line, event)
        <4>1. line.done <=> after.done
          BY <2>2, <2>3, <3>3 DEF Counts, Lines
        <4>2. Finished' = Finished
          BY <2>8, <2>9, <2>10, <2>11, <4>1
        <4>3. QED
          BY <3>1, <3>3, <4>2 DEF done
      <3>4. QED
        BY <3>2, <3>3
    <2>13. view' \in Views
      <3>1. view'.lines \in [Sources -> Lines \cup {None}]
        BY <2>1, <2>3, <2>6 DEF Views
      <3>2. view'.done \in 0 .. Cardinality(Sources)
        BY <2>6, <2>8, <2>12, CountTyped
      <3>3. QED
        BY <2>1, <2>6, <3>1, <3>2 DEF Views
    <2>14. view' # None
      BY <2>13, ProberAssumption
    <2>15. QED
      BY <1>2, <2>5, <2>6, <2>12, <2>13, <2>14
  <1>3. QED
    BY <1>1, <1>2

-----------------------------------------------------------------------------
(* What leaves the view and the pools alone.                               *)

SameRuns == \A p \in Tabs : /\ Registered(p)' <=> Registered(p)
                            /\ Registered(p) => id'[p] = id[p]

LEMMA ViewKept ==
  ASSUME TypeOK, Viewed, ViewFollowsNewest, SameRuns, next' = next,
         view = None <=> view' = None,
         view # None => view'.id = view.id /\ view'.done = Cardinality(Finished')
  PROVE  Viewed' /\ ViewFollowsNewest'
  <1>1. Viewed'
    BY DEF Viewed
  <1>2. ViewFollowsNewest'
    BY DEF ViewFollowsNewest, SameRuns
  <1>3. QED
    BY <1>1, <1>2

LEMMA ViewUntouched ==
  ASSUME TypeOK, Viewed, ViewFollowsNewest, SameRuns, UNCHANGED activity
  PROVE  Viewed' /\ ViewFollowsNewest'
  <1>1. next' = next /\ view' = view
    BY DEF activity
  <1>2. Finished' = Finished
    BY <1>1 DEF Finished
  <1>3. QED
    BY <1>1, <1>2, ViewKept DEF Viewed

\* The newest run is in view, and its tab is at work.
LEMMA ViewTaken ==
  ASSUME TypeOK, Numbered, NEW p \in Tabs, NEW total \in 0 .. Cardinality(Sources),
         Begin(p, total), phase'[p] \in {"run", "end"}
  PROVE  Viewed' /\ ViewFollowsNewest' /\ Numbered'
  <1>1. p \in Probers
    BY Probing
  <1>2. /\ next' = next + 1 /\ next' \in 1 .. MaxRuns
        /\ view' # None /\ view'.id = next' /\ view'.done = Cardinality(Finished')
        /\ id'[p] = next' /\ \A q \in Probers \ {p} : id'[q] = id[q]
    BY <1>1, BeginView
  <1>3. /\ \A q \in Probers : id[q] <= next /\ id[q] \in Nat
        /\ next \in Nat /\ next' \in Nat /\ next' # 0
    BY <1>2, ProberAssumption DEF Numbered, TypeOK
  <1>4. Viewed'
    BY <1>2 DEF Viewed
  <1>5. Numbered'
    <2>1. \A q \in Probers : id'[q] <= next'
      BY <1>2, <1>3
    <2>2. \A q \in Probers \ {p} : id'[q] # id'[p]
      BY <1>2, <1>3
    <2>3. \A q, r \in Probers : id'[q] # 0 /\ id'[q] = id'[r] => q = r
      BY <1>2, <2>2 DEF Numbered
    <2>4. QED
      BY <2>1, <2>3 DEF Numbered
  <1>6. Registered(p)'
    BY <1>2, <1>3 DEF Registered
  <1>7. \A q \in Tabs : id'[q] = next' => q = p
    BY <1>2, <1>3, Probing
  <1>8. ViewFollowsNewest'
    BY <1>2, <1>6, <1>7 DEF ViewFollowsNewest
  <1>9. QED
    BY <1>4, <1>5, <1>8

\* All that concerns the pools, for one prober.
PoolOf(p) ==
  /\ \A w \in Workers : step[p][w] = "wait" <=> cur[p][w] = None
  /\ phase[p] # "run" => todo[p] = {} /\ \A w \in Workers : cur[p][w] = None
  /\ phase[p] \in {"idle", "list"} => job[p] = {} /\ settled[p] = {}
  /\ todo[p] \cap settled[p] = {}
  /\ todo[p] \subseteq job[p] /\ settled[p] \subseteq job[p]
  /\ \A w \in Workers :
       cur[p][w] # None => cur[p][w] \in job[p] \ (todo[p] \cup settled[p])
  /\ \A v, w \in Workers : cur[p][v] # None /\ cur[p][v] = cur[p][w] => v = w
  /\ \A s \in job[p] \ (todo[p] \cup settled[p]) : \E w \in Workers : cur[p][w] = s

LEMMA PoolByPool == Pools /\ Placed <=> \A p \in Probers : PoolOf(p)
  BY DEF Pools, Placed, PoolOf

SamePool(p) ==
  /\ job'[p] = job[p] /\ todo'[p] = todo[p] /\ settled'[p] = settled[p]
  /\ cur'[p] = cur[p] /\ step'[p] = step[p]

LEMMA PoolKept ==
  ASSUME NEW p \in Probers, PoolOf(p), SamePool(p),
         phase'[p] = phase[p] \/ phase[p] # "run",
         phase'[p] \in {"idle", "list"} => job[p] = {} /\ settled[p] = {}
  PROVE  PoolOf(p)'
  BY DEF PoolOf, SamePool

\* A run begins with everything in the hands of its feeder.
LEMMA PoolCovers ==
  ASSUME TypeOK, Pools, Placed, NEW p \in Probers, NEW S \in SUBSET Sources,
         phase[p] \in {"idle", "list"}, Cover(p, S), UNCHANGED <<cur, step, settled>>,
         phase' = [phase EXCEPT ![p] = IF S = {} THEN "end" ELSE "run"]
  PROVE  /\ Pools' /\ Placed'
         /\ job' \in [Probers -> SUBSET Sources] /\ todo' \in [Probers -> SUBSET Sources]
  <1>1. /\ job \in [Probers -> SUBSET Sources] /\ todo \in [Probers -> SUBSET Sources]
        /\ phase \in [Probers -> Phases]
    BY DEF TypeOK
  <1>2. /\ job'[p] = S /\ todo'[p] = S /\ phase'[p] = IF S = {} THEN "end" ELSE "run"
        /\ \A q \in Probers \ {p} : job'[q] = job[q] /\ todo'[q] = todo[q] /\ phase'[q] = phase[q]
    BY <1>1 DEF Cover
  <1>3. PoolOf(p)'
    BY <1>2 DEF Pools, Placed, PoolOf
  <1>4. ASSUME NEW q \in Probers \ {p} PROVE PoolOf(q)'
    BY <1>2, <1>4 DEF Pools, Placed, PoolOf
  <1>5. Pools' /\ Placed'
    <2>1. \A q \in Probers : PoolOf(q)'
      BY <1>3, <1>4
    <2>2. QED
      BY <2>1 DEF Pools, Placed, PoolOf
  <1>6. QED
    BY <1>1, <1>5 DEF Cover

-----------------------------------------------------------------------------
(* The workers.                                                            *)

\* The parts of TypeOK, without its set of functions.
LEMMA Types ==
  TypeOK <=>
    /\ batchLock \in Tabs \cup {None} /\ next \in 0 .. MaxRuns /\ view \in Views \cup {None}
    /\ phase \in [Probers -> Phases] /\ id \in [Probers -> 0 .. MaxRuns]
    /\ single \in [Probers -> BOOLEAN]
    /\ job \in [Probers -> SUBSET Sources] /\ todo \in [Probers -> SUBSET Sources]
    /\ settled \in [Probers -> SUBSET Sources]
    /\ cur \in [Probers -> [Workers -> Sources \cup {None}]]
    /\ step \in [Probers -> [Workers -> Moves]]
  BY DEF TypeOK

\* A step of a worker: its event goes into the view, its pool stays in order.
LEMMA WorkHolds ==
  ASSUME Invariant, NEW p \in Probers, NEW w \in Workers,
         NEW s \in Sources, NEW event \in {"start", "finish", "done"},
         Observe(p, s, event) \/ UNCHANGED activity,
         Frame, PoolOf(p)', \A q \in Probers \ {p} : SamePool(q),
         job \in [Probers -> SUBSET Sources], todo' \in [Probers -> SUBSET Sources],
         settled' \in [Probers -> SUBSET Sources],
         cur' \in [Probers -> [Workers -> Sources \cup {None}]],
         step' \in [Probers -> [Workers -> Moves]]
  PROVE  Invariant'
  <1>1. UNCHANGED <<batchLock, phase, id, single, job>>
    BY DEF Frame
  <1>2. Pools' /\ Placed'
    <2>1. ASSUME NEW q \in Probers \ {p} PROVE PoolOf(q)'
      BY <1>1, <2>1, PoolByPool, PoolKept DEF PoolOf, Invariant
    <2>2. \A q \in Probers : PoolOf(q)'
      BY <2>1
    <2>3. QED
      BY <2>2 DEF Pools, Placed, PoolOf
  <1>3. Locked' /\ SweepApart'
    BY <1>1 DEF Invariant, Locked, SweepApart
  <1>4. SameRuns
    BY <1>1 DEF SameRuns, Registered
  <1>5. /\ next' = next /\ view' \in Views \cup {None}
        /\ Viewed' /\ ViewFollowsNewest'
    <2>1. CASE Observe(p, s, event)
      BY <1>4, <2>1, ObserveView, ViewKept DEF Invariant
    <2>2. CASE UNCHANGED activity
      BY <1>4, <2>2, ViewUntouched DEF Invariant, activity, TypeOK
    <2>3. QED
      BY <2>1, <2>2
  <1>6. Numbered'
    BY <1>1, <1>5 DEF Invariant, Numbered
  <1>7. TypeOK'
    BY <1>1, <1>5 DEF Invariant, TypeOK
  <1>8. QED
    BY <1>2, <1>3, <1>5, <1>6, <1>7 DEF Invariant

LEMMA HandOffHolds ==
  ASSUME Invariant, NEW p \in Probers, NEW w \in Workers, NEW s \in Sources, HandOff(p, w, s)
  PROVE  Invariant'
  <1>1. PoolOf(p) /\ cur[p][w] = None
    BY PoolByPool DEF Invariant, HandOff, PoolOf
  <1>2. /\ todo \in [Probers -> SUBSET Sources] /\ job \in [Probers -> SUBSET Sources]
        /\ settled \in [Probers -> SUBSET Sources]
        /\ cur \in [Probers -> [Workers -> Sources \cup {None}]]
        /\ step \in [Probers -> [Workers -> Moves]]
    BY Types DEF Invariant
  <1>3. /\ todo'[p] = todo[p] \ {s} /\ s \in todo[p] /\ phase[p] = "run"
        /\ cur'[p] = [cur[p] EXCEPT ![w] = s] /\ step'[p] = [step[p] EXCEPT ![w] = "finish"]
        /\ job' = job /\ settled' = settled /\ phase' = phase
        /\ \A q \in Probers \ {p} : SamePool(q)
        /\ todo' \in [Probers -> SUBSET Sources]
        /\ cur' \in [Probers -> [Workers -> Sources \cup {None}]]
        /\ step' \in [Probers -> [Workers -> Moves]]
    BY <1>2 DEF HandOff, Move, Moves, Frame, SamePool
  <1>4. PoolOf(p)'
    <2>1. \A v \in Workers : step'[p][v] = "wait" <=> cur'[p][v] = None
      BY <1>1, <1>2, <1>3, ProberAssumption DEF PoolOf
    <2>2. cur'[p][w] = s /\ \A v \in Workers \ {w} : cur'[p][v] = cur[p][v]
      BY <1>2, <1>3
    <2>3. \A v \in Workers : cur[p][v] # None => cur[p][v] \in job[p] \ (todo[p] \cup settled[p])
      BY <1>1 DEF PoolOf
    <2>4. s \in job[p] \ settled[p]
      BY <1>1, <1>3 DEF PoolOf
    <2>5. \A v \in Workers :
            cur'[p][v] # None => cur'[p][v] \in job'[p] \ (todo'[p] \cup settled'[p])
      BY <1>3, <2>2, <2>3, <2>4
    <2>6. \A v, x \in Workers : cur'[p][v] # None /\ cur'[p][v] = cur'[p][x] => v = x
      BY <1>1, <1>3, <2>2, <2>3 DEF PoolOf
    <2>7. ASSUME NEW t \in job'[p] \ (todo'[p] \cup settled'[p])
          PROVE  \E v \in Workers : cur'[p][v] = t
      <3>1. CASE t = s
        BY <2>2, <3>1
      <3>2. CASE t # s
        <4>1. t \in job[p] \ (todo[p] \cup settled[p])
          BY <1>3, <2>7, <3>2
        <4>2. PICK v \in Workers : cur[p][v] = t
          BY <1>1, <4>1 DEF PoolOf
        <4>3. v # w
          BY <1>1, <1>2, <1>3, <4>1, <4>2, ProberAssumption
        <4>4. QED
          BY <2>2, <4>2, <4>3
      <3>3. QED
        BY <3>1, <3>2
    <2>8. todo'[p] \cap settled'[p] = {} /\ todo'[p] \subseteq job'[p]
          /\ settled'[p] \subseteq job'[p]
      BY <1>1, <1>3 DEF PoolOf
    <2>9. QED
      BY <1>3, <2>1, <2>5, <2>6, <2>7, <2>8 DEF PoolOf
  <1>5. Observe(p, s, "start") /\ Frame
    BY DEF HandOff
  <1>6. settled' \in [Probers -> SUBSET Sources]
    BY <1>2, <1>3
  <1>7. QED
    BY <1>2, <1>3, <1>4, <1>5, <1>6, WorkHolds

LEMMA MeasureHolds ==
  ASSUME Invariant, NEW p \in Probers, NEW w \in Workers, Measure(p, w)
  PROVE  Invariant'
  <1> DEFINE s == cur[p][w]
             move == IF step[p][w] = "finish" THEN "done" ELSE "insert"
  <1>1. /\ todo \in [Probers -> SUBSET Sources] /\ job \in [Probers -> SUBSET Sources]
        /\ settled \in [Probers -> SUBSET Sources]
        /\ cur \in [Probers -> [Workers -> Sources \cup {None}]]
        /\ step \in [Probers -> [Workers -> Moves]]
    BY Types DEF Invariant
  <1>2. PoolOf(p)
    BY PoolByPool DEF Invariant
  <1>3. /\ step[p][w] \in {"finish", "done"} /\ Observe(p, s, step[p][w]) /\ Frame
        /\ step' = [step EXCEPT ![p][w] = move] /\ UNCHANGED <<job, todo, cur, settled, phase>>
    BY DEF Measure, Move, Frame
  <1>4. s \in Sources
    BY <1>1, <1>2, <1>3 DEF PoolOf
  <1>5. step'[p] = [step[p] EXCEPT ![w] = move] /\ move \in Moves /\ move # "wait"
        /\ step' \in [Probers -> [Workers -> Moves]]
    BY <1>1, <1>3 DEF Moves
  <1>6. \A q \in Probers \ {p} : SamePool(q)
    BY <1>1, <1>3 DEF SamePool
  <1>7. PoolOf(p)'
    <2>1. \A v \in Workers : step'[p][v] = "wait" <=> cur'[p][v] = None
      BY <1>1, <1>2, <1>3, <1>5 DEF PoolOf
    <2>2. QED
      BY <1>2, <1>3, <2>1 DEF PoolOf
  <1>8. /\ todo' \in [Probers -> SUBSET Sources] /\ settled' \in [Probers -> SUBSET Sources]
        /\ cur' \in [Probers -> [Workers -> Sources \cup {None}]]
    BY <1>1, <1>3
  <1>9. step[p][w] \in {"start", "finish", "done"}
    BY <1>3
  <1>10. QED
    BY <1>1, <1>3, <1>4, <1>5, <1>6, <1>7, <1>8, <1>9, WorkHolds

LEMMA InsertHolds ==
  ASSUME Invariant, NEW p \in Probers, NEW w \in Workers, Insert(p, w)
  PROVE  Invariant'
  <1> DEFINE s == cur[p][w]
  <1>1. /\ todo \in [Probers -> SUBSET Sources] /\ job \in [Probers -> SUBSET Sources]
        /\ settled \in [Probers -> SUBSET Sources]
        /\ cur \in [Probers -> [Workers -> Sources \cup {None}]]
        /\ step \in [Probers -> [Workers -> Moves]]
    BY Types DEF Invariant
  <1>2. PoolOf(p)
    BY PoolByPool DEF Invariant
  <1>3. /\ step[p][w] = "insert" /\ Frame /\ UNCHANGED activity
        /\ settled' = [settled EXCEPT ![p] = settled[p] \cup {s}]
        /\ cur' = [cur EXCEPT ![p][w] = None] /\ step' = [step EXCEPT ![p][w] = "wait"]
        /\ UNCHANGED <<job, todo, phase>>
    BY DEF Insert, Settle, Move, Frame
  <1>4. s \in Sources /\ s # None /\ phase[p] = "run"
    BY <1>1, <1>2, <1>3, ProberAssumption DEF PoolOf
  <1>5. /\ settled'[p] = settled[p] \cup {s} /\ step'[p] = [step[p] EXCEPT ![w] = "wait"]
        /\ cur'[p] = [cur[p] EXCEPT ![w] = None]
        /\ step' \in [Probers -> [Workers -> Moves]]
        /\ cur' \in [Probers -> [Workers -> Sources \cup {None}]]
        /\ settled' \in [Probers -> SUBSET Sources] /\ todo' \in [Probers -> SUBSET Sources]
    BY <1>1, <1>3, <1>4 DEF Moves
  <1>6. \A q \in Probers \ {p} : SamePool(q)
    BY <1>1, <1>3 DEF SamePool
  <1>7. PoolOf(p)'
    <2>1. cur'[p][w] = None /\ \A v \in Workers \ {w} : cur'[p][v] = cur[p][v]
      BY <1>1, <1>5
    <2>2. \A v \in Workers : step'[p][v] = "wait" <=> cur'[p][v] = None
      BY <1>1, <1>2, <1>5, <2>1 DEF PoolOf
    <2>3. s \in job[p] \ (todo[p] \cup settled[p])
      BY <1>2, <1>4 DEF PoolOf
    <2>4. ASSUME NEW v \in Workers, cur'[p][v] # None
          PROVE  cur'[p][v] \in job'[p] \ (todo'[p] \cup settled'[p])
      <3>1. v # w /\ cur'[p][v] = cur[p][v]
        BY <2>1, <2>4
      <3>2. cur[p][v] # s /\ cur[p][v] \in job[p] \ (todo[p] \cup settled[p])
        BY <1>2, <1>4, <2>4, <3>1 DEF PoolOf
      <3>3. QED
        BY <1>3, <1>5, <3>1, <3>2
    <2>5. \A v, x \in Workers : cur'[p][v] # None /\ cur'[p][v] = cur'[p][x] => v = x
      BY <1>2, <2>1 DEF PoolOf
    <2>6. \A t \in job'[p] \ (todo'[p] \cup settled'[p]) : \E v \in Workers : cur'[p][v] = t
      BY <1>2, <1>3, <1>5, <2>1 DEF PoolOf
    <2>7. todo'[p] \cap settled'[p] = {} /\ todo'[p] \subseteq job'[p]
          /\ settled'[p] \subseteq job'[p]
      BY <1>2, <1>3, <1>5, <2>3 DEF PoolOf
    <2>8. QED
      BY <1>3, <1>4, <2>2, <2>4, <2>5, <2>6, <2>7 DEF PoolOf
  <1>8. QED
    BY <1>1, <1>3, <1>4, <1>5, <1>6, <1>7, WorkHolds

-----------------------------------------------------------------------------
(* The handlers and the sweep.                                             *)

LEMMA OthersKept ==
  ASSUME Pools, Placed, NEW p \in Probers, PoolOf(p)',
         \A q \in Probers \ {p} : SamePool(q) /\ phase'[q] = phase[q]
  PROVE  Pools' /\ Placed'
  <1>1. ASSUME NEW q \in Probers \ {p} PROVE PoolOf(q)'
    BY <1>1, PoolByPool, PoolKept DEF PoolOf
  <1>2. \A q \in Probers : PoolOf(q)'
    BY <1>1
  <1>3. QED
    BY <1>2 DEF Pools, Placed, PoolOf

\* What a prober that returns leaves.
LEMMA ReturnStep ==
  ASSUME TypeOK, NEW p \in Probers, Return(p), PoolOf(p), phase[p] \in {"run", "end", "unlock"},
         todo[p] = {}, \A w \in Workers : cur[p][w] = None
  PROVE  /\ phase'[p] = "idle" /\ id'[p] = 0 /\ ~single'[p] /\ PoolOf(p)'
         /\ \A q \in Probers \ {p} : /\ SamePool(q) /\ phase'[q] = phase[q]
                                     /\ id'[q] = id[q] /\ single'[q] = single[q]
         /\ phase' \in [Probers -> Phases] /\ id' \in [Probers -> 0 .. MaxRuns]
         /\ single' \in [Probers -> BOOLEAN]
         /\ job' \in [Probers -> SUBSET Sources] /\ todo' \in [Probers -> SUBSET Sources]
         /\ settled' \in [Probers -> SUBSET Sources]
         /\ UNCHANGED <<cur, step>>
  <1>1. 0 \in 0 .. MaxRuns
    BY ProberAssumption
  <1>2. /\ phase'[p] = "idle" /\ id'[p] = 0 /\ ~single'[p] /\ job'[p] = {} /\ settled'[p] = {}
        /\ UNCHANGED <<todo, cur, step>>
        /\ \A q \in Probers \ {p} : /\ SamePool(q) /\ phase'[q] = phase[q]
                                    /\ id'[q] = id[q] /\ single'[q] = single[q]
    BY Types DEF Return, Goto, SamePool
  <1>3. PoolOf(p)'
    BY <1>2 DEF PoolOf
  <1>4. /\ phase' \in [Probers -> Phases] /\ id' \in [Probers -> 0 .. MaxRuns]
        /\ single' \in [Probers -> BOOLEAN]
        /\ job' \in [Probers -> SUBSET Sources] /\ settled' \in [Probers -> SUBSET Sources]
    BY <1>1, Types DEF Return, Goto, Phases
  <1>5. todo' \in [Probers -> SUBSET Sources]
    BY <1>2, Types
  <1>6. QED
    BY <1>2, <1>3, <1>4, <1>5

LEMMA PressBatchHolds == ASSUME Invariant, NEW p \in Tabs, PressBatch(p) PROVE Invariant'
  <1>1. p \in Probers /\ p # Sweep
    BY Probing, ProberAssumption
  <1>2. /\ phase'[p] = "list" /\ phase[p] = "idle" /\ batchLock = None /\ batchLock' = p
        /\ \A q \in Probers \ {p} : phase'[q] = phase[q]
        /\ phase' \in [Probers -> Phases]
        /\ UNCHANGED <<next, view, id, single, job, todo, cur, step, settled>>
    BY <1>1, Types DEF Invariant, PressBatch, Goto, Phases, activity, pools
  <1>3. TypeOK'
    BY <1>2, Types DEF Invariant, TypeOK
  <1>4. Locked'
    <2>1. \A q \in Tabs : phase[q] # "idle" => single[q]
      BY <1>2, ProberAssumption DEF Invariant, Locked
    <2>2. \A q \in Tabs \ {p} : phase'[q] = phase[q] /\ single'[q] = single[q]
      BY <1>2, Probing
    <2>3. ~single'[p]
      BY <1>2 DEF Invariant, Locked
    <2>4. QED
      BY <1>2, <2>1, <2>2, <2>3 DEF Invariant, Locked
  <1>5. SweepApart' /\ Numbered'
    BY <1>1, <1>2, Probing DEF Invariant, SweepApart, Numbered
  <1>6. Pools' /\ Placed'
    <2>1. PoolOf(p)'
      BY <1>1, <1>2, PoolByPool DEF Invariant, PoolOf
    <2>2. QED
      BY <1>1, <1>2, <2>1, OthersKept DEF Invariant, SamePool
  <1>7. SameRuns
    BY <1>1, <1>2, Probing DEF SameRuns, Registered
  <1>8. Viewed' /\ ViewFollowsNewest'
    BY <1>2, <1>7, ViewUntouched DEF Invariant, activity
  <1>9. QED
    BY <1>3, <1>4, <1>5, <1>6, <1>8 DEF Invariant

LEMMA ListBatchHolds == ASSUME Invariant, NEW p \in Probers, ListBatch(p) PROVE Invariant'
  <1>1. phase[p] = "list" /\ p \in Tabs /\ p # Sweep /\ ~single[p]
        /\ UNCHANGED <<batchLock, single>>
    BY Probing, ProberAssumption DEF Invariant, ListBatch, SweepApart, Locked
  <1>2. CASE Goto(p, "unlock") /\ UNCHANGED <<activity, id, job, pools>>
    <2>1. /\ phase'[p] = "unlock" /\ \A q \in Probers \ {p} : phase'[q] = phase[q]
          /\ phase' \in [Probers -> Phases]
          /\ UNCHANGED <<next, view, id, job, todo, cur, step, settled>>
      BY <1>2, Types DEF Invariant, Goto, Phases, activity, pools
    <2>2. TypeOK'
      BY <1>1, <2>1, Types DEF Invariant, TypeOK
    <2>3. Locked' /\ SweepApart' /\ Numbered'
      BY <1>1, <2>1, Probing DEF Invariant, Locked, SweepApart, Numbered
    <2>4. PoolOf(p)'
      BY <1>1, <2>1, PoolByPool DEF Invariant, PoolOf
    <2>5. Pools' /\ Placed'
      BY <2>1, <2>4, OthersKept DEF Invariant, SamePool
    <2>6. SameRuns
      BY <1>1, <2>1, Probing DEF SameRuns, Registered
    <2>7. Viewed' /\ ViewFollowsNewest'
      BY <1>2, <2>6, ViewUntouched DEF Invariant
    <2>8. QED
      BY <2>2, <2>3, <2>5, <2>7 DEF Invariant
  <1>3. ASSUME NEW S \in SUBSET Sources, Begin(p, Cardinality(S)), Cover(p, S),
               Goto(p, IF S = {} THEN "end" ELSE "run"), UNCHANGED <<cur, step, settled>>
        PROVE  Invariant'
    <2>1. Cardinality(S) \in 0 .. Cardinality(Sources)
      BY CountTyped
    <2>2. /\ phase' = [phase EXCEPT ![p] = IF S = {} THEN "end" ELSE "run"]
          /\ phase'[p] \in {"end", "run"} /\ \A q \in Probers \ {p} : phase'[q] = phase[q]
          /\ phase' \in [Probers -> Phases]
      BY <1>3, Types DEF Invariant, Goto, Phases
    <2>3. /\ Pools' /\ Placed'
          /\ job' \in [Probers -> SUBSET Sources] /\ todo' \in [Probers -> SUBSET Sources]
      BY <1>1, <1>3, <2>2, PoolCovers DEF Invariant
    <2>4. Viewed' /\ ViewFollowsNewest' /\ Numbered'
      BY <1>1, <1>3, <2>1, <2>2, ViewTaken DEF Invariant
    <2>5. /\ next' \in 0 .. MaxRuns /\ view' \in Views /\ id' \in [Probers -> 0 .. MaxRuns]
          /\ \A q \in Probers \ {p} : id'[q] = id[q]
      BY <1>3, <2>1, BeginView DEF Invariant
    <2>6. Locked' /\ SweepApart'
      BY <1>1, <2>2, <2>5, Probing DEF Invariant, Locked, SweepApart
    <2>7. TypeOK'
      BY <1>1, <1>3, <2>2, <2>3, <2>5, Types DEF Invariant, TypeOK
    <2>8. QED
      BY <2>3, <2>4, <2>6, <2>7 DEF Invariant
  <1>4. QED
    BY <1>2, <1>3 DEF ListBatch

LEMMA PressOneHolds ==
  ASSUME Invariant, NEW p \in Tabs, NEW s \in Sources, PressOne(p, s) PROVE Invariant'
  <1>1. /\ p \in Probers /\ p # Sweep /\ phase[p] = "idle"
        /\ Begin(p, 1) /\ Cover(p, {s}) /\ UNCHANGED <<batchLock, cur, step, settled>>
    BY Probing, ProberAssumption DEF PressOne
  <1>2. 1 \in 0 .. Cardinality(Sources)
    <2>1. Cardinality({s}) = 1
      BY FS_Singleton
    <2>2. QED
      BY <2>1, CountTyped
  <1>3. /\ phase' = [phase EXCEPT ![p] = "run"] /\ phase'[p] = "run"
        /\ \A q \in Probers \ {p} : phase'[q] = phase[q]
        /\ phase' \in [Probers -> Phases]
        /\ single'[p] /\ \A q \in Probers \ {p} : single'[q] = single[q]
        /\ single' \in [Probers -> BOOLEAN]
    BY <1>1, Types DEF Invariant, PressOne, Goto, Phases
  <1>4. /\ Pools' /\ Placed'
        /\ job' \in [Probers -> SUBSET Sources] /\ todo' \in [Probers -> SUBSET Sources]
    <2>1. phase' = [phase EXCEPT ![p] = IF {s} = {} THEN "end" ELSE "run"]
      BY <1>3
    <2>2. QED
      BY <1>1, <2>1, PoolCovers DEF Invariant
  <1>5. Viewed' /\ ViewFollowsNewest' /\ Numbered'
    BY <1>1, <1>2, <1>3, ViewTaken DEF Invariant
  <1>6. /\ next' \in 0 .. MaxRuns /\ view' \in Views /\ id' \in [Probers -> 0 .. MaxRuns]
        /\ \A q \in Probers \ {p} : id'[q] = id[q]
    BY <1>1, <1>2, BeginView DEF Invariant
  <1>7. Locked' /\ SweepApart'
    BY <1>1, <1>3, <1>6, Probing DEF Invariant, Locked, SweepApart
  <1>8. TypeOK'
    BY <1>1, <1>3, <1>4, <1>6, Types DEF Invariant, TypeOK
  <1>9. QED
    BY <1>4, <1>5, <1>7, <1>8 DEF Invariant

LEMMA SweepStartHolds ==
  ASSUME Invariant, NEW S \in SUBSET Sources, SweepStart(S) PROVE Invariant'
  <1>1. /\ Sweep \in Probers /\ phase[Sweep] = "idle" /\ S # {} /\ Cover(Sweep, S)
        /\ UNCHANGED <<batchLock, next, view, id, single, cur, step, settled>>
    BY Probing DEF SweepStart, activity
  <1>2. /\ phase' = [phase EXCEPT ![Sweep] = IF S = {} THEN "end" ELSE "run"]
        /\ phase'[Sweep] = "run" /\ \A q \in Probers \ {Sweep} : phase'[q] = phase[q]
        /\ phase' \in [Probers -> Phases]
    BY <1>1, Types DEF Invariant, SweepStart, Goto, Phases
  <1>3. /\ Pools' /\ Placed'
        /\ job' \in [Probers -> SUBSET Sources] /\ todo' \in [Probers -> SUBSET Sources]
    BY <1>1, <1>2, PoolCovers DEF Invariant
  <1>4. SameRuns
    BY <1>1, <1>2, Probing DEF SameRuns, Registered
  <1>5. Viewed' /\ ViewFollowsNewest'
    BY <1>1, <1>4, ViewUntouched DEF Invariant, activity
  <1>6. Locked' /\ SweepApart' /\ Numbered'
    BY <1>1, <1>2, Probing DEF Invariant, Locked, SweepApart, Numbered
  <1>7. TypeOK'
    BY <1>1, <1>2, <1>3, Types DEF Invariant, TypeOK
  <1>8. QED
    BY <1>3, <1>5, <1>6, <1>7 DEF Invariant

LEMMA WaitedHolds == ASSUME Invariant, NEW p \in Probers, Waited(p) PROVE Invariant'
  <1>1. /\ phase[p] = "run" /\ todo[p] = {} /\ \A w \in Workers : cur[p][w] = None
        /\ UNCHANGED <<batchLock, activity>> /\ PoolOf(p)
    BY PoolByPool DEF Invariant, Waited, Over
  <1>2. CASE p = Sweep
    <2>1. Return(p)
      BY <1>2 DEF Waited, Over
    <2>2. /\ phase'[p] = "idle" /\ id'[p] = 0 /\ PoolOf(p)'
          /\ \A q \in Probers \ {p} : /\ SamePool(q) /\ phase'[q] = phase[q]
                                      /\ id'[q] = id[q] /\ single'[q] = single[q]
          /\ phase' \in [Probers -> Phases] /\ id' \in [Probers -> 0 .. MaxRuns]
          /\ single' \in [Probers -> BOOLEAN]
          /\ job' \in [Probers -> SUBSET Sources] /\ todo' \in [Probers -> SUBSET Sources]
          /\ settled' \in [Probers -> SUBSET Sources]
          /\ UNCHANGED <<cur, step>>
      BY <1>1, <2>1, ReturnStep DEF Invariant
    <2>3. SameRuns
      BY <1>2, <2>2, Probing DEF SameRuns, Registered
    <2>4. Viewed' /\ ViewFollowsNewest' /\ Pools' /\ Placed'
      BY <1>1, <2>2, <2>3, ViewUntouched, OthersKept DEF Invariant
    <2>5. next' = next /\ view' = view
      BY <1>1 DEF activity
    <2>6. id[Sweep] = 0
      BY DEF Invariant, SweepApart
    <2>7. Numbered'
      BY <1>2, <2>2, <2>5, <2>6 DEF Invariant, Numbered
    <2>8. \A q \in Tabs : phase'[q] = phase[q] /\ single'[q] = single[q]
      BY <1>2, <2>2, Probing
    <2>9. Locked' /\ SweepApart'
      BY <1>1, <1>2, <2>2, <2>8 DEF Invariant, Locked, SweepApart
    <2>10. TypeOK'
      BY <1>1, <2>2, <2>5, Types DEF Invariant, TypeOK
    <2>11. QED
      BY <2>4, <2>7, <2>9, <2>10 DEF Invariant
  <1>3. CASE p # Sweep
    <2>1. /\ phase'[p] = "end" /\ \A q \in Probers \ {p} : phase'[q] = phase[q]
          /\ phase' \in [Probers -> Phases]
          /\ UNCHANGED <<next, view, id, single, job, todo, cur, step, settled>>
      BY <1>1, <1>3, Types DEF Invariant, Waited, Over, Goto, Phases, activity, pools
    <2>2. TypeOK'
      BY <1>1, <2>1, Types DEF Invariant, TypeOK
    <2>3. PoolOf(p)'
      BY <1>1, <2>1 DEF PoolOf
    <2>4. Pools' /\ Placed'
      BY <2>1, <2>3, OthersKept DEF Invariant, SamePool
    <2>5. SameRuns
      BY <1>1, <2>1, Probing DEF SameRuns, Registered
    <2>6. Viewed' /\ ViewFollowsNewest'
      BY <1>1, <2>5, ViewUntouched DEF Invariant
    <2>7. Locked' /\ SweepApart' /\ Numbered'
      BY <1>1, <1>3, <2>1, Probing DEF Invariant, Locked, SweepApart, Numbered
    <2>8. QED
      BY <2>2, <2>4, <2>6, <2>7 DEF Invariant
  <1>4. QED
    BY <1>2, <1>3

\* A run that ends takes nothing but itself out of view.
LEMMA ViewEnded ==
  ASSUME TypeOK, Numbered, Viewed, ViewFollowsNewest, NEW p \in Tabs, End(p), next' = next,
         ~Registered(p)', \A q \in Tabs \ {p} : /\ Registered(q)' <=> Registered(q)
                                               /\ id'[q] = id[q]
  PROVE  Viewed' /\ ViewFollowsNewest' /\ view' \in Views \cup {None}
  <1>1. view' = view \/ view' = None
    BY DEF End
  <1>2. view' = view => Finished' = Finished
    BY DEF Finished
  <1>3. Viewed' /\ view' \in Views \cup {None}
    BY <1>1, <1>2 DEF Viewed, TypeOK
  <1>4. ASSUME NEW q \in Tabs, Registered(q)', id'[q] = next'
        PROVE  view' # None /\ view'.id = id'[q]
    <2>1. q # p /\ Registered(q) /\ id[q] = next /\ id'[q] = id[q]
      BY <1>4
    <2>2. view # None /\ view.id = id[q]
      BY <2>1 DEF ViewFollowsNewest
    <2>3. id[q] # id[p]
      BY <2>1, Probing DEF Numbered, Registered
    <2>4. view' = view
      BY <2>2, <2>3 DEF End
    <2>5. QED
      BY <2>1, <2>2, <2>4
  <1>5. ASSUME view' # None PROVE \E q \in Tabs : Registered(q)' /\ id'[q] = view'.id
    <2>1. view # None /\ view.id # id[p] /\ view' = view
      BY <1>5 DEF End
    <2>2. PICK q \in Tabs : Registered(q) /\ id[q] = view.id
      BY <2>1 DEF ViewFollowsNewest
    <2>3. q # p
      BY <2>1, <2>2
    <2>4. QED
      BY <2>1, <2>2, <2>3
  <1>6. ViewFollowsNewest'
    BY <1>4, <1>5 DEF ViewFollowsNewest
  <1>7. QED
    BY <1>3, <1>6

LEMMA EndRunHolds == ASSUME Invariant, NEW p \in Probers, EndRun(p) PROVE Invariant'
  <1>1. /\ phase[p] = "end" /\ p \in Tabs /\ p # Sweep /\ PoolOf(p)
        /\ End(p) /\ next' = next /\ batchLock' = batchLock
    BY Probing, ProberAssumption, PoolByPool DEF Invariant, EndRun, SweepApart, End
  <1>2. todo[p] = {} /\ \A w \in Workers : cur[p][w] = None
    BY <1>1 DEF PoolOf
  <1>3. CASE single[p]
    <2>1. Return(p)
      BY <1>3 DEF EndRun
    <2>2. /\ phase'[p] = "idle" /\ id'[p] = 0 /\ ~single'[p] /\ PoolOf(p)'
          /\ \A q \in Probers \ {p} : /\ SamePool(q) /\ phase'[q] = phase[q]
                                      /\ id'[q] = id[q] /\ single'[q] = single[q]
          /\ phase' \in [Probers -> Phases] /\ id' \in [Probers -> 0 .. MaxRuns]
          /\ single' \in [Probers -> BOOLEAN]
          /\ job' \in [Probers -> SUBSET Sources] /\ todo' \in [Probers -> SUBSET Sources]
          /\ settled' \in [Probers -> SUBSET Sources]
          /\ UNCHANGED <<cur, step>>
      BY <1>1, <1>2, <2>1, ReturnStep DEF Invariant
    <2>3. ~Registered(p)' /\ \A q \in Tabs \ {p} : /\ Registered(q)' <=> Registered(q)
                                                  /\ id'[q] = id[q]
      BY <2>2, Probing DEF Registered
    <2>4. Viewed' /\ ViewFollowsNewest' /\ view' \in Views \cup {None}
      BY <1>1, <2>3, ViewEnded DEF Invariant
    <2>5. Pools' /\ Placed'
      BY <2>2, OthersKept DEF Invariant
    <2>6. Locked' /\ SweepApart'
      BY <1>1, <2>2, Probing DEF Invariant, Locked, SweepApart
    <2>7. Numbered'
      <3>1. \A q \in Probers : id'[q] <= next'
        <4>1. 0 <= next
          BY Types DEF Invariant, TypeOK
        <4>2. \A q \in Probers \ {p} : id[q] <= next
          BY DEF Invariant, Numbered
        <4>3. QED
          BY <1>1, <2>2, <4>1, <4>2
      <3>2. \A q, r \in Probers : id'[q] # 0 /\ id'[q] = id'[r] => q = r
        <4> SUFFICES ASSUME NEW q \in Probers, NEW r \in Probers, id'[q] # 0, id'[q] = id'[r]
                     PROVE  q = r
          OBVIOUS
        <4>1. q \in Probers \ {p} /\ r \in Probers \ {p}
          BY <2>2
        <4>2. id[q] # 0 /\ id[q] = id[r]
          BY <2>2, <4>1
        <4>3. QED
          BY <4>2 DEF Invariant, Numbered
      <3>3. QED
        BY <3>1, <3>2 DEF Numbered
    <2>8. TypeOK'
      BY <1>1, <2>2, <2>4, Types DEF Invariant, TypeOK
    <2>9. QED
      BY <2>4, <2>5, <2>6, <2>7, <2>8 DEF Invariant
  <1>4. CASE ~single[p]
    <2>1. /\ phase'[p] = "unlock" /\ \A q \in Probers \ {p} : phase'[q] = phase[q]
          /\ phase' \in [Probers -> Phases]
          /\ UNCHANGED <<id, single, job, todo, cur, step, settled>>
      BY <1>4, Types DEF Invariant, EndRun, Goto, Phases, pools
    <2>2. ~Registered(p)' /\ \A q \in Tabs \ {p} : /\ Registered(q)' <=> Registered(q)
                                                  /\ id'[q] = id[q]
      BY <2>1, Probing DEF Registered
    <2>3. Viewed' /\ ViewFollowsNewest' /\ view' \in Views \cup {None}
      BY <1>1, <2>2, ViewEnded DEF Invariant
    <2>4. PoolOf(p)'
      BY <1>1, <2>1 DEF PoolOf
    <2>5. Pools' /\ Placed'
      BY <2>1, <2>4, OthersKept DEF Invariant, SamePool
    <2>6. Locked' /\ SweepApart' /\ Numbered'
      BY <1>1, <1>4, <2>1, Probing DEF Invariant, Locked, SweepApart, Numbered
    <2>7. TypeOK'
      BY <1>1, <2>1, <2>3, Types DEF Invariant, TypeOK
    <2>8. QED
      BY <2>3, <2>5, <2>6, <2>7 DEF Invariant
  <1>5. QED
    BY <1>3, <1>4

LEMMA UnlockHolds == ASSUME Invariant, NEW p \in Probers, Unlock(p) PROVE Invariant'
  <1>1. /\ phase[p] = "unlock" /\ p \in Tabs /\ p # Sweep /\ PoolOf(p) /\ ~single[p]
        /\ Return(p) /\ batchLock' = None /\ UNCHANGED activity
    BY Probing, ProberAssumption, PoolByPool DEF Invariant, Unlock, SweepApart, Locked
  <1>2. todo[p] = {} /\ \A w \in Workers : cur[p][w] = None
    BY <1>1 DEF PoolOf
  <1>3. /\ phase'[p] = "idle" /\ id'[p] = 0 /\ ~single'[p] /\ PoolOf(p)'
        /\ \A q \in Probers \ {p} : /\ SamePool(q) /\ phase'[q] = phase[q]
                                    /\ id'[q] = id[q] /\ single'[q] = single[q]
        /\ phase' \in [Probers -> Phases] /\ id' \in [Probers -> 0 .. MaxRuns]
        /\ single' \in [Probers -> BOOLEAN]
        /\ job' \in [Probers -> SUBSET Sources] /\ todo' \in [Probers -> SUBSET Sources]
        /\ settled' \in [Probers -> SUBSET Sources]
        /\ UNCHANGED <<cur, step>>
    BY <1>1, <1>2, ReturnStep DEF Invariant
  <1>4. SameRuns
    BY <1>1, <1>3, Probing DEF SameRuns, Registered
  <1>5. Viewed' /\ ViewFollowsNewest' /\ Pools' /\ Placed'
    BY <1>1, <1>3, <1>4, ViewUntouched, OthersKept DEF Invariant
  <1>6. next' = next /\ view' = view
    BY <1>1 DEF activity
  <1>7. Locked'
    <2>1. batchLock = p
      BY <1>1 DEF Invariant, Locked
    <2>2. \A q \in Tabs \ {p} : phase[q] # "idle" => single[q]
      BY <2>1 DEF Invariant, Locked
    <2>3. \A q \in Tabs \ {p} : phase'[q] = phase[q] /\ single'[q] = single[q]
      BY <1>3, Probing
    <2>4. QED
      BY <1>3, <2>2, <2>3 DEF Invariant, Locked
  <1>8. SweepApart'
    BY <1>1, <1>3, Probing DEF Invariant, SweepApart
  <1>9. Numbered'
    <2>1. \A q \in Probers : id'[q] <= next'
      <3>1. 0 <= next
        BY Types DEF Invariant, TypeOK
      <3>2. \A q \in Probers \ {p} : id[q] <= next
        BY DEF Invariant, Numbered
      <3>3. QED
        BY <1>3, <1>6, <3>1, <3>2
    <2>2. \A q, r \in Probers : id'[q] # 0 /\ id'[q] = id'[r] => q = r
      <3> SUFFICES ASSUME NEW q \in Probers, NEW r \in Probers, id'[q] # 0, id'[q] = id'[r]
                   PROVE  q = r
        OBVIOUS
      <3>1. q \in Probers \ {p} /\ r \in Probers \ {p}
        BY <1>3
      <3>2. id[q] # 0 /\ id[q] = id[r]
        BY <1>3, <3>1
      <3>3. QED
        BY <3>2 DEF Invariant, Numbered
    <2>3. QED
      BY <2>1, <2>2 DEF Numbered
  <1>10. TypeOK'
    BY <1>1, <1>3, <1>6, Types DEF Invariant, TypeOK
  <1>11. QED
    BY <1>5, <1>7, <1>8, <1>9, <1>10 DEF Invariant

-----------------------------------------------------------------------------
LEMMA InitHolds == Init => Invariant
  <1> SUFFICES ASSUME Init PROVE Invariant
    OBVIOUS
  <1>1. 0 \in 0 .. MaxRuns
    BY ProberAssumption
  <1>2. TypeOK
    BY <1>1 DEF Init, TypeOK, Nothing, Phases, Moves
  <1>3. Locked /\ SweepApart /\ Viewed /\ ViewFollowsNewest
    BY Probing DEF Init, Locked, SweepApart, Viewed, ViewFollowsNewest, Registered
  <1>4. Pools /\ Placed /\ Numbered
    BY DEF Init, Nothing, Pools, Placed, Numbered
  <1>5. QED
    BY <1>2, <1>3, <1>4 DEF Invariant

LEMMA StepHolds == Invariant /\ [Next]_vars => Invariant'
  <1>1. ASSUME Invariant, NEW p \in Probers, NEW w \in Workers, Work(p, w) PROVE Invariant'
    BY <1>1, HandOffHolds, MeasureHolds, InsertHolds DEF Work
  <1>2. ASSUME Invariant, NEW p \in Probers, Advance(p) PROVE Invariant'
    BY <1>2, ListBatchHolds, WaitedHolds, EndRunHolds, UnlockHolds DEF Advance
  <1>3. ASSUME Invariant, UNCHANGED vars PROVE Invariant'
    <2>1. /\ UNCHANGED <<batchLock, next, view, phase, id, single, job, todo, cur, step, settled>>
          /\ Finished' = Finished
      BY <1>3 DEF vars, Finished
    <2>2. (Locked /\ SweepApart /\ Pools /\ Placed /\ Numbered)'
      BY <1>3, <2>1 DEF Invariant, Locked, SweepApart, Pools, Placed, Numbered
    <2>3. (TypeOK /\ Viewed /\ ViewFollowsNewest)'
      BY <1>3, <2>1 DEF Invariant, TypeOK, Viewed, ViewFollowsNewest, Registered
    <2>4. QED
      BY <2>2, <2>3 DEF Invariant
  <1>4. QED
    BY <1>1, <1>2, <1>3, PressBatchHolds, PressOneHolds, SweepStartHolds DEF Next

LEMMA InvariantHolds == Spec => []Invariant
  BY InitHolds, StepHolds, PTL DEF Spec

-----------------------------------------------------------------------------
(* The theorems.                                                           *)

\* Every variable keeps its type, however runs overlap.
THEOREM TypeCorrect == Spec => []TypeOK
  <1>1. Invariant => TypeOK
    BY DEF Invariant
  <1>2. QED
    BY <1>1, InvariantHolds, PTL

\* One batch at a time, of however many tabs press (handleProbeRun).
THEOREM BatchesTakeTurns == Spec => []OneBatch
  <1>1. Invariant => OneBatch
    BY DEF Invariant, Locked, OneBatch
  <1>2. QED
    BY <1>1, InvariantHolds, PTL

\* No pool, of however many workers, loses a mirror or measures one twice (RunAll).
THEOREM RunsKeepAccount == Spec => []RunsAccount
  <1>1. ASSUME Invariant, NEW p \in Probers
        PROVE  LET busy == {cur[p][w] : w \in Workers} \ {None}
               IN  /\ job[p] = todo[p] \cup busy \cup settled[p]
                   /\ busy \cap (todo[p] \cup settled[p]) = {} /\ todo[p] \cap settled[p] = {}
                   /\ \A v, w \in Workers : cur[p][v] # None /\ cur[p][v] = cur[p][w] => v = w
                   /\ phase[p] = "end" => job[p] = settled[p]
    <2> DEFINE busy == {cur[p][w] : w \in Workers} \ {None}
    <2>1. PoolOf(p)
      BY <1>1, PoolByPool DEF Invariant
    <2>2. busy \subseteq job[p] \ (todo[p] \cup settled[p])
      BY <2>1 DEF PoolOf
    <2>3. \A s \in job[p] : s \in Sources /\ s # None
      BY <1>1, Types, ProberAssumption DEF Invariant
    <2>4. job[p] \ (todo[p] \cup settled[p]) \subseteq busy
      BY <2>1, <2>3 DEF PoolOf
    <2>5. phase[p] = "end" => busy = {} /\ todo[p] = {}
      BY <2>1 DEF PoolOf
    <2>6. todo[p] \subseteq job[p] /\ settled[p] \subseteq job[p] /\ todo[p] \cap settled[p] = {}
      BY <2>1 DEF PoolOf
    <2>7. \A v, w \in Workers : cur[p][v] # None /\ cur[p][v] = cur[p][w] => v = w
      BY <2>1 DEF PoolOf
    <2> HIDE DEF busy
    <2>8. /\ job[p] = todo[p] \cup busy \cup settled[p]
          /\ busy \cap (todo[p] \cup settled[p]) = {}
          /\ phase[p] = "end" => job[p] = settled[p]
      BY <2>2, <2>4, <2>5, <2>6
    <2>9. QED
      BY <2>6, <2>7, <2>8 DEF busy
  <1>2. Invariant => RunsAccount
    BY <1>1 DEF RunsAccount
  <1>3. QED
    BY <1>2, InvariantHolds, PTL

\* The page follows the newest run until it ends, and no run that is over
\* (Activity.Begin, Activity.End).
THEOREM ViewIsNewest == Spec => []ViewFollowsNewest
  <1>1. Invariant => ViewFollowsNewest
    BY DEF Invariant
  <1>2. QED
    BY <1>1, InvariantHolds, PTL

\* The count of finished mirrors is that of the lines that say so
\* (Activity.Observe, Activity.Snapshot).
THEOREM DoneIsCounted == Spec => []DoneCountsMirrors
  <1>1. ASSUME Invariant, view # None
        PROVE  LET over == {s \in Snapshot.steps : view.lines[s].done}
               IN  Snapshot.done = IF Cardinality(over) <= view.total THEN Cardinality(over)
                                   ELSE view.total
    <2>1. Snapshot.steps = {s \in Sources : view.lines[s] # None}
          /\ Snapshot.done = IF view.done <= view.total THEN view.done ELSE view.total
      BY DEF Snapshot
    <2>2. {s \in Snapshot.steps : view.lines[s].done} = Finished
      BY <2>1 DEF Finished
    <2>3. view.done = Cardinality(Finished)
      BY <1>1 DEF Invariant, Viewed
    <2>4. QED
      BY <2>1, <2>2, <2>3
  <1>2. Invariant => DoneCountsMirrors
    BY <1>1 DEF DoneCountsMirrors
  <1>3. QED
    BY <1>2, InvariantHolds, PTL

-----------------------------------------------------------------------------
(* Why every run comes back, without the scheduler: what it has left to do *)
(* never grows and every step of its own makes it less, and until it has   *)
(* returned something it waits for can happen.                             *)

At(p, move) == {w \in Workers : step[p][w] = move}

\* A mirror takes four steps: it is handed over, measured in two and settled.
Remaining(p) ==
  4 * Cardinality(todo[p]) + 3 * Cardinality(At(p, "finish"))
    + 2 * Cardinality(At(p, "done")) + Cardinality(At(p, "insert"))

Left(p) ==
  CASE phase[p] = "idle"   -> 0
    [] phase[p] = "unlock" -> 1
    [] phase[p] = "end"    -> 2
    [] phase[p] = "run"    -> 3 + Remaining(p)
    [] phase[p] = "list"   -> 4 + 4 * Cardinality(Sources)

Own(p) == Advance(p) \/ \E w \in Workers : Work(p, w)

\* The guards of Advance and Work: one of them holds.
Unblocked(p) ==
  \/ phase[p] \in {"list", "end", "unlock"}
  \/ phase[p] = "run" /\ todo[p] = {} /\ \A w \in Workers : cur[p][w] = None
  \/ \E w \in Workers : step[p][w] # "wait"
  \/ phase[p] = "run" /\ todo[p] # {} /\ \E w \in Workers : step[p][w] = "wait"

\* Until it has returned, a run can take a step, or one of its workers can.
NeverStuck == \A p \in Probers : phase[p] # "idle" => Unblocked(p)

\* No step adds to what a run has left, and each of its own takes from it.
Nearer ==
  \A p \in Probers :
    phase[p] # "idle" => /\ Left(p) \in Nat /\ Left(p)' \in Nat
                         /\ Left(p)' <= Left(p) /\ (Own(p) => Left(p)' < Left(p))

LEMMA Countable ==
  ASSUME TypeOK, NEW p \in Probers
  PROVE  /\ IsFiniteSet(todo[p]) /\ Cardinality(todo[p]) \in Nat
         /\ \A move \in Moves : IsFiniteSet(At(p, move)) /\ Cardinality(At(p, move)) \in Nat
         /\ Cardinality(Sources) \in Nat
  <1>1. todo[p] \subseteq Sources
    BY Types
  <1>2. \A move \in Moves : At(p, move) \subseteq Workers
    BY DEF At
  <1>3. QED
    BY <1>1, <1>2, ProberAssumption, FS_Subset, FS_CardinalityType

LEMMA LeftByPhase ==
  ASSUME TypeOK, NEW p \in Probers
  PROVE  /\ phase[p] = "idle" => Left(p) = 0
         /\ phase[p] = "unlock" => Left(p) = 1
         /\ phase[p] = "end" => Left(p) = 2
         /\ phase[p] = "run" => Left(p) = 3 + Remaining(p)
         /\ phase[p] = "list" => Left(p) = 4 + 4 * Cardinality(Sources)
         /\ Remaining(p) \in Nat /\ Left(p) \in Nat
  <1>1. Remaining(p) \in Nat
    BY Countable DEF Remaining, Moves
  <1>2. phase[p] \in Phases
    BY Types
  <1>3. /\ phase[p] = "idle" => Left(p) = 0
        /\ phase[p] = "unlock" => Left(p) = 1
        /\ phase[p] = "end" => Left(p) = 2
        /\ phase[p] = "run" => Left(p) = 3 + Remaining(p)
        /\ phase[p] = "list" => Left(p) = 4 + 4 * Cardinality(Sources)
    BY DEF Left
  <1>4. Left(p) \in Nat
    BY <1>1, <1>2, <1>3, Countable DEF Phases
  <1>5. QED
    BY <1>1, <1>3, <1>4

\* A worker that moves leaves one set and joins another.
LEMMA MoveCounts ==
  ASSUME TypeOK, NEW p \in Probers, NEW w \in Workers, NEW from \in Moves, NEW to \in Moves,
         from # to, step[p][w] = from, Move(p, w, to)
  PROVE  /\ Cardinality(At(p, from))' = Cardinality(At(p, from)) - 1
         /\ Cardinality(At(p, to))' = Cardinality(At(p, to)) + 1
         /\ \A move \in Moves \ {from, to} : Cardinality(At(p, move))' = Cardinality(At(p, move))
  <1>1. step \in [Probers -> [Workers -> Moves]]
    BY Types
  <1>2. step'[p] = [step[p] EXCEPT ![w] = to]
    BY <1>1 DEF Move
  <1>3. step'[p][w] = to /\ \A v \in Workers \ {w} : step'[p][v] = step[p][v]
    BY <1>1, <1>2
  <1>4. At(p, from)' = At(p, from) \ {w} /\ w \in At(p, from)
    BY <1>3 DEF At
  <1>5. At(p, to)' = At(p, to) \cup {w} /\ w \notin At(p, to)
    BY <1>3 DEF At
  <1>6. \A move \in Moves \ {from, to} : At(p, move)' = At(p, move)
    BY <1>3 DEF At
  <1>7. /\ Cardinality(At(p, from) \ {w}) = Cardinality(At(p, from)) - 1
        /\ Cardinality(At(p, to) \cup {w}) = Cardinality(At(p, to)) + 1
    BY <1>4, <1>5, Countable, FS_AddElement, FS_RemoveElement
  <1>8. QED
    BY <1>4, <1>5, <1>6, <1>7

LEMMA WorkNearer ==
  ASSUME Invariant, Invariant', NEW p \in Probers, NEW w \in Workers, Work(p, w)
  PROVE  Left(p)' < Left(p)
  <1>1. TypeOK /\ TypeOK' /\ PoolOf(p)
    BY PoolByPool DEF Invariant
  <1>2. phase[p] = "run" /\ phase'[p] = "run"
    BY <1>1 DEF Work, HandOff, Measure, Insert, Settle, Frame, PoolOf
  <1>3. Left(p) = 3 + Remaining(p) /\ Remaining(p) \in Nat
    BY <1>1, <1>2, LeftByPhase
  <1>4. Left(p)' = 3 + Remaining(p)' /\ Remaining(p)' \in Nat
    <2>1. (phase[p] = "run" => Left(p) = 3 + Remaining(p))' /\ (Remaining(p) \in Nat)'
      BY <1>1, LeftByPhase, PTL
    <2>2. QED
      BY <1>2, <2>1
  <1>5. todo \in [Probers -> SUBSET Sources]
    BY <1>1, Types
  <1>6. {"wait", "finish", "done", "insert"} = Moves
    BY DEF Moves
  <1>7. /\ Cardinality(todo[p]) \in Nat /\ IsFiniteSet(todo[p])
        /\ \A move \in Moves : Cardinality(At(p, move)) \in Nat
    BY <1>1, Countable
  <1>8. ASSUME NEW s \in Sources, HandOff(p, w, s)
        PROVE  Remaining(p)' < Remaining(p)
    <2>1. /\ Cardinality(At(p, "finish"))' = Cardinality(At(p, "finish")) + 1
          /\ Cardinality(At(p, "done"))' = Cardinality(At(p, "done"))
          /\ Cardinality(At(p, "insert"))' = Cardinality(At(p, "insert"))
      BY <1>1, <1>6, <1>8, MoveCounts DEF HandOff
    <2>2. todo'[p] = todo[p] \ {s} /\ s \in todo[p]
      BY <1>5, <1>8 DEF HandOff
    <2>3. Cardinality(todo'[p]) = Cardinality(todo[p]) - 1
      BY <1>7, <2>2, FS_RemoveElement
    <2>4. QED
      BY <1>6, <1>7, <2>1, <2>3 DEF Remaining
  <1>9. ASSUME Measure(p, w), step[p][w] = "finish"
        PROVE  Remaining(p)' < Remaining(p)
    <2>1. /\ Cardinality(At(p, "finish"))' = Cardinality(At(p, "finish")) - 1
          /\ Cardinality(At(p, "done"))' = Cardinality(At(p, "done")) + 1
          /\ Cardinality(At(p, "insert"))' = Cardinality(At(p, "insert"))
      BY <1>1, <1>6, <1>9, MoveCounts DEF Measure
    <2>2. todo' = todo
      BY <1>9 DEF Measure
    <2>3. QED
      BY <1>6, <1>7, <2>1, <2>2 DEF Remaining
  <1>10. ASSUME Measure(p, w), step[p][w] = "done"
         PROVE  Remaining(p)' < Remaining(p)
    <2>1. /\ Cardinality(At(p, "done"))' = Cardinality(At(p, "done")) - 1
          /\ Cardinality(At(p, "insert"))' = Cardinality(At(p, "insert")) + 1
          /\ Cardinality(At(p, "finish"))' = Cardinality(At(p, "finish"))
      BY <1>1, <1>6, <1>10, MoveCounts DEF Measure
    <2>2. todo' = todo
      BY <1>10 DEF Measure
    <2>3. QED
      BY <1>6, <1>7, <2>1, <2>2 DEF Remaining
  <1>11. ASSUME Insert(p, w)
         PROVE  Remaining(p)' < Remaining(p)
    <2>1. /\ Cardinality(At(p, "insert"))' = Cardinality(At(p, "insert")) - 1
          /\ Cardinality(At(p, "done"))' = Cardinality(At(p, "done"))
          /\ Cardinality(At(p, "finish"))' = Cardinality(At(p, "finish"))
      BY <1>1, <1>6, <1>11, MoveCounts DEF Insert, Settle
    <2>2. todo' = todo
      BY <1>11 DEF Insert, Settle
    <2>3. QED
      BY <1>6, <1>7, <2>1, <2>2 DEF Remaining
  <1>12. Remaining(p)' < Remaining(p)
    BY <1>8, <1>9, <1>10, <1>11 DEF Work, Measure
  <1>13. QED
    BY <1>3, <1>4, <1>12

LEMMA AdvanceNearer ==
  ASSUME Invariant, Invariant', NEW p \in Probers, Advance(p)
  PROVE  Left(p)' < Left(p)
  <1>1. TypeOK /\ TypeOK' /\ PoolOf(p) /\ PoolOf(p)' /\ phase \in [Probers -> Phases]
    BY PoolByPool, Types DEF Invariant, Pools, Placed, PoolOf
  <1>2. Cardinality(Sources) \in Nat /\ Remaining(p) \in Nat
    BY <1>1, Countable, LeftByPhase
  <1>3. /\ (phase[p] = "idle" => Left(p) = 0)'
        /\ (phase[p] = "unlock" => Left(p) = 1)'
        /\ (phase[p] = "end" => Left(p) = 2)'
        /\ (phase[p] = "run" => Left(p) = 3 + Remaining(p))'
    BY <1>1, LeftByPhase, PTL
  <1>4. CASE ListBatch(p)
    <2>1. Left(p) = 4 + 4 * Cardinality(Sources)
      BY <1>1, <1>4, LeftByPhase DEF ListBatch
    <2>2. CASE phase'[p] \in {"unlock", "end"}
      BY <1>2, <1>3, <2>1, <2>2
    <2>3. CASE phase'[p] = "run"
      <3>1. \A w \in Workers : step[p][w] = "wait"
        BY <1>1, <1>4 DEF ListBatch, PoolOf
      <3>2. step' = step
        BY <1>1, <1>4, <2>3 DEF ListBatch, Goto, pools
      <3>3. \A move \in {"finish", "done", "insert"} : At(p, move)' = {}
        BY <3>1, <3>2 DEF At
      <3>4. \A move \in {"finish", "done", "insert"} : Cardinality(At(p, move))' = 0
        BY <3>3, FS_EmptySet
      <3>5. todo'[p] \in SUBSET Sources
        BY <1>1 DEF TypeOK
      <3>6. Cardinality(todo'[p]) \in Nat /\ Cardinality(todo'[p]) <= Cardinality(Sources)
        BY <3>5, CountTyped
      <3>7. Remaining(p)' = 4 * Cardinality(todo'[p])
        BY <3>4, <3>6 DEF Remaining
      <3>8. QED
        BY <1>2, <1>3, <2>1, <2>3, <3>6, <3>7
    <2>4. phase'[p] \in {"unlock", "end", "run"}
      BY <1>1, <1>4 DEF ListBatch, Goto
    <2>5. QED
      BY <2>2, <2>3, <2>4
  <1>5. CASE Waited(p)
    <2>1. phase'[p] \in {"idle", "end"}
      BY <1>1, <1>5 DEF Waited, Over, Return, Goto
    <2>2. Left(p) = 3 + Remaining(p)
      BY <1>1, <1>5, LeftByPhase DEF Waited
    <2>3. QED
      BY <1>2, <1>3, <2>1, <2>2
  <1>6. CASE EndRun(p)
    <2>1. phase'[p] \in {"idle", "unlock"}
      BY <1>1, <1>6 DEF EndRun, Return, Goto
    <2>2. Left(p) = 2
      BY <1>1, <1>6, LeftByPhase DEF EndRun
    <2>3. QED
      BY <1>3, <2>1, <2>2
  <1>7. CASE Unlock(p)
    <2>1. phase'[p] = "idle"
      BY <1>1, <1>7 DEF Unlock, Return, Goto
    <2>2. Left(p) = 1
      BY <1>1, <1>7, LeftByPhase DEF Unlock
    <2>3. QED
      BY <1>3, <2>1, <2>2
  <1>8. QED
    BY <1>4, <1>5, <1>6, <1>7 DEF Advance

\* What a step of another prober leaves of a run.
Stays(p) == todo'[p] = todo[p] /\ step'[p] = step[p] /\ phase'[p] = phase[p]

LEMMA LeftStays ==
  ASSUME NEW p \in Probers, Stays(p)
  PROVE  Left(p)' = Left(p)
  <1>1. \A move \in Moves : At(p, move)' = At(p, move)
    BY DEF At, Stays
  <1>2. Remaining(p)' = Remaining(p)
    BY <1>1 DEF Remaining, Moves, Stays
  <1>3. QED
    BY <1>2 DEF Left, Stays

LEMMA OthersStay ==
  ASSUME TypeOK, NEW p \in Probers, NEW q \in Probers, q # p,
         \/ Advance(q) \/ (\E w \in Workers : Work(q, w)) \/ PressBatch(q)
         \/ (\E s \in Sources : PressOne(q, s)) \/ (q = Sweep /\ \E S \in SUBSET Sources : SweepStart(S))
  PROVE  Stays(p)
  <1>1. /\ phase \in [Probers -> Phases] /\ todo \in [Probers -> SUBSET Sources]
        /\ step \in [Probers -> [Workers -> Moves]]
    BY Types
  <1>2. ASSUME Return(q) PROVE Stays(p)
    BY <1>1, <1>2 DEF Return, Goto, Stays
  <1>3. ASSUME Advance(q) PROVE Stays(p)
    BY <1>1, <1>2, <1>3
    DEF Advance, ListBatch, Waited, EndRun, Unlock, Over, Goto, Cover, pools, Stays
  <1>4. ASSUME NEW w \in Workers, Work(q, w) PROVE Stays(p)
    BY <1>1, <1>4 DEF Work, HandOff, Measure, Insert, Settle, Frame, Move, Stays
  <1>5. QED
    BY <1>1, <1>3, <1>4 DEF PressBatch, PressOne, SweepStart, Goto, Cover, pools, Stays

LEMMA StepNearer == ASSUME Invariant, Invariant', [Next]_vars PROVE Nearer
  <1> SUFFICES ASSUME NEW p \in Probers, phase[p] # "idle"
               PROVE  /\ Left(p) \in Nat /\ Left(p)' \in Nat
                      /\ Left(p)' <= Left(p) /\ (Own(p) => Left(p)' < Left(p))
    BY DEF Nearer
  <1>1. Left(p) \in Nat /\ Left(p)' \in Nat
    <2>1. TypeOK /\ TypeOK'
      BY DEF Invariant
    <2>2. Left(p) \in Nat
      BY <2>1, LeftByPhase
    <2>3. (Left(p) \in Nat)'
      BY <2>1, LeftByPhase, PTL
    <2>4. QED
      BY <2>2, <2>3
  <1>2. Own(p) => Left(p)' < Left(p)
    BY AdvanceNearer, WorkNearer DEF Own
  <1>3. ~Own(p) => Stays(p)
    <2> SUFFICES ASSUME ~Own(p) PROVE Stays(p)
      OBVIOUS
    <2>1. TypeOK /\ Tabs \subseteq Probers /\ Sweep \in Probers
      BY Probing DEF Invariant
    <2>2. CASE UNCHANGED vars
      BY <2>2 DEF vars, Stays
    <2>3. ASSUME NEW q \in Tabs, PressBatch(q) \/ \E s \in Sources : PressOne(q, s)
          PROVE  Stays(p)
      <3>1. q # p
        BY <2>3 DEF PressBatch, PressOne
      <3>2. QED
        BY <2>1, <2>3, <3>1, OthersStay
    <2>4. ASSUME NEW S \in SUBSET Sources, SweepStart(S) PROVE Stays(p)
      <3>1. Sweep # p
        BY <2>4 DEF SweepStart
      <3>2. QED
        BY <2>1, <2>4, <3>1, OthersStay
    <2>5. ASSUME NEW q \in Probers, Own(q) PROVE Stays(p)
      <3>1. q # p
        BY <2>5
      <3>2. QED
        BY <2>1, <2>5, <3>1, OthersStay DEF Own
    <2>6. QED
      BY <2>2, <2>3, <2>4, <2>5 DEF Next, Own
  <1>4. QED
    BY <1>1, <1>2, <1>3, LeftStays

\* However many runs overlap, a run that has begun only gets nearer to its end, and
\* by a step at least whenever it takes one itself (RunAll, handleProbeRun): there
\* is no work that comes back, and no event of others that adds to it.
THEOREM RunsGetNearer == Spec => [][Nearer]_vars
  <1>1. Invariant /\ Invariant' /\ [Next]_vars => [Nearer]_vars
    BY StepNearer
  <1>2. QED
    BY <1>1, InvariantHolds, PTL DEF Spec

\* A run never waits for what cannot come: the feeder for a worker that has gone,
\* the pool for a mirror nobody holds, a handler for another's lock.
THEOREM RunsNeverStick == Spec => []NeverStuck
  <1>1. ASSUME Invariant, NEW p \in Probers, phase[p] # "idle" PROVE Unblocked(p)
    <2>1. phase[p] \in Phases /\ PoolOf(p)
      BY <1>1, PoolByPool, Types DEF Invariant
    <2>2. CASE phase[p] # "run"
      BY <1>1, <2>1, <2>2 DEF Unblocked, Phases
    <2>3. CASE phase[p] = "run" /\ todo[p] = {}
      BY <2>1, <2>3 DEF Unblocked, PoolOf
    <2>4. CASE phase[p] = "run" /\ todo[p] # {}
      BY <2>4, ProberAssumption DEF Unblocked
    <2>5. QED
      BY <2>2, <2>3, <2>4
  <1>2. Invariant => NeverStuck
    BY <1>1 DEF NeverStuck
  <1>3. QED
    BY <1>2, InvariantHolds, PTL
=============================================================================
