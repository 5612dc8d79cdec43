-------------------------- MODULE CatalogueProofs --------------------------
(***************************************************************************)
(* The start, the forms and the probes keep the catalogue and its history  *)
(* as Catalogue promises, for any number of mirrors, releases and probers. *)
(***************************************************************************)
EXTENDS Catalogue, ArrangeProofs, TLAPS

-----------------------------------------------------------------------------
(* The invariant.                                                          *)

Ships(i) == Shipped[release][i] # None

\* What is believed applied was recorded.
KnownRecorded == known \subseteq recorded

\* A seeded built-in is there, and as shipped unless the user holds its ID.
Seeded ==
  up = "sync" =>
    \A i \in Ids : Ships(i) /\ i \notin todo =>
      rows[i] # None /\ (IsBuiltin(i) => rows[i].content = Shipped[release][i].content)

TodoShips == up = "sync" => \A i \in todo : Ships(i)

\* Nothing is in flight unless the panel serves.
Quiet ==
  up # "serving" => /\ \A p \in Probers : \A i \in Ids : work[p][i] = None
                    /\ \A e \in Editors : edit[e] = None

\* What is being measured of a built-in was read from the row that is there.
WorkIsOwn ==
  \A p \in Probers : \A i \in Ids : work[p][i] # None /\ IsBuiltin(i) => work[p][i].own

\* What TypeOK is strengthened with.
Rest ==
  /\ SchemaReady /\ KnownRecorded
  /\ Seeded /\ TodoShips /\ CatalogueCurrent
  /\ Quiet /\ WorkIsOwn /\ HistoryIsOwn

-----------------------------------------------------------------------------
(* Type correctness.                                                       *)

LEMMA InitTyped == Init => TypeOK
  BY CatalogueAssumption
  DEF Init, TypeOK, Idle, Times, Rows, Runs, Measurements

\* A cascade keeps the types of what it touches.
LEMMA CascadeTyped ==
  ASSUME TypeOK, NEW gone, Cascade(gone)
  PROVE  /\ runs' \in SUBSET Runs /\ last' \in 0 .. MaxRuns
         /\ running' \in SUBSET Probers /\ solo' \in SUBSET running'
         /\ work' \in [Probers -> [Ids -> Measurements \cup {None}]]
  <1>1. ASSUME NEW p \in Probers, NEW i \in Ids
        PROVE  (IF work[p][i] # None /\ i \in gone
                THEN [work[p][i] EXCEPT !.own = FALSE] ELSE work[p][i])
               \in Measurements \cup {None}
    <2>1. work[p][i] \in Measurements \cup {None}
      BY DEF TypeOK
    <2>2. CASE work[p][i] # None
      <3>1. work[p][i] \in Measurements
        BY <2>1, <2>2
      <3>2. [work[p][i] EXCEPT !.own = FALSE] \in Measurements
        BY <3>1 DEF Measurements
      <3>3. QED
        BY <3>1, <3>2
    <2>3. QED
      BY <2>1, <2>2
  <1>2. QED
    BY <1>1 DEF TypeOK, Cascade

LEMMA StartTyped == ASSUME TypeOK, NEW r \in Releases, Start(r) PROVE TypeOK'
  BY DEF TypeOK, Start, schema, table, probes

LEMMA MigrateTyped ==
  ASSUME TypeOK, NEW m \in Known(release), Migrate(m) PROVE TypeOK'
  <1>1. m \in Nat
    BY CatalogueAssumption DEF TypeOK, Known
  <1>2. QED
    BY <1>1 DEF TypeOK, Migrate, Commit, table, probes

LEMMA OpenedTyped == ASSUME TypeOK, Opened PROVE TypeOK'
  BY DEF TypeOK, Opened, schema, table, probes

\* A seeded row is typed.
LEMMA SyncTyped ==
  ASSUME TypeOK, NEW i \in Ids, Ships(i), SyncBuiltin(i)
  PROVE  rows' \in [Ids -> Rows \cup {None}]
  <1>1. Shipped[release][i] \in Builtins
    BY CatalogueAssumption DEF TypeOK, Ships
  <1>2. rows[i] \in Rows \cup {None}
    BY DEF TypeOK
  <1>3. [builtin |-> TRUE, enabled |-> Shipped[release][i].enabled,
         content |-> Shipped[release][i].content] \in Rows
    BY <1>1 DEF Rows, Builtins
  <1>4. rows[i] # None => [rows[i] EXCEPT !.content = Shipped[release][i].content] \in Rows
    BY <1>1, <1>2 DEF Rows, Builtins
  <1>5. QED
    BY <1>3, <1>4 DEF TypeOK, SyncBuiltin

LEMMA SeedTyped ==
  ASSUME TypeOK, TodoShips, NEW i \in Ids, Seed(i) PROVE TypeOK'
  <1>1. rows' \in [Ids -> Rows \cup {None}]
    BY SyncTyped DEF Seed, TodoShips
  <1>2. QED
    BY <1>1 DEF TypeOK, Seed, schema, table, probes

LEMMA ServeTyped == ASSUME TypeOK, Serve PROVE TypeOK'
  <1> DEFINE gone == {i \in Ids : IsBuiltin(i) /\ Shipped[release][i] = None}
  <1>1. Cascade(gone)
    BY DEF Serve, RetireBuiltins
  <1>2. rows' \in [Ids -> Rows \cup {None}]
    BY DEF TypeOK, Serve, RetireBuiltins
  <1>3. QED
    BY <1>1, <1>2, CascadeTyped DEF TypeOK, Serve, schema

LEMMA StopTyped == ASSUME TypeOK, Stop PROVE TypeOK'
  <1>1. work' \in [Probers -> [Ids -> Measurements \cup {None}]]
    BY DEF Stop, Idle
  <1>2. edit' \in [Editors -> Ids \cup {None}]
    BY DEF Stop
  <1>3. QED
    BY <1>1, <1>2 DEF TypeOK, Stop, schema, table

\* What an update does to its row and leaves of the others.
LEMMA UpdatedRow ==
  ASSUME TypeOK, NEW i \in Ids, NEW enabled \in BOOLEAN, NEW content \in Contents,
         UpdateSource(i, enabled, content) \/ UNCHANGED rows
  PROVE  /\ rows' \in [Ids -> Rows \cup {None}]
         /\ \A j \in Ids \ {i} : rows'[j] = rows[j]
         /\ ~IsUser(i) => rows'[i] = rows[i]
         /\ IsUser(i) => rows'[i] # None /\ ~rows'[i].builtin
  <1>1. CASE UpdateSource(i, enabled, content) /\ IsUser(i)
    <2> DEFINE row == [builtin |-> FALSE, enabled |-> enabled, content |-> content]
    <2>1. rows' = [rows EXCEPT ![i] = row]
      BY <1>1 DEF UpdateSource
    <2>2. row \in Rows
      BY CatalogueAssumption DEF Rows
    <2>3. row # None /\ ~row.builtin
      BY <2>2, CatalogueAssumption
    <2>4. QED
      BY <1>1, <2>1, <2>2, <2>3 DEF TypeOK
  <1>2. CASE UpdateSource(i, enabled, content) /\ ~IsUser(i)
    BY <1>2 DEF UpdateSource, TypeOK
  <1>3. CASE UNCHANGED rows
    BY <1>3 DEF TypeOK, IsUser
  <1>4. QED
    BY <1>1, <1>2, <1>3

LEMMA EditingTyped == ASSUME TypeOK, Editing PROVE TypeOK'
  <1>1. ASSUME NEW i \in Ids, NEW enabled \in BOOLEAN, NEW content \in Contents,
               handleSourceCreate(i, enabled, content)
        PROVE  TypeOK'
    BY <1>1, CatalogueAssumption
    DEF TypeOK, handleSourceCreate, CreateSource, Rows, schema, start, table, probes
  <1>2. ASSUME NEW e \in Editors, NEW enabled \in BOOLEAN, NEW content \in Contents,
               handleSourceUpdate(e, enabled, content)
        PROVE  TypeOK'
    <2>1. edit[e] \in Ids
      BY <1>2 DEF TypeOK, handleSourceUpdate
    <2>2. rows' \in [Ids -> Rows \cup {None}]
      BY <1>2, <2>1, UpdatedRow DEF handleSourceUpdate
    <2>3. QED
      BY <1>2, <2>2 DEF TypeOK, handleSourceUpdate, schema, start, table, probes
  <1>3. ASSUME NEW e \in Editors, NEW i \in Ids, OpenUpdate(e, i) PROVE TypeOK'
    BY <1>3 DEF TypeOK, OpenUpdate, schema, start, table, probes
  <1>4. ASSUME NEW i \in Ids, handleSourceDelete(i) PROVE TypeOK'
    <2>1. Cascade({i})
      BY <1>4 DEF handleSourceDelete, DeleteSource
    <2>2. rows' \in [Ids -> Rows \cup {None}]
      BY <1>4 DEF TypeOK, handleSourceDelete, DeleteSource
    <2>3. QED
      BY <1>4, <2>1, <2>2, CascadeTyped DEF TypeOK, handleSourceDelete, schema, start
  <1>5. ASSUME NEW i \in Ids, NEW enabled \in BOOLEAN, handleSourceEnabled(i, enabled)
        PROVE  TypeOK'
    BY <1>5 DEF TypeOK, handleSourceEnabled, SetSourceEnabled, Rows, schema, start,
                table, probes
  <1>6. QED
    BY <1>1, <1>2, <1>3, <1>4, <1>5 DEF Editing

LEMMA TakeTyped ==
  ASSUME TypeOK, NEW p \in Probers, NEW S, Take(p, S), solo' \in SUBSET running'
  PROVE  TypeOK'
  <1>1. work' \in [Probers -> [Ids -> Measurements \cup {None}]]
    BY DEF TypeOK, Take, Measurements
  <1>2. QED
    BY <1>1 DEF TypeOK, Take, schema, start, table

LEMMA ProbingTyped ==
  ASSUME TypeOK, NEW p \in Probers,
         \/ ListBatch(p)
         \/ Finish(p)
         \/ \E i \in Ids : TakeOne(p, i) \/ Begin(p, i) \/ Record(p, i) \/ Lose(p, i)
  PROVE  TypeOK'
  <1>1. CASE ListBatch(p)
    <2>1. solo' \in SUBSET running'
      BY <1>1 DEF TypeOK, ListBatch, Take
    <2>2. QED
      BY <1>1, <2>1, TakeTyped DEF ListBatch
  <1>2. CASE Finish(p)
    <2>1. runs' \in SUBSET Runs /\ last' = last
      BY <1>2 DEF TypeOK, Finish, PruneProbes, table
    <2>2. QED
      BY <1>2, <2>1 DEF TypeOK, Finish, schema, start
  <1>3. ASSUME NEW i \in Ids, TakeOne(p, i) PROVE TypeOK'
    <2>1. solo' \in SUBSET running'
      BY <1>3 DEF TypeOK, TakeOne, Take
    <2>2. QED
      BY <1>3, <2>1, TakeTyped DEF TakeOne
  <1>4. ASSUME NEW i \in Ids, Begin(p, i) PROVE TypeOK'
    BY <1>4 DEF TypeOK, Begin, Measurements, schema, start, table
  <1>5. ASSUME NEW i \in Ids, Record(p, i) PROVE TypeOK'
    <2>1. work[p][i] \in Measurements /\ work[p][i].at \in Times /\ work[p][i].own \in BOOLEAN
      BY <1>5 DEF TypeOK, Record, Measured, Measurements
    <2>2. last + 1 \in 1 .. MaxRuns
      BY <1>5, CatalogueAssumption DEF TypeOK, Record, InsertProbe
    <2>3. runs' \in SUBSET Runs /\ last' \in 0 .. MaxRuns
      BY <1>5, <2>1, <2>2 DEF TypeOK, Record, InsertProbe, Runs
    <2>4. QED
      BY <1>5, <2>3 DEF TypeOK, Record, schema, start
  <1>6. ASSUME NEW i \in Ids, Lose(p, i) PROVE TypeOK'
    BY <1>6 DEF TypeOK, Lose, schema, start, table
  <1>7. QED
    BY <1>1, <1>2, <1>3, <1>4, <1>5, <1>6

LEMMA TickTyped == ASSUME TypeOK, Tick PROVE TypeOK'
  BY CatalogueAssumption DEF TypeOK, Tick, Times, schema, start, table, probes

LEMMA StepTyped == ASSUME TypeOK, TodoShips, [Next]_vars PROVE TypeOK'
  <1>1. CASE Starting
    BY <1>1, StartTyped, MigrateTyped, OpenedTyped, SeedTyped, ServeTyped DEF Starting
  <1>2. CASE UNCHANGED vars
    BY <1>2 DEF TypeOK, vars, schema, start, table, probes
  <1>3. QED
    BY <1>1, <1>2, StopTyped, EditingTyped, ProbingTyped, TickTyped DEF Next, Probing

-----------------------------------------------------------------------------
(* The invariant is inductive.                                             *)

LEMMA InitHolds == Init => Rest
  BY DEF Init, Rest, SchemaReady, KnownRecorded, Seeded, TodoShips, CatalogueCurrent,
         Quiet, WorkIsOwn, HistoryIsOwn, Idle, IsBuiltin

\* Records are never None, so a row written is a row there.
LEMMA RowsAreThere ==
  ASSUME NEW row \in Rows PROVE row # None
  BY CatalogueAssumption

LEMMA StartHolds == ASSUME TypeOK, Rest, NEW r \in Releases, Start(r) PROVE Rest'
  BY DEF Rest, SchemaReady, KnownRecorded, Seeded, TodoShips, CatalogueCurrent, Quiet,
         WorkIsOwn, HistoryIsOwn, Start, IsBuiltin, table, probes, schema, Known

LEMMA MigrateHolds ==
  ASSUME TypeOK, Rest, NEW m \in Known(release), Migrate(m) PROVE Rest'
  BY DEF Rest, SchemaReady, KnownRecorded, Seeded, TodoShips, CatalogueCurrent, Quiet,
         WorkIsOwn, HistoryIsOwn, Migrate, Commit, IsBuiltin, table, probes

LEMMA OpenedHolds == ASSUME TypeOK, Rest, Opened PROVE Rest'
  BY DEF Rest, SchemaReady, KnownRecorded, Seeded, TodoShips, CatalogueCurrent, Quiet,
         WorkIsOwn, HistoryIsOwn, Opened, IsBuiltin, Ships, table, probes, schema, Known

\* What the upsert does to its row and leaves of the others.
LEMMA SyncBuiltinRow ==
  ASSUME TypeOK, NEW i \in Ids, Ships(i), SyncBuiltin(i)
  PROVE  /\ \A j \in Ids \ {i} : rows'[j] = rows[j]
         /\ rows'[i] # None
         /\ IsUser(i) => rows'[i] = rows[i]
         /\ IsBuiltin(i)' => rows'[i].content = Shipped[release][i].content
         /\ IsBuiltin(i) => IsBuiltin(i)' /\ rows'[i].enabled = rows[i].enabled
         /\ rows[i] # None /\ IsBuiltin(i)' => IsBuiltin(i)
  <1>1. Shipped[release][i] \in Builtins
    BY CatalogueAssumption DEF TypeOK, Ships
  <1>2. rows[i] \in Rows \cup {None}
    BY DEF TypeOK
  <1>3. \A j \in Ids \ {i} : rows'[j] = rows[j]
    BY DEF TypeOK, SyncBuiltin
  <1>4. CASE rows[i] = None
    <2>1. rows'[i] = [builtin |-> TRUE, enabled |-> Shipped[release][i].enabled,
                      content |-> Shipped[release][i].content]
      BY <1>4 DEF TypeOK, SyncBuiltin
    <2>2. rows'[i] \in Rows
      BY <1>1, <2>1 DEF Rows, Builtins
    <2>3. rows'[i] # None
      BY <2>2, RowsAreThere
    <2>4. QED
      BY <1>3, <1>4, <2>1, <2>3 DEF IsUser, IsBuiltin
  <1>5. CASE rows[i] # None /\ rows[i].builtin
    <2>1. rows[i] \in Rows
      BY <1>2, <1>5
    <2>2. rows'[i] = [rows[i] EXCEPT !.content = Shipped[release][i].content]
      BY <1>5 DEF TypeOK, SyncBuiltin
    <2>3. rows'[i] \in Rows /\ rows'[i].builtin = rows[i].builtin
          /\ rows'[i].enabled = rows[i].enabled
          /\ rows'[i].content = Shipped[release][i].content
      BY <1>1, <2>1, <2>2 DEF Rows, Builtins
    <2>4. QED
      BY <1>3, <1>5, <2>3, RowsAreThere DEF IsUser, IsBuiltin
  <1>6. CASE rows[i] # None /\ ~rows[i].builtin
    <2>1. rows' = rows
      BY <1>6 DEF SyncBuiltin
    <2>2. QED
      BY <1>6, <2>1 DEF IsUser, IsBuiltin
  <1>7. QED
    BY <1>4, <1>5, <1>6

LEMMA SeedHolds == ASSUME TypeOK, Rest, NEW i \in Ids, Seed(i) PROVE Rest'
  <1>1. Ships(i) /\ SyncBuiltin(i)
    BY DEF Rest, TodoShips, Seed
  <1>2. /\ \A j \in Ids \ {i} : rows'[j] = rows[j]
        /\ rows'[i] # None
        /\ IsBuiltin(i)' => rows'[i].content = Shipped[release][i].content
        /\ rows[i] # None /\ IsBuiltin(i)' => IsBuiltin(i)
    BY <1>1, SyncBuiltinRow
  <1>3. Seeded'
    <2>1. ASSUME NEW j \in Ids, Ships(j)', j \notin todo'
          PROVE  (rows[j] # None /\ (IsBuiltin(j) => rows[j].content = Shipped[release][j].content))'
      <3>1. CASE j = i
        BY <1>2, <3>1 DEF Seed
      <3>2. CASE j # i
        BY <1>2, <2>1, <3>2 DEF Rest, Seeded, Seed, Ships, IsBuiltin
      <3>3. QED
        BY <3>1, <3>2
    <2>2. QED
      BY <2>1 DEF Seeded
  <1>4. HistoryIsOwn'
    <2>1. ASSUME NEW r \in runs'
          PROVE  (rows[r.source] # None /\ (IsBuiltin(r.source) => r.own))'
      <3>1. r \in runs /\ r.source \in Ids /\ rows[r.source] # None
            /\ (IsBuiltin(r.source) => r.own)
        BY <2>1 DEF Seed, table, TypeOK, Runs, Rest, HistoryIsOwn
      <3>2. CASE r.source = i
        BY <1>2, <3>1, <3>2
      <3>3. CASE r.source # i
        BY <1>2, <3>1, <3>3 DEF IsBuiltin
      <3>4. QED
        BY <3>2, <3>3
    <2>2. QED
      BY <2>1 DEF HistoryIsOwn
  <1>5. QED
    BY <1>3, <1>4 DEF Rest, SchemaReady, KnownRecorded, TodoShips, CatalogueCurrent, Quiet,
      WorkIsOwn, Seed, Ships, Known, schema, probes

\* Rows that go take their measurements along, and leave the others alone.
LEMMA CascadeOwn ==
  ASSUME TypeOK, Rest, NEW gone \in SUBSET Ids, Cascade(gone),
         \A i \in gone : rows'[i] = None,
         \A i \in Ids \ gone : rows'[i] = rows[i]
  PROVE  HistoryIsOwn' /\ WorkIsOwn'
  <1>1. HistoryIsOwn'
    <2>1. ASSUME NEW r \in runs'
          PROVE  (rows[r.source] # None /\ (IsBuiltin(r.source) => r.own))'
      <3>1. r \in runs /\ r.source \in Ids \ gone
        BY <2>1 DEF Cascade, TypeOK, Runs
      <3>2. QED
        BY <3>1 DEF Rest, HistoryIsOwn, IsBuiltin
    <2>2. QED
      BY <2>1 DEF HistoryIsOwn
  <1>2. ASSUME NEW p \in Probers, NEW i \in Ids, work'[p][i] # None, IsBuiltin(i)'
        PROVE  work'[p][i].own
    <2>1. i \notin gone
      BY <1>2 DEF IsBuiltin
    <2>2. work'[p][i] = work[p][i] /\ IsBuiltin(i)
      BY <1>2, <2>1 DEF Cascade, IsBuiltin
    <2>3. QED
      BY <1>2, <2>2 DEF Rest, WorkIsOwn
  <1>3. QED
    BY <1>1, <1>2 DEF WorkIsOwn

LEMMA ServeHolds == ASSUME TypeOK, Rest, Serve PROVE Rest'
  <1> DEFINE gone == {i \in Ids : IsBuiltin(i) /\ Shipped[release][i] = None}
  <1>1. /\ Cascade(gone)
        /\ rows' = [i \in Ids |-> IF i \in gone THEN None ELSE rows[i]]
        /\ up = "sync" /\ up' = "serving" /\ todo = {} /\ release' = release
    BY DEF Serve, RetireBuiltins
  <1>2. gone \in SUBSET Ids /\ \A i \in gone : rows'[i] = None
        /\ \A j \in Ids \ gone : rows'[j] = rows[j]
    BY <1>1
  <1>3. HistoryIsOwn' /\ WorkIsOwn'
    BY <1>1, <1>2, CascadeOwn
  <1>4. CatalogueCurrent'
    BY <1>1, <1>2 DEF CatalogueCurrent, Rest, Seeded, Ships, IsBuiltin
  <1>5. QED
    BY <1>1, <1>3, <1>4 DEF Rest, SchemaReady, KnownRecorded, Seeded, TodoShips, Quiet,
      Serve, Known, schema

LEMMA StopHolds == ASSUME TypeOK, Rest, Stop PROVE Rest'
  BY DEF Rest, SchemaReady, KnownRecorded, Seeded, TodoShips, CatalogueCurrent, Quiet,
         WorkIsOwn, HistoryIsOwn, Stop, Idle, IsBuiltin, table, schema

\* A step that touches neither start, schema, history nor work, that adds no
\* built-in and that leaves the contents of those there are.
LEMMA EditHolds ==
  ASSUME TypeOK, Rest, up = "serving", UNCHANGED <<schema, start, table, probes>>,
         \A i \in Ids : rows[i] # None => rows'[i] # None,
         \A i \in Ids : IsBuiltin(i)' => IsBuiltin(i) /\ rows'[i].content = rows[i].content
  PROVE  Rest'
  <1>1. HistoryIsOwn'
    <2>1. ASSUME NEW r \in runs'
          PROVE  (rows[r.source] # None /\ (IsBuiltin(r.source) => r.own))'
      <3>1. r \in runs /\ r.source \in Ids
        BY <2>1 DEF table, TypeOK, Runs
      <3>2. QED
        BY <3>1 DEF Rest, HistoryIsOwn
    <2>2. QED
      BY <2>1 DEF HistoryIsOwn
  <1>2. WorkIsOwn' /\ CatalogueCurrent'
    BY DEF Rest, WorkIsOwn, CatalogueCurrent, probes, start
  <1>3. QED
    BY <1>1, <1>2 DEF Rest, SchemaReady, KnownRecorded, Seeded, TodoShips, Quiet, schema,
      start, Known

LEMMA EditingHolds == ASSUME TypeOK, Rest, Editing PROVE Rest'
  <1>1. ASSUME NEW i \in Ids, NEW enabled \in BOOLEAN, NEW content \in Contents,
               handleSourceCreate(i, enabled, content)
        PROVE  Rest'
    <2> DEFINE row == [builtin |-> FALSE, enabled |-> enabled, content |-> content]
    <2>1. row \in Rows
      BY CatalogueAssumption DEF Rows
    <2>2. rows'[i] = row /\ \A j \in Ids \ {i} : rows'[j] = rows[j]
      BY <1>1 DEF TypeOK, handleSourceCreate, CreateSource
    <2>3. rows'[i] # None
      BY <2>1, <2>2, RowsAreThere
    <2>4. ~rows'[i].builtin
      BY <2>2
    <2>5. \A j \in Ids : rows[j] # None => rows'[j] # None
      BY <2>2, <2>3
    <2>6. \A j \in Ids : IsBuiltin(j)' => IsBuiltin(j) /\ rows'[j].content = rows[j].content
      BY <2>2, <2>4 DEF IsBuiltin
    <2>7. QED
      BY <1>1, <2>5, <2>6, EditHolds DEF handleSourceCreate
  <1>2. ASSUME NEW e \in Editors, NEW enabled \in BOOLEAN, NEW content \in Contents,
               handleSourceUpdate(e, enabled, content)
        PROVE  Rest'
    <2>1. edit[e] \in Ids /\ up = "serving"
      BY <1>2 DEF TypeOK, handleSourceUpdate, Rest, Quiet
    <2>2. /\ \A j \in Ids \ {edit[e]} : rows'[j] = rows[j]
          /\ ~IsUser(edit[e]) => rows'[edit[e]] = rows[edit[e]]
          /\ IsUser(edit[e]) => rows'[edit[e]] # None /\ ~rows'[edit[e]].builtin
      BY <1>2, <2>1, UpdatedRow DEF handleSourceUpdate
    <2>3. \A j \in Ids : rows[j] # None => rows'[j] # None
      BY <2>2
    <2>4. \A j \in Ids : IsBuiltin(j)' => IsBuiltin(j) /\ rows'[j].content = rows[j].content
      BY <2>2 DEF IsBuiltin, IsUser
    <2>5. QED
      BY <1>2, <2>1, <2>3, <2>4, EditHolds DEF handleSourceUpdate
  <1>3. ASSUME NEW e \in Editors, NEW i \in Ids, OpenUpdate(e, i) PROVE Rest'
    <2>1. \A j \in Ids : IsBuiltin(j)' => IsBuiltin(j) /\ rows'[j].content = rows[j].content
      BY <1>3 DEF OpenUpdate, IsBuiltin
    <2>2. QED
      BY <1>3, <2>1, EditHolds DEF OpenUpdate
  <1>4. ASSUME NEW i \in Ids, handleSourceDelete(i) PROVE Rest'
    <2>1. Cascade({i}) /\ rows'[i] = None /\ \A j \in Ids \ {i} : rows'[j] = rows[j]
      BY <1>4 DEF TypeOK, handleSourceDelete, DeleteSource
    <2>2. HistoryIsOwn' /\ WorkIsOwn'
      BY <2>1, CascadeOwn
    <2>3. \A j \in Ids : IsBuiltin(j)' => IsBuiltin(j) /\ rows'[j] = rows[j]
      BY <2>1 DEF IsBuiltin
    <2>4. QED
      BY <1>4, <2>2, <2>3 DEF handleSourceDelete, Rest, SchemaReady, KnownRecorded, Seeded,
        TodoShips, CatalogueCurrent, Quiet, Known, schema, start
  <1>5. ASSUME NEW i \in Ids, NEW enabled \in BOOLEAN, handleSourceEnabled(i, enabled)
        PROVE  Rest'
    <2>1. rows[i] \in Rows
      BY <1>5 DEF TypeOK, handleSourceEnabled, SetSourceEnabled
    <2>2. rows'[i] = [rows[i] EXCEPT !.enabled = enabled]
          /\ \A j \in Ids \ {i} : rows'[j] = rows[j]
      BY <1>5 DEF TypeOK, handleSourceEnabled, SetSourceEnabled
    <2>3. rows'[i] \in Rows /\ rows'[i].builtin = rows[i].builtin
          /\ rows'[i].content = rows[i].content
      BY <2>1, <2>2 DEF Rows
    <2>4. rows'[i] # None
      BY <2>3, RowsAreThere
    <2>5. \A j \in Ids : rows[j] # None => rows'[j] # None
      BY <2>2, <2>4
    <2>6. \A j \in Ids : IsBuiltin(j)' => IsBuiltin(j) /\ rows'[j].content = rows[j].content
      BY <1>5, <2>2, <2>3 DEF IsBuiltin, handleSourceEnabled, SetSourceEnabled
    <2>7. QED
      BY <1>5, <2>5, <2>6, EditHolds DEF handleSourceEnabled
  <1>6. QED
    BY <1>1, <1>2, <1>3, <1>4, <1>5 DEF Editing

\* A step of a prober: the rest of the panel stays, and so does what is its own.
LEMMA ProbeHolds ==
  ASSUME TypeOK, Rest, UNCHANGED <<schema, start, rows, edit>>,
         HistoryIsOwn', WorkIsOwn',
         up # "serving" => \A p \in Probers : \A i \in Ids : work'[p][i] = None
  PROVE  Rest'
  BY DEF Rest, SchemaReady, KnownRecorded, Seeded, TodoShips, CatalogueCurrent, Quiet,
         IsBuiltin, Ships, Known, schema, start

LEMMA TakeHolds ==
  ASSUME TypeOK, Rest, NEW p \in Probers, NEW S, Take(p, S) PROVE Rest'
  <1>1. HistoryIsOwn'
    BY DEF Rest, HistoryIsOwn, Take, table, IsBuiltin
  <1>2. WorkIsOwn'
    <2>1. ASSUME NEW q \in Probers, NEW i \in Ids, work'[q][i] # None, IsBuiltin(i)'
          PROVE  work'[q][i].own
      BY <2>1 DEF Rest, WorkIsOwn, Take, TypeOK, IsBuiltin
    <2>2. QED
      BY <2>1 DEF WorkIsOwn
  <1>3. QED
    BY <1>1, <1>2, ProbeHolds DEF Take

LEMMA ProbingHolds ==
  ASSUME TypeOK, Rest, NEW p \in Probers,
         \/ ListBatch(p)
         \/ Finish(p)
         \/ \E i \in Ids : TakeOne(p, i) \/ Begin(p, i) \/ Record(p, i) \/ Lose(p, i)
  PROVE  Rest'
  <1>1. CASE Finish(p)
    <2>1. runs' \subseteq runs
      BY <1>1 DEF Finish, PruneProbes, table
    <2>2. HistoryIsOwn'
      BY <1>1, <2>1 DEF Rest, HistoryIsOwn, Finish, IsBuiltin
    <2>3. WorkIsOwn'
      BY <1>1 DEF Rest, WorkIsOwn, Finish, IsBuiltin
    <2>4. QED
      BY <1>1, <2>2, <2>3, ProbeHolds DEF Finish, Rest, Quiet
  <1>2. ASSUME NEW i \in Ids, Begin(p, i) PROVE Rest'
    <2>1. \A q \in Probers : \A j \in Ids :
            /\ work'[q][j] # None => work[q][j] # None
            /\ work[q][j] # None => work'[q][j].own = work[q][j].own
      <3>1. work[p][i] \in Measurements
        BY <1>2 DEF Begin, TypeOK
      <3>2. [work[p][i] EXCEPT !.at = clock].own = work[p][i].own
        BY <3>1 DEF Measurements
      <3>3. QED
        BY <1>2, <3>2 DEF Begin, TypeOK
    <2>2. WorkIsOwn'
      BY <1>2, <2>1 DEF Rest, WorkIsOwn, Begin, IsBuiltin
    <2>3. HistoryIsOwn'
      BY <1>2 DEF Rest, HistoryIsOwn, Begin, IsBuiltin, table
    <2>4. up # "serving" => \A q \in Probers : \A j \in Ids : work'[q][j] = None
      BY <2>1 DEF Rest, Quiet
    <2>5. QED
      BY <1>2, <2>2, <2>3, <2>4, ProbeHolds DEF Begin
  <1>3. ASSUME NEW i \in Ids, Record(p, i) \/ Lose(p, i) PROVE Rest'
    <2>1. work' = [work EXCEPT ![p][i] = None]
      BY <1>3 DEF Record, Lose
    <2>2. \A q \in Probers : \A j \in Ids :
            work'[q][j] # None => work'[q][j] = work[q][j]
      BY <2>1 DEF TypeOK
    <2>3. UNCHANGED <<schema, start, rows, edit>>
      BY <1>3 DEF Record, Lose
    <2>4. WorkIsOwn'
      BY <2>2, <2>3 DEF Rest, WorkIsOwn, IsBuiltin
    <2>5. up # "serving" => \A q \in Probers : \A j \in Ids : work'[q][j] = None
      BY <2>2 DEF Rest, Quiet
    <2>6. HistoryIsOwn'
      <3>1. CASE Lose(p, i)
        BY <3>1 DEF Rest, HistoryIsOwn, Lose, IsBuiltin, table
      <3>2. CASE Record(p, i)
        <4> DEFINE run == [n |-> last + 1, source |-> i, at |-> work[p][i].at,
                           own |-> work[p][i].own]
        <4>1. runs' = runs \cup {run} /\ rows[i] # None /\ work[p][i] # None
          BY <3>2 DEF Record, InsertProbe, Measured
        <4>2. run.source = i /\ run.own = work[p][i].own
          OBVIOUS
        <4>3. IsBuiltin(i) => run.own
          BY <4>1, <4>2 DEF Rest, WorkIsOwn
        <4>4. QED
          BY <2>3, <4>1, <4>2, <4>3 DEF Rest, HistoryIsOwn, IsBuiltin
      <3>3. QED
        BY <1>3, <3>1, <3>2
    <2>7. QED
      BY <2>3, <2>4, <2>5, <2>6, ProbeHolds
  <1>4. QED
    BY <1>1, <1>2, <1>3, TakeHolds DEF ListBatch, TakeOne

LEMMA TickHolds == ASSUME TypeOK, Rest, Tick \/ UNCHANGED vars PROVE Rest'
  BY DEF Rest, SchemaReady, KnownRecorded, Seeded, TodoShips, CatalogueCurrent, Quiet,
         WorkIsOwn, HistoryIsOwn, Tick, IsBuiltin, Ships, Known, schema, start, table,
         probes, vars

LEMMA StepHolds == ASSUME TypeOK, Rest, [Next]_vars PROVE Rest'
  <1>1. CASE Starting
    BY <1>1, StartHolds, MigrateHolds, OpenedHolds, SeedHolds, ServeHolds DEF Starting
  <1>2. CASE Probing
    BY <1>2, ProbingHolds DEF Probing
  <1>3. QED
    BY <1>1, <1>2, StopHolds, EditingHolds, TickHolds DEF Next

LEMMA InvariantHolds == Spec => [](TypeOK /\ Rest)
  <1>1. Init => TypeOK /\ Rest
    BY InitTyped, InitHolds
  <1>2. TypeOK /\ Rest /\ [Next]_vars => (TypeOK /\ Rest)'
    <2>1. Rest => TodoShips
      BY DEF Rest
    <2>2. QED
      BY <2>1, StepTyped, StepHolds
  <1>3. QED
    BY <1>1, <1>2, PTL DEF Spec

-----------------------------------------------------------------------------
(* The theorems.                                                           *)

\* Every variable keeps its type, whatever stops and starts.
THEOREM TypeCorrect == Spec => []TypeOK
  BY InvariantHolds, PTL

\* A serving panel has the schema its release relies on, and the record of the
\* migrations is exact (store.Open).
THEOREM SchemaIsReady == Spec => []SchemaReady
  <1>1. Rest => SchemaReady
    BY DEF Rest
  <1>2. QED
    BY <1>1, InvariantHolds, PTL

\* The built-ins of a serving panel are its release's (catalog.Sync).
THEOREM CatalogueStaysCurrent == Spec => []CatalogueCurrent
  <1>1. Rest => CatalogueCurrent
    BY DEF Rest
  <1>2. QED
    BY <1>1, InvariantHolds, PTL

\* No measurement outlives its mirror, and what was retired stays forgotten
\* (RetireBuiltins, the cascade of probe_runs, and probes in flight).
THEOREM HistoryStaysOwn == Spec => []HistoryIsOwn
  <1>1. Rest => HistoryIsOwn
    BY DEF Rest
  <1>2. QED
    BY <1>1, InvariantHolds, PTL

-----------------------------------------------------------------------------
(* What a step may never do.                                               *)

\* Rows change at a start, through a form, and nowhere else.
LEMMA RowsUntouched ==
  ASSUME [Next]_vars,
         ~(\E i \in Ids : Seed(i)), ~Serve, ~Editing
  PROVE  rows' = rows
  BY DEF Next, Starting, Probing, Start, Migrate, Opened, Stop, Tick, ListBatch, TakeOne,
         Take, Begin, Record, Lose, Finish, vars

LEMMA EditingWhileServing == ASSUME Rest, Editing PROVE up = "serving"
  BY DEF Rest, Quiet, Editing, handleSourceCreate, handleSourceUpdate, OpenUpdate,
         handleSourceDelete, handleSourceEnabled

ChoiceKept ==
  up # "serving" =>
    \A i \in Ids :
      /\ IsUser(i) => rows'[i] = rows[i]
      /\ IsBuiltin(i) /\ rows'[i] # None => rows'[i].enabled = rows[i].enabled

LEMMA StepKeepsChoices == ASSUME TypeOK, Rest, [Next]_vars PROVE ChoiceKept
  <1>1. ASSUME NEW i \in Ids, Seed(i) PROVE ChoiceKept
    <2>1. Ships(i) /\ SyncBuiltin(i)
      BY <1>1 DEF Rest, TodoShips, Seed
    <2>2. /\ \A j \in Ids \ {i} : rows'[j] = rows[j]
          /\ IsUser(i) => rows'[i] = rows[i]
          /\ IsBuiltin(i) => rows'[i].enabled = rows[i].enabled
      BY <2>1, SyncBuiltinRow
    <2>3. QED
      BY <2>2 DEF ChoiceKept
  <1>2. CASE Serve
    BY <1>2 DEF ChoiceKept, Serve, RetireBuiltins, IsUser, IsBuiltin
  <1>3. CASE Editing
    BY <1>3, EditingWhileServing DEF ChoiceKept
  <1>4. QED
    BY <1>1, <1>2, <1>3, RowsUntouched DEF ChoiceKept

Switched(i) == {[rows[i] EXCEPT !.enabled = e] : e \in BOOLEAN}

Stay ==
  up' = "serving" =>
    \A i \in Ids :
      /\ up # "serving" /\ Shipped[release][i] # None => rows'[i] # None
      /\ up = "serving" /\ IsBuiltin(i) => rows'[i] \in Switched(i)

LEMMA SameIsSwitched ==
  ASSUME TypeOK, NEW i \in Ids, IsBuiltin(i) PROVE rows[i] \in Switched(i)
  <1>1. rows[i] \in Rows
    BY DEF TypeOK, IsBuiltin
  <1>2. rows[i] = [rows[i] EXCEPT !.enabled = rows[i].enabled] /\ rows[i].enabled \in BOOLEAN
    BY <1>1 DEF Rows
  <1>3. QED
    BY <1>2 DEF Switched

LEMMA StepStays == ASSUME TypeOK, Rest, [Next]_vars PROVE Stay
  <1>1. CASE Serve
    BY <1>1 DEF Stay, Serve, RetireBuiltins, Rest, Seeded, Ships
  <1>2. CASE Editing
    <2>1. up = "serving"
      BY <1>2, EditingWhileServing
    <2>2. ASSUME NEW j \in Ids, IsBuiltin(j) PROVE rows'[j] \in Switched(j)
      <3>1. rows[j] \in Switched(j)
        BY <2>2, SameIsSwitched
      <3>2. ASSUME NEW i \in Ids, NEW enabled \in BOOLEAN, handleSourceEnabled(i, enabled)
            PROVE  rows'[j] \in Switched(j)
        <4>1. rows' = [rows EXCEPT ![i] = [rows[i] EXCEPT !.enabled = enabled]]
          BY <3>2 DEF handleSourceEnabled, SetSourceEnabled
        <4>2. CASE i = j
          BY <4>1, <4>2 DEF TypeOK, Switched
        <4>3. CASE i # j
          BY <3>1, <4>1, <4>3 DEF TypeOK
        <4>4. QED
          BY <4>2, <4>3
      <3>3. ASSUME NEW e \in Editors, NEW enabled \in BOOLEAN, NEW content \in Contents,
                   handleSourceUpdate(e, enabled, content)
            PROVE  rows'[j] = rows[j]
        <4>1. edit[e] \in Ids
          BY <3>3 DEF TypeOK, handleSourceUpdate
        <4>2. QED
          BY <2>2, <3>3, <4>1, UpdatedRow DEF handleSourceUpdate, IsUser, IsBuiltin
      <3>4. ASSUME NEW i \in Ids, handleSourceDelete(i) PROVE rows'[j] = rows[j]
        BY <2>2, <3>4 DEF TypeOK, handleSourceDelete, DeleteSource, IsUser, IsBuiltin
      <3>5. ASSUME NEW i \in Ids, NEW enabled \in BOOLEAN, NEW content \in Contents,
                   handleSourceCreate(i, enabled, content)
            PROVE  rows'[j] = rows[j]
        BY <2>2, <3>5 DEF TypeOK, handleSourceCreate, CreateSource, IsBuiltin
      <3>6. ASSUME NEW e \in Editors, NEW i \in Ids, OpenUpdate(e, i)
            PROVE  rows'[j] = rows[j]
        BY <3>6 DEF OpenUpdate
      <3>7. QED
        BY <1>2, <3>1, <3>2, <3>3, <3>4, <3>5, <3>6 DEF Editing
    <2>3. QED
      BY <2>1, <2>2 DEF Stay
  <1>3. ASSUME ~Serve, ~Editing PROVE Stay
    <2>1. up' = "serving" => up = "serving"
      BY <1>3 DEF Next, Starting, Probing, Start, Migrate, Opened, Seed, Stop, Tick,
        ListBatch, TakeOne, Take, Begin, Record, Lose, Finish, vars, start
    <2>2. up = "serving" => ~(\E i \in Ids : Seed(i))
      BY DEF Seed
    <2>3. up' = "serving" => rows' = rows
      BY <1>3, <2>1, <2>2, RowsUntouched
    <2>4. QED
      BY <2>1, <2>3, SameIsSwitched DEF Stay
  <1>4. QED
    BY <1>1, <1>2, <1>3

\* No start changes a row of the user's, or switches a mirror on again
\* (SyncBuiltinSources, RetireBuiltins, in any release and interrupted anywhere).
THEOREM ChoicesSurviveStarts == Spec => StartsKeepChoices
  <1>1. TypeOK /\ Rest /\ [Next]_vars =>
          [up # "serving" =>
             \A i \in Ids :
               /\ IsUser(i) => rows'[i] = rows[i]
               /\ IsBuiltin(i) /\ rows'[i] # None => rows'[i].enabled = rows[i].enabled]_vars
    BY StepKeepsChoices DEF ChoiceKept
  <1>2. QED
    BY <1>1, InvariantHolds, PTL DEF StartsKeepChoices, Spec

\* A start ends with every mirror of its release in the table, and while the
\* panel serves nothing but the switch of a built-in changes (Serve, the forms).
THEOREM BuiltinsStayInPlace == Spec => BuiltinsStay
  <1>1. TypeOK /\ Rest /\ [Next]_vars =>
          [up' = "serving" =>
             \A i \in Ids :
               /\ up # "serving" /\ Shipped[release][i] # None => rows'[i] # None
               /\ up = "serving" /\ IsBuiltin(i) =>
                    rows'[i] \in {[rows[i] EXCEPT !.enabled = e] : e \in BOOLEAN}]_vars
    BY StepStays DEF Stay, Switched
  <1>2. QED
    BY <1>1, InvariantHolds, PTL DEF BuiltinsStay, Spec

-----------------------------------------------------------------------------
(* What a prune leaves.                                                    *)

\* The rows of probe_runs are told apart by their numbers, none of which is used
\* twice.
HistoryNumbered ==
  /\ IsFiniteSet(runs)
  /\ \A r \in runs : r.n <= last
  /\ \A q, r \in runs : q.n = r.n => q = r

LEMMA InitNumbered == Init => HistoryNumbered
  BY FS_EmptySet DEF Init, HistoryNumbered

LEMMA FewerNumbered ==
  ASSUME HistoryNumbered, runs' \subseteq runs, last' = last
  PROVE  HistoryNumbered'
  <1>1. IsFiniteSet(runs')
    BY FS_Subset DEF HistoryNumbered
  <1>2. QED
    BY <1>1 DEF HistoryNumbered

LEMMA StepNumbered ==
  ASSUME TypeOK, HistoryNumbered, [Next]_vars PROVE HistoryNumbered'
  <1>1. ASSUME NEW i \in Ids, NEW m \in Measurements, InsertProbe(i, m)
        PROVE  HistoryNumbered'
    <2> DEFINE row == [n |-> last + 1, source |-> i, at |-> m.at, own |-> m.own]
    <2>1. runs' = runs \cup {row} /\ last' = last + 1 /\ last \in Nat
      BY <1>1, CatalogueAssumption DEF InsertProbe, TypeOK
    <2>2. IsFiniteSet(runs')
      BY <2>1, FS_AddElement DEF HistoryNumbered
    <2>3. \A r \in runs : r.n \in Nat /\ r.n <= last
      BY CatalogueAssumption DEF HistoryNumbered, TypeOK, Runs
    <2>4. QED
      BY <2>1, <2>2, <2>3 DEF HistoryNumbered
  <1>2. CASE Serve
    BY <1>2, FewerNumbered DEF Serve, RetireBuiltins, Cascade
  <1>3. CASE Editing
    BY <1>3, FewerNumbered
    DEF Editing, handleSourceCreate, handleSourceUpdate, OpenUpdate, handleSourceDelete,
      handleSourceEnabled, DeleteSource, Cascade, table
  <1>4. ASSUME NEW p \in Probers, NEW i \in Ids, Record(p, i)
        PROVE  HistoryNumbered'
    <2>1. work[p][i] \in Measurements
      BY <1>4 DEF Record, Measured, TypeOK
    <2>2. QED
      BY <1>1, <1>4, <2>1 DEF Record
  <1>5. ASSUME NEW p \in Probers, Finish(p) PROVE HistoryNumbered'
    BY <1>5, FewerNumbered DEF Finish, PruneProbes, table
  <1>6. CASE UNCHANGED table
    BY <1>6, FewerNumbered DEF table
  <1>7. QED
    BY <1>2, <1>3, <1>4, <1>5, <1>6
    DEF Next, Starting, Probing, Start, Migrate, Opened, Seed, Stop, Tick,
      ListBatch, TakeOne, Take, Begin, Lose, vars

\* A later text is of no earlier a second, and no two times share one.
LEMMA TextOrder ==
  ASSUME NEW t \in Nat, NEW u \in Nat
  PROVE  /\ Text(t) \in Int /\ Second(t) \in Int
         /\ Text(t) = Text(u) => t = u
         /\ Text(t) >= Text(u) => Second(t) >= Second(u)
  <1>1. ASSUME NEW v \in Nat
        PROVE  v \div 2 \in Int /\ v % 2 \in {0, 1} /\ v = 2 * (v \div 2) + (v % 2)
    OBVIOUS
  <1>2. QED
    BY <1>1 DEF Text, Second

\* The measurements of one mirror, the newest first.
History(s) == {q \in runs : q.source = s}

NewestFirst(s) == {p \in History(s) \X History(s) : Newer(p[1], p[2])}

LEMMA NewestFirstOrders ==
  ASSUME TypeOK, HistoryNumbered, NEW s PROVE Orders(NewestFirst(s), History(s))
  <1>1. \A q \in History(s) : q \in runs /\ q.at \in Nat /\ q.n \in Nat
    BY CatalogueAssumption DEF History, TypeOK, Runs, Times
  <1>2. \A q, r \in History(s) : q.n = r.n => q = r
    BY <1>1 DEF HistoryNumbered
  <1>3. \A t, u \in Nat : Text(t) \in Int /\ (Text(t) = Text(u) => t = u)
    BY TextOrder
  <1>4. \A q \in History(s) : ~Newer(q, q)
    BY <1>1, <1>3 DEF Newer
  <1>5. \A q, r \in History(s) : q # r => Newer(q, r) \/ Newer(r, q)
    BY <1>1, <1>2, <1>3 DEF Newer
  <1>6. \A p, q, r \in History(s) : Newer(p, q) /\ Newer(q, r) => Newer(p, r)
    BY <1>1, <1>3 DEF Newer
  <1>7. QED
    BY <1>4, <1>5, <1>6 DEF Orders, NewestFirst

\* Of a mirror that loses a row to a prune, the Keep newest stay.
LEMMA PruneLeaves ==
  ASSUME TypeOK, HistoryNumbered, PruneProbes, NEW r \in runs \ runs'
  PROVE  Keep <= Cardinality({q \in runs' : /\ q.source = r.source
                                            /\ Second(q.at) >= Second(r.at)})
  <1> DEFINE S == History(r.source)
             R == NewestFirst(r.source)
             first == {q \in S : Place(S, R, q) < Keep}
             left == {q \in runs' : q.source = r.source /\ Second(q.at) >= Second(r.at)}
  <1>1. r \in S /\ S \in SUBSET runs /\ IsFiniteSet(S) /\ Orders(R, S)
    BY NewestFirstOrders, FS_Subset DEF HistoryNumbered, History
  <1>2. ASSUME NEW q \in S
        PROVE  /\ q \in runs' <=> Place(S, R, q) < Keep
               /\ Place(S, R, q) \in 0 .. Cardinality(S) - 1
    <2>1. {p \in S : <<p, q>> \in R} = {p \in runs : p.source = q.source /\ Newer(p, q)}
      BY DEF History, NewestFirst
    <2>2. QED
      BY <1>1, <2>1, PlaceType DEF PruneProbes, Place
  <1>3. Cardinality(S) \in Nat /\ Keep \in Nat
    BY <1>1, FS_CardinalityType, CatalogueAssumption
  <1>4. ~(Place(S, R, r) < Keep) /\ Place(S, R, r) \in 0 .. Cardinality(S) - 1
    BY <1>1, <1>2
  <1>5. Keep \in 0 .. Cardinality(S)
    BY <1>3, <1>4
  <1>6. Cardinality(first) = Keep
    BY <1>1, <1>5, FirstPlaces
  <1>7. ASSUME NEW q \in first PROVE q \in left
    <2>1. q \in S /\ q \in runs' /\ Place(S, R, q) < Place(S, R, r)
      BY <1>2, <1>3, <1>4
    <2>2. Newer(q, r)
      BY <1>1, <2>1, PlaceTellsApart DEF NewestFirst
    <2>3. q.at \in Nat /\ r.at \in Nat
      BY <1>1, <2>1, CatalogueAssumption DEF TypeOK, Runs, Times
    <2>4. Second(q.at) >= Second(r.at)
      BY <2>2, <2>3, TextOrder DEF Newer
    <2>5. QED
      BY <2>1, <2>4 DEF History
  <1>8. IsFiniteSet(left)
    BY FS_Subset, runs' \subseteq runs, left \in SUBSET runs DEF HistoryNumbered, PruneProbes
  <1>9. Cardinality(first) <= Cardinality(left)
    BY <1>7, <1>8, FS_Subset
  <1>10. QED
    BY <1>6, <1>9

Prunes ==
  \A r \in runs \ runs' :
    rows[r.source] # None /\ rows'[r.source] # None =>
      Keep <= Cardinality({q \in runs' : /\ q.source = r.source
                                         /\ Second(q.at) >= Second(r.at)})

\* Only a prune takes a row from a mirror that stays.
LEMMA StepPrunes == ASSUME TypeOK, HistoryNumbered, [Next]_vars PROVE Prunes
  <1>1. \A r \in runs : r.source \in Ids
    BY DEF TypeOK, Runs
  <1>2. CASE Serve
    BY <1>1, <1>2 DEF Prunes, Serve, RetireBuiltins, Cascade
  <1>3. ASSUME NEW i \in Ids, handleSourceDelete(i) PROVE Prunes
    BY <1>1, <1>3 DEF Prunes, handleSourceDelete, DeleteSource, Cascade, TypeOK
  <1>4. CASE runs \subseteq runs'
    BY <1>4 DEF Prunes
  <1>5. ASSUME NEW p \in Probers, Finish(p) PROVE Prunes
    BY <1>4, <1>5, PruneLeaves DEF Prunes, Finish, table
  <1>6. QED
    BY <1>2, <1>3, <1>4, <1>5
    DEF Next, Starting, Probing, Editing, Start, Migrate, Opened, Seed, Stop, Tick,
      handleSourceCreate, handleSourceUpdate, OpenUpdate, handleSourceEnabled,
      ListBatch, TakeOne, Take, Begin, Record, InsertProbe, Lose, vars, table

\* However many rows overlapping runs insert and prune, a row leaves the history
\* of a mirror that stays only when Keep of its second or a later one are left
\* (PruneProbes, whose order is that of the texts and not of the times).
THEOREM NewestStay == Spec => NewestSurvive
  <1>1. TypeOK /\ HistoryNumbered /\ [Next]_vars => HistoryNumbered'
    BY StepNumbered
  <1>2. TypeOK /\ HistoryNumbered /\ [Next]_vars =>
          [\A r \in runs \ runs' :
             rows[r.source] # None /\ rows'[r.source] # None =>
               Keep <= Cardinality({q \in runs' : /\ q.source = r.source
                                                  /\ Second(q.at) >= Second(r.at)})]_vars
    BY StepPrunes DEF Prunes
  <1>3. QED
    BY <1>1, <1>2, TypeCorrect, InitNumbered, PTL DEF NewestSurvive, Spec
=============================================================================
