----------------------------- MODULE Catalogue -----------------------------
(***************************************************************************)
(* The mirrors and their history: the tables sources and probe_runs        *)
(* (internal/store/source.go, probe.go, schema.go), the start of the       *)
(* process that migrates and seeds them (store.Open, catalog.Sync), the    *)
(* forms that edit a mirror (internal/web/mirrors.go) and the probes that  *)
(* read a mirror first and write its measurement later (internal/probe/    *)
(* runner.go).                                                             *)
(*                                                                         *)
(* One process at a time owns the database; it may stop between any two    *)
(* statements, and a later or an earlier release may be started next.      *)
(* Every statement is atomic, the pool being one connection.               *)
(*                                                                         *)
(* Content stands for everything a row says about a mirror but its flags.  *)
(* Time is in half seconds, the least that shows how times are ordered.    *)
(***************************************************************************)
EXTENDS Integers, FiniteSets

CONSTANTS
  Ids,        \* mirror IDs
  Contents,   \* name, URL, scope, trust, note, ... of a mirror
  Hub,        \* the contents whose scope holds Docker Hub
  Valid,      \* the contents that pass Source.Validate
  Releases,   \* versions of the program
  Shipped,    \* Shipped[r][i]: the built-in of that ID in that release, or None
  Steps,      \* Steps[r]: the migrations that release knows, 1 .. Steps[r]
  Probers,    \* batches, single probes and the sweep
  Editors,    \* update requests in flight
  Keep,       \* RunnerOptions.KeepPerSource
  MaxTime,    \* bound on the clock
  MaxRuns,    \* bound on the rows ever inserted into probe_runs
  None

Builtins == [content : Contents, enabled : BOOLEAN]
Rows     == [builtin : BOOLEAN, enabled : BOOLEAN, content : Contents]
Times    == 0 .. MaxTime
Runs     == [n : 1 .. MaxRuns, source : Ids, at : Times, own : BOOLEAN]

\* A mirror read for a probe: the time is set when its probe begins.  own (a
\* history variable) says that the row it was read from is still there.
Measurements == [own : BOOLEAN, at : Times \cup {None}]

ASSUME CatalogueAssumption ==
  /\ Hub \subseteq Contents
  /\ Valid \subseteq Contents
  /\ Shipped \in [Releases -> [Ids -> Builtins \cup {None}]]
  /\ \A r \in Releases : \E i \in Ids : Shipped[r][i] # None
  /\ Steps \in [Releases -> Nat]
  /\ Keep \in Nat \ {0}
  /\ MaxTime \in Nat /\ MaxRuns \in Nat
  /\ None \notin Ids \cup Times \cup Builtins \cup Rows \cup Measurements

VARIABLES
  effects,    \* migrations whose statements took effect
  recorded,   \* rows of schema_migrations
  up,         \* how far the process has come
  release,    \* the release it is of
  known,      \* the migrations it has read as applied
  todo,       \* built-ins it has still to write
  rows,       \* table sources
  runs,       \* table probe_runs
  last,       \* its AUTOINCREMENT
  clock,
  running,    \* probers at work
  solo,       \* those of them that are RunOne
  work,       \* what each prober measures: listed, begun, or nothing
  edit        \* the mirror of an update past its GetSource, or None

schema == <<effects, recorded>>
start  == <<up, release, known, todo>>
table  == <<runs, last>>
probes == <<running, solo, work>>
vars   == <<schema, start, rows, table, clock, probes, edit>>

Idle == [i \in Ids |-> None]

TypeOK ==
  /\ effects \in SUBSET Nat /\ recorded \in SUBSET Nat /\ known \in SUBSET Nat
  /\ up \in {"down", "migrate", "sync", "serving"}
  /\ release \in Releases
  /\ todo \in SUBSET Ids
  /\ rows \in [Ids -> Rows \cup {None}]
  /\ runs \in SUBSET Runs
  /\ last \in 0 .. MaxRuns
  /\ clock \in Times
  /\ running \in SUBSET Probers /\ solo \in SUBSET running
  /\ work \in [Probers -> [Ids -> Measurements \cup {None}]]
  /\ edit \in [Editors -> Ids \cup {None}]

Init ==
  /\ effects = {} /\ recorded = {} /\ known = {}
  /\ up = "down"
  /\ release \in Releases
  /\ todo = {}
  /\ rows = Idle
  /\ runs = {} /\ last = 0
  /\ clock = 0
  /\ running = {} /\ solo = {}
  /\ work = [p \in Probers |-> Idle]
  /\ edit = [e \in Editors |-> None]

-----------------------------------------------------------------------------
(* The statements on sources.                                              *)

IsBuiltin(i) == rows[i] # None /\ rows[i].builtin
IsUser(i)    == rows[i] # None /\ ~rows[i].builtin

\* A deleted mirror takes its history with it (ON DELETE CASCADE); what is being
\* measured of it stays in the hands of the prober.
Cascade(gone) ==
  /\ runs' = {r \in runs : r.source \notin gone}
  /\ work' = [p \in Probers |-> [i \in Ids |->
                IF work[p][i] # None /\ i \in gone
                THEN [work[p][i] EXCEPT !.own = FALSE] ELSE work[p][i]]]
  /\ UNCHANGED <<last, running, solo>>

\* Mutant: the upsert without its WHERE.
UpsertAny(i) ==
  LET b == Shipped[release][i]
  IN  rows' = [rows EXCEPT ![i] =
        [builtin |-> TRUE, content |-> b.content,
         enabled |-> IF rows[i] = None THEN b.enabled ELSE rows[i].enabled]]

\* SyncBuiltinSources, one row: insert it, or refresh a built-in and keep its
\* flag; a row of the user's keeps the slot.
SyncBuiltin(i) ==
  LET b == Shipped[release][i]
  IN  rows' = IF rows[i] = None
              THEN [rows EXCEPT ![i] =
                     [builtin |-> TRUE, enabled |-> b.enabled, content |-> b.content]]
              ELSE IF rows[i].builtin THEN [rows EXCEPT ![i].content = b.content]
              ELSE rows

\* RetireBuiltins: one DELETE of the built-ins the release does not carry.
RetireBuiltins ==
  LET gone == {i \in Ids : IsBuiltin(i) /\ Shipped[release][i] = None}
  IN  /\ rows' = [i \in Ids |-> IF i \in gone THEN None ELSE rows[i]]
      /\ Cascade(gone)

\* CreateSource: a plain INSERT, refused by the primary key.
CreateSource(i, enabled, content) ==
  /\ rows[i] = None
  /\ rows' = [rows EXCEPT ![i] =
       [builtin |-> FALSE, enabled |-> enabled, content |-> content]]

\* UpdateSource: WHERE id = ? AND builtin = 0; a missing row is explained, and
\* nothing else.
UpdateSource(i, enabled, content) ==
  rows' = IF IsUser(i)
          THEN [rows EXCEPT ![i] =
                 [builtin |-> FALSE, enabled |-> enabled, content |-> content]]
          ELSE rows

\* DeleteSource: WHERE id = ? AND builtin = 0.
DeleteSource(i) ==
  /\ IsUser(i)
  /\ rows' = [rows EXCEPT ![i] = None]
  /\ Cascade({i})

\* SetSourceEnabled: the one thing a built-in lets change.
SetSourceEnabled(i, enabled) ==
  /\ rows[i] # None
  /\ rows' = [rows EXCEPT ![i].enabled = enabled]

\* EnabledForDockerHub: what a batch covers.
EnabledForDockerHub ==
  {i \in Ids : rows[i] # None /\ rows[i].enabled /\ rows[i].content \in Hub}

-----------------------------------------------------------------------------
(* The statements on probe_runs.                                           *)

Second(t) == t \div 2

\* formatTime drops trailing zeros, so as text a whole second sorts after its
\* fractions: "05.5Z" before "05Z".
Text(t) == 2 * Second(t) + 1 - (t % 2)

\* ORDER BY started_at DESC, id DESC.
Newer(q, r) ==
  \/ Text(q.at) > Text(r.at)
  \/ q.at = r.at /\ q.n > r.n

\* Mutant: the foreign key is not enforced.
InsertAnyway(i, m) ==
  /\ last < MaxRuns
  /\ last' = last + 1
  /\ runs' = runs \cup {[n |-> last + 1, source |-> i, at |-> m.at, own |-> m.own]}

\* InsertProbe: refused by the foreign key when the mirror is gone.
InsertProbe(i, m) ==
  /\ rows[i] # None
  /\ last < MaxRuns
  /\ last' = last + 1
  /\ runs' = runs \cup {[n |-> last + 1, source |-> i, at |-> m.at, own |-> m.own]}

\* Mutant: the rows that came last are kept, whenever they were started.
PruneByArrival ==
  /\ runs' = {r \in runs :
       Cardinality({q \in runs : q.source = r.source /\ q.n > r.n}) < Keep}
  /\ UNCHANGED last

\* PruneProbes: of each mirror, the newest Keep rows stay.
PruneProbes ==
  /\ runs' = {r \in runs :
       Cardinality({q \in runs : q.source = r.source /\ Newer(q, r)}) < Keep}
  /\ UNCHANGED last

-----------------------------------------------------------------------------
(* A start: store.Open, then catalog.Sync, then the panel serves.          *)

Known(r) == 1 .. Steps[r]

\* migrate: schema_migrations is read once.
Start(r) ==
  /\ up = "down"
  /\ up' = "migrate"
  /\ release' = r
  /\ known' = recorded
  /\ UNCHANGED <<schema, todo, rows, table, clock, probes, edit>>

\* Mutant: the record is a statement of its own, and a stop may come before it.
CommitApart(m) ==
  /\ m \notin effects
  /\ effects' = effects \cup {m}
  /\ \E done \in {{}, {m}} : recorded' = recorded \cup done

\* applyMigration: statements and record in one transaction, which fails where
\* the statements meet what they would create.
Commit(m) ==
  /\ m \notin effects
  /\ effects' = effects \cup {m}
  /\ recorded' = recorded \cup {m}

Migrate(m) ==
  /\ up = "migrate"
  /\ m \in Known(release) \ known
  /\ \A k \in Known(release) \ known : m <= k
  /\ Commit(m)
  /\ known' = known \cup {m}
  /\ UNCHANGED <<up, release, todo, rows, table, clock, probes, edit>>

Opened ==
  /\ up = "migrate"
  /\ Known(release) \subseteq known
  /\ up' = "sync"
  /\ todo' = {i \in Ids : Shipped[release][i] # None}
  /\ UNCHANGED <<schema, release, known, rows, table, clock, probes, edit>>

Seed(i) ==
  /\ up = "sync"
  /\ i \in todo
  /\ SyncBuiltin(i)
  /\ todo' = todo \ {i}
  /\ UNCHANGED <<schema, up, release, known, table, clock, probes, edit>>

\* Mutant: a start that ends with the catalogue written.
ServeAtOnce ==
  /\ up = "sync"
  /\ todo = {}
  /\ up' = "serving"
  /\ UNCHANGED <<schema, release, known, todo, rows, table, clock, probes, edit>>

\* The retired go last, then the panel listens.
Serve ==
  /\ up = "sync"
  /\ todo = {}
  /\ RetireBuiltins
  /\ up' = "serving"
  /\ UNCHANGED <<schema, release, known, todo, clock, edit>>

\* A crash, a shutdown, or an error of a start, each of which is fatal: requests
\* and probes in flight are gone.
Stop ==
  /\ up # "down"
  /\ up' = "down"
  /\ known' = {} /\ todo' = {}
  /\ running' = {} /\ solo' = {}
  /\ work' = [p \in Probers |-> Idle]
  /\ edit' = [e \in Editors |-> None]
  /\ UNCHANGED <<schema, release, rows, table, clock>>

-----------------------------------------------------------------------------
(* The forms.                                                              *)

\* toSource: a form that Validate refuses is shown again, and that is all.
Accepted(content) == content \in Valid

handleSourceCreate(i, enabled, content) ==
  /\ up = "serving"
  /\ Accepted(content)
  /\ CreateSource(i, enabled, content)
  /\ UNCHANGED <<schema, start, table, clock, probes, edit>>

\* handleSourceUpdate reads the row and refuses a built-in.
OpenUpdate(e, i) ==
  /\ up = "serving"
  /\ edit[e] = None
  /\ IsUser(i)
  /\ edit' = [edit EXCEPT ![e] = i]
  /\ UNCHANGED <<schema, start, rows, table, clock, probes>>

\* Its UPDATE comes later; a row gone by then is an error on the page.
handleSourceUpdate(e, enabled, content) ==
  /\ edit[e] # None
  /\ IF Accepted(content) THEN UpdateSource(edit[e], enabled, content)
     ELSE UNCHANGED rows
  /\ edit' = [edit EXCEPT ![e] = None]
  /\ UNCHANGED <<schema, start, table, clock, probes>>

handleSourceDelete(i) ==
  /\ up = "serving"
  /\ DeleteSource(i)
  /\ UNCHANGED <<schema, start, clock, edit>>

handleSourceEnabled(i, enabled) ==
  /\ up = "serving"
  /\ SetSourceEnabled(i, enabled)
  /\ UNCHANGED <<schema, start, table, clock, probes, edit>>

-----------------------------------------------------------------------------
(* The probes.                                                             *)

Take(p, S) ==
  /\ up = "serving"
  /\ p \notin running
  /\ running' = running \cup {p}
  /\ work' = [work EXCEPT ![p] = [i \in Ids |->
       IF i \in S THEN [own |-> TRUE, at |-> None] ELSE None]]
  /\ UNCHANGED <<schema, start, rows, table, clock, edit>>

\* A batch lists its mirrors once; of none, RunAll returns at once.
ListBatch(p) ==
  /\ EnabledForDockerHub # {}
  /\ Take(p, EnabledForDockerHub)
  /\ UNCHANGED solo

\* runOneMirror: any mirror there is, enabled or not.
TakeOne(p, i) ==
  /\ rows[i] # None
  /\ Take(p, {i})
  /\ solo' = solo \cup {p}

\* The probe begins: StartedAt.
Begin(p, i) ==
  /\ work[p][i] # None
  /\ work[p][i].at = None
  /\ work' = [work EXCEPT ![p][i].at = clock]
  /\ UNCHANGED <<schema, start, rows, table, clock, running, solo, edit>>

\* Mutant: a row is written for a probe that has not begun.
Listed(p, i) == work[p][i] # None

\* A probe that is over has a result, and with it the time it began.
Measured(p, i) == work[p][i] # None /\ work[p][i].at # None

Record(p, i) ==
  /\ Measured(p, i)
  /\ InsertProbe(i, work[p][i])
  /\ work' = [work EXCEPT ![p][i] = None]
  /\ UNCHANGED <<schema, start, rows, clock, running, solo, edit>>

\* InsertProbe fails: RunAll notes it and goes on, RunOne returns.
Lose(p, i) ==
  /\ Measured(p, i)
  /\ work' = [work EXCEPT ![p][i] = None]
  /\ running' = running \ (solo \cap {p})
  /\ solo' = solo \ {p}
  /\ UNCHANGED <<schema, start, rows, table, clock, edit>>

\* Once all is settled the history is pruned, or the prune fails.
Finish(p) ==
  /\ p \in running
  /\ work[p] = Idle
  /\ PruneProbes \/ UNCHANGED table
  /\ running' = running \ {p}
  /\ solo' = solo \ {p}
  /\ UNCHANGED <<schema, start, rows, clock, work, edit>>

Tick ==
  /\ clock < MaxTime
  /\ clock' = clock + 1
  /\ UNCHANGED <<schema, start, rows, table, probes, edit>>

-----------------------------------------------------------------------------
Starting ==
  \/ \E r \in Releases : Start(r)
  \/ \E m \in Known(release) : Migrate(m)
  \/ Opened
  \/ \E i \in Ids : Seed(i)
  \/ Serve

Editing ==
  \/ \E enabled \in BOOLEAN, content \in Contents :
       \/ \E i \in Ids : handleSourceCreate(i, enabled, content)
       \/ \E e \in Editors : handleSourceUpdate(e, enabled, content)
  \/ \E i \in Ids, e \in Editors : OpenUpdate(e, i)
  \/ \E i \in Ids : handleSourceDelete(i)
  \/ \E i \in Ids, enabled \in BOOLEAN : handleSourceEnabled(i, enabled)

Probing ==
  \E p \in Probers :
    \/ ListBatch(p)
    \/ Finish(p)
    \/ \E i \in Ids : TakeOne(p, i) \/ Begin(p, i) \/ Record(p, i) \/ Lose(p, i)

Next == Starting \/ Stop \/ Editing \/ Probing \/ Tick

Spec == Init /\ [][Next]_vars

-----------------------------------------------------------------------------
(* Properties.                                                             *)

\* A panel that serves has every table and column its release relies on, and the
\* record names exactly the steps that took effect, wherever earlier starts were
\* interrupted (migrate, applyMigration).
SchemaReady ==
  /\ recorded = effects
  /\ up \in {"sync", "serving"} => Known(release) \subseteq effects

\* Whatever earlier releases, interrupted starts and the forms left behind, the
\* built-ins of a panel that serves are its release's, described as the release
\* describes them (SyncBuiltinSources, RetireBuiltins).
CatalogueCurrent ==
  up = "serving" =>
    \A i \in Ids :
      IsBuiltin(i) => /\ Shipped[release][i] # None
                      /\ rows[i].content = Shipped[release][i].content

\* Every mirror of the release has a row once the panel serves, and while it
\* serves a built-in can only be switched off ("Built-in rows survive").
BuiltinsStay ==
  [][up' = "serving" =>
       \A i \in Ids :
         /\ up # "serving" /\ Shipped[release][i] # None => rows'[i] # None
         /\ up = "serving" /\ IsBuiltin(i) =>
              rows'[i] \in {[rows[i] EXCEPT !.enabled = e] : e \in BOOLEAN}]_vars

\* A start, of whatever release and wherever it stops, leaves every row of the
\* user's as it is and every mirror the user turned off, off ("a user who turned
\* a mirror off meant it").
StartsKeepChoices ==
  [][up # "serving" =>
       \A i \in Ids :
         /\ IsUser(i) => rows'[i] = rows[i]
         /\ IsBuiltin(i) /\ rows'[i] # None => rows'[i].enabled = rows[i].enabled]_vars

\* No measurement outlives its mirror, and one of a built-in was taken from the
\* row that is there: what was retired stays forgotten when the ID comes back
\* ("the honest state is for the row, and its history, to be gone").
HistoryIsOwn ==
  \A r \in runs : rows[r.source] # None /\ (IsBuiltin(r.source) => r.own)

\* A row leaves the history of a mirror that stays only when Keep others of its
\* second or a later one are there, in whatever order overlapping runs insert
\* and prune (PruneProbes).
NewestSurvive ==
  [][\A r \in runs \ runs' :
       rows[r.source] # None /\ rows'[r.source] # None =>
         Keep <= Cardinality({q \in runs' : /\ q.source = r.source
                                            /\ Second(q.at) >= Second(r.at)})]_vars
=============================================================================
