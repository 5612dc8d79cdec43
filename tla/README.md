# Mirrorpilot: a verification project

TLA+ models of [mirrorpilot](../src/README.md), a single-process web panel that
measures Docker registry mirrors, keeps a few credentials under a password, and
hands image relocation over to GitHub Actions. The modules model the code under
`src/internal` and `src/cmd/mirrorpilot`; TLC checks them on small instances and
TLAPS proves the main results for every instance.

Contents: [the system](#the-system), [the modules](#the-modules),
[the runs](#the-runs), [the proofs](#the-proofs), [what the checks found](#what-the-checks-found),
[abstractions](#abstractions), [plan](#plan).

## The system

One Go process, one SQLite file. `store.Open` sets the pool to one connection,
so every statement and every transaction is atomic with respect to every other
one of the process, and between two of them anything may happen. Concurrency
comes from the HTTP handlers (a goroutine per request), from two background
loops (`sweepSessions`, `sweepProbes`) and from the worker pools of the probe
runner. Nothing in memory survives a crash; everything in the database does.

| Component | State | Operations | Status |
| --- | --- | --- | --- |
| Account, vault, credentials (`auth`, `secret`, `store/bootstrap.go`, `vault.go`, `reset.go`) | rows `users`, `vault`, `credentials`; the live key `Manager.sealer` | Setup, Login, Unlock, Lock, ChangePassword, SaveCredential, Credential, DeleteCredential, Reset | modelled: `Vault`, `Keyring` |
| Sessions (`auth/session.go`, `store/session.go`, `web/middleware.go`) | `sessions` rows; the browser's cookie | issue, Authenticate, Logout, DeleteAllSessions, the sweeper | modelled: `Sessions` |
| Probe runs (`probe/runner.go`, `probe/activity.go`, `web/probe.go`, `main.go`) | batch lock, live view, the pool of each run | batch, single probe, background sweep | partly: `ProbeRuns` (deadlines and the layers of the view abstracted) |
| Prober (`probe/prober.go`, `probe/types.go`) | none between probes | four layers, challenges, two time budgets, a verdict | modelled: `Prober` |
| Mirror catalogue, probe history (`catalog`, `store/source.go`, `store/probe.go`, `web/mirrors.go`) | `sources`, `probe_runs` | create, update, delete, enable, sync and retire built-ins, insert, prune | modelled: `Catalogue` |
| Schema and migrations (`store/schema.go`) | `schema_migrations` | migrate at each start | partly: `Catalogue` (one process at a time) |
| Settings and relocation (`web/sync.go`, `ghsync`) | `settings`, two credentials; runs at GitHub | save the form, dispatch, list runs | partly: `Relocation` (list of runs, rendering and preferences left out) |
| Configuration generator (`configgen`, `web/config.go`) | none of its own: a page over catalogue and history | Select, rank, merge into `daemon.json`, containerd's file | modelled: `ConfigGen` |
| Relay address builder (`relay`, `web/config.go`) | one setting | parse an image address, save a relay, put one behind the other | modelled: `Relay` |
| Built-in definitions, configuration file, translations, pages | none | data, constants, rendering | not modelled: see [below](#not-modelled) |

How they interact. A handler passes `withState`, which reads the account and the
session (Sessions), and then calls into `auth.Manager` (Vault), the runner
(ProbeRuns) or `ghsync`. `ghsync` gets its token through `Manager.Credential`,
so relocation depends on the live key. The runner reads mirrors from the
catalogue and writes their history, which the generator ranks them by. A password change ends with
`DeleteAllSessions`: the one operation that Vault and Sessions share. The live
view `probe.Activity` is shared by the batch handler, the single-probe handler,
the background sweep (as observer of the one runner factory) and the page that
polls it.

What makes each part correct, and what is hard about it:

* **Vault.** The users row and the vault row exist together and agree; a stored
  credential opens under a key the stored salt gives; the live key is that key.
  Hard: `Manager.mu` protects one pointer, while a password change is
  verify, take the key, snapshot, transaction, install, delete sessions: six
  steps between which a request, a crash or a failed statement can come.
* **Sessions.** A revoked session stays revoked; an idle one ends; one in use
  stays; expired rows go. Hard: the read, the clock and the write of
  Authenticate are three moments, several requests of one browser are in flight
  at once, and the sweeper's time is taken before its statement runs.
* **Probe runs.** One batch at a time; no mirror lost or measured twice by a
  run; every run returns and gives the lock back; the view describes the run it
  claims to. Hard: the queue has no buffer, inserts fail when the deadline has
  passed, and runs of different origin publish into one view.
* **Prober.** The verdict fits what the mirror did; a probe returns within its
  budgets; a 429 ends it; a slow layer does not eat the next one's budget
  unnoticed. Hard: any of eleven requests may be refused, challenged, throttled
  or cut off, and the bytes can be checked only sometimes.
* **Catalogue and history.** The built-ins of a panel that serves are those of its
  release; a start keeps what the user chose; a measurement belongs to a mirror
  that is there; pruning keeps the newest rows whoever inserts. Hard: a start is
  many statements and may stop after any of them, the next one may be of another
  release, a probe reads its mirror long before it writes the row, and times are
  compared as text.
* **Relocation.** What is saved is what was typed; what is dispatched was saved
  together; one press is at most one run. Hard: eight statements write and seven
  read one configuration, any of them may fail, and the answer of GitHub may be
  lost or late.
* **Configuration generator.** Docker tries mirrors in the order of the file, so
  the order must be the measured one; the visitor's own settings must survive any
  number of merges. Hard: hosts have several spellings, rows repeat, a mirror
  that failed may still have a rate, and the result is merged into itself.
* **Relay.** An address must name the same image behind the relay. Hard: a port and
  a tag, a registry and a namespace look alike, and `library/` may be implied.

`PROJECT.json` lists the hazards of the code line by line, with the properties
that would catch each, or the reason why none does yet.

## The modules

| Module | Role |
| --- | --- |
| `Keyring` | abstract: an owner's password and one secret per slot |
| `Vault` | `auth.Manager` over `users`, `vault`, `credentials`, `sessions`; refines `Keyring` |
| `VaultInvariant` | the inductive strengthenings of Vault's invariants |
| `VaultProofs` | theorems about Vault |
| `Sessions` | the life of a session, its row and its cookie |
| `SessionsProofs` | theorems about Sessions |
| `ProbeRuns` | batches, single probes, the sweep, their pools and the live view |
| `ProbeRunsProofs` | theorems about ProbeRuns |
| `Prober` | one probe of one mirror: layers, challenges, budgets, verdict |
| `ProberProofs` | theorems about Prober |
| `Catalogue` | mirrors, their history, migrations, starts of several releases |
| `CatalogueProofs` | theorems about Catalogue |
| `Relocation` | the relocation form, the dispatch, GitHub |
| `RelocationProofs` | theorems about Relocation |
| `Arrange` | a finite set in the order of a relation, the picked places of a sequence: by counting |
| `ArrangeProofs` | lemmas about them |
| `ConfigGen` | ranking and merging over a changing catalogue |
| `Relay` | the address builder: a stored relay, and image addresses put behind it |
| `ConfigPageProofs` | theorems about ConfigGen and Relay |
| `MCVault`, `MCSessions`, `MCProbeRuns`, `MCProber`, `MCCatalogue`, `MCRelocation`, `MCConfigGen` | instances for TLC: symmetry and named constants |

### Vault

`account` is the password the users row's hash accepts, `vault` the key its salt
and fingerprint identify, `creds` a sealed blob per slot, `sealer` the live key.
A key is a record of password and salt, a blob a record of key, slot and value:
`Opens` holds only for the right key and the right slot, which is what AES-GCM
with the slot's name as associated data does. `NewSalt` never returns a salt
that anything still refers to (16 random bytes), and `FreshSalts` says so.

Each client has one request at a time with a program counter `pc`, its arguments
`req`, and the local variables `key` and `snap`. One action is one statement,
one transaction or one critical section of the code:

| Code | Actions |
| --- | --- |
| `Setup` | `SetupCheck`, `Bootstrap` (one transaction), `InstallKey`, `Issue` |
| `Login`, `Unlock` | `LoginVerify` or `UnlockVerify`, `ReadVault`, `InstallKey`, and `Issue` for a login |
| `ChangePassword` | `ChangeVerify`, `TakeSealer`, `Snapshot`, `Rekey` (one transaction), `InstallKey`, `Kick` |
| `SaveCredential` | `AskSave`, `TakeSealer`, `Store` |
| `Credential` | `AskRead`, `TakeSealer`, `Fetch` |
| `DeleteCredential` | `AskDelete`, `Drop` |
| `Logout`, `Lock`, `Reset`, start and crash | `Logout`, `Lock`, `Reset`, `Start`, `Crash` |
| any error return | `Fail`, at every step but `install`, which can neither wait nor fail |

The constant `Alone` names the kinds of request that the owner never overlaps
with another. The code enforces none of it. With `Alone = {}` the credentials
invariant is false (see the findings); `Alone = {"change", "reset"}`, a password
change by itself and the panel stopped for `mirrorpilot -reset`, is the weakest
discipline found under which it holds. Everything else overlaps freely.

### Sessions

`row` is `expires_at` of each session ID, `cookie` when the browser drops the
cookie, `active` the latest time of an admitted use, `alone` that of the latest
use which no other request for the session overlapped, `ended` the IDs that a
logout or a password change ended (the last three are history). A request is
`Lookup` (the SELECT), `Judge` (the clock, compared), then `Touch` (an UPDATE
of a row still there) or `Reap` (a DELETE), and, when what it asked for is a logout or
a password change, `Logout` or `KickAll`. Which of them it is is chosen after it is
admitted; nothing earlier depends on it. The sweeper takes its time in `SweepTick` and deletes
in `SweepRun`, or skips a tick in `SweepFail`. `Restart` loses the requests
and the sweeper's tick and keeps rows and cookies.

### ProbeRuns

`phase` follows a prober, a tab or the sweep: `list`, `run`, `end`, `unlock`.
`todo` is what the feeder goroutine still holds, `cur` and `step` are the workers,
`settled` the mirrors whose row was written or whose loss was noted in
`RunReport.RecordErrors`. `HandOff` is both ends of the unbuffered channel;
`Measure` publishes what the observer sees; `Insert` settles, whatever
`InsertProbe` returned. `Begin`, `End` and `Observe` are the methods of
`Activity`, each one step because each holds the mutex from end to end. A tab
has one request in flight and can press again when it has returned; several
runs overlap because there are several tabs.

### Prober

`pc` and `what` are where a probe stands: it waits for the answer to `/v2/`, for
a token, for one of three documents (the manifest, a child manifest, the blob),
for a token asked for again, or for a body. The mirror chooses every answer,
time passes between them, and one action is one answer with what the code does
about it:

| Code | Actions |
| --- | --- |
| `checkConnectivity`, `parseChallenge`, `realmVerdict` | `AnswerConnect` |
| `fetchToken` | `AnswerToken`, and `Reauth` when a later challenge asked for it |
| `fetchManifestURL`, for the manifest and the child; the request of `fetchBlob`, `fetchBlobAt` | `Answered`, `Unanswered`, `Rejected`, `Challenged` |
| the manifest's body, `parseManifest`, `pickBlob` | `BadDocument`, `Index`, `Image`, `NoBlob` |
| the blob's body | `Transfer` |
| `context.WithTimeout`, twice | `Wait`, `Expire`, `Deadline` |

`connect` to `throughput` are the layers' statuses, `checked` and `verified` the
digest flags, `Verdict` the function `verdict`. What the mirror really did is
history: `seen` for everything but serving, `served` for the bytes of the blob,
`sent` for the requests.

### Catalogue

`rows` is the table `sources`, `runs` the table `probe_runs` with its
AUTOINCREMENT `last`, `effects` the migrations whose statements took effect and
`recorded` the rows of `schema_migrations`. A process is of one `release`; `up`
says how far its start has come, `known` what it read as applied, `todo` the
built-ins it has still to write. `work` is what each prober holds in its hands
between reading a mirror and writing its row. `own`, in a measurement and in a
row, is history: the mirror it was read from has not been deleted since.

| Code | Actions |
| --- | --- |
| `migrate`, `applyMigration` | `Start`, `Migrate` (one transaction each), `Opened` |
| `catalog.Sync`: `SyncBuiltinSources`, `RetireBuiltins` | `Seed` (a row at a time), `Serve` |
| a shutdown, a crash, a start that fails | `Stop` |
| `handleSourceCreate`, `handleSourceUpdate`, `handleSourceDelete`, `handleSourceEnabled` | the actions of these names; the update's `GetSource` is `OpenUpdate` |
| `ListSources` of a batch and of the sweep; `runOneMirror` | `ListBatch`, `TakeOne` |
| `Prober.Probe`, `InsertProbe` | `Begin` (when `StartedAt` is taken), `Record`, or `Lose` when the insert fails |
| `PruneProbes`, the end of a run | `Finish` |

The next start may be of any release, so upgrades and downgrades mix.
`Seed` takes the built-ins in any order, which includes the one of the code.

### Relocation

`settings` and `creds` are the eight rows, `Keys` the order in which
`saveSyncForms` writes and `syncSettings` reads six of them. A save holds its form
and its position; a dispatch what it has read so far. `wire` holds the
requests on their way to GitHub: one can arrive after its sender has given up,
and an answer can be lost after a run has started. History: `settled` is what the
last save was to leave, if it came to its end and met no other; `press[d].base` is
`settled` as it was when the button was pressed, unless a save or a lock came since.

| Code | Actions |
| --- | --- |
| `handleSyncSettings`: checks; `saveSyncForms`; `saveSyncCredentials` | `handleSyncSettings`, `saveSyncForms` (six times), `SaveToken`, `SavePassword` |
| `handleSyncDispatch`; `syncSettings`; `Validate` of spec, target and inputs; `Client.Dispatch` | `Press`, `syncSettings` (six times), `Refuse` or `Send` |
| `Client.do`, `classify` | `Answered`, `CallFails` |
| an error, a browser that leaves, a crash | `SaveFails`, `PressFails`, `Restart` |
| GitHub (external) | `Accept`, `Drop` |

### ConfigGen and Relay

`ConfigGen` has the rows of the catalogue with their flag and newest result, the
visitor's `daemon.json`, and the page. `Select`, `Warnings`, `DaemonJSON` and
`ContainerdHostsTOML` are operators translated from `internal/configgen`; `Record`
and `Switch` change what they read, `handleConfig` and `handleConfigMerge` show a
page, `Paste` and `Edit` are what the visitor does with it. An address and a host are
model values: `Authority` takes the one out of the other as it is spelled there
(`Mirror.Host`), or finds none, and `Lower` gives its lower case. What the code
compares in lower case and what it writes as it found it are thus two things.

`Relay` has the stored relay and what the page was last asked to build: `Parse`,
`Spelled` (`Reference.String`), `Endpoint`, `Relayed` and `buildRelayAddress` are
operators on texts cut at their separators, `handleRelaySave` and `BuildAddress`
(`handleConfig` with an image, the setting read, or not) its actions. They are checked
against reference definitions that go the other way: `Spellings` gives all the ways
to write an image, by Docker's documented rule for what a first part means, and a
built address must be read, by that same rule, as the image asked for.

The stable sort of `Select`, and the loops that keep the first of each host, are
written over `Arrange`: an element's place is the number of those that come
before it. That says what the loops compute, and, unlike a recursion over a
sequence, it can be reasoned about by the prover. No module declares a RECURSIVE
operator.

## The runs

| Run | Instance | Shows |
| --- | --- | --- |
| `vault` | 2 clients, 2 passwords, 4 salts, 2 slots, 2 values, `Alone = {change, reset}` | `TypeOK`, `AccountCoherent`, `CredentialsOpen`, `SealerCurrent`, `ReadsOpen`; Vault implements `Keyring` |
| `vault_overlap` | as above, 1 slot, 3 salts, `Alone = {reset}` | `CredentialsOpen` is violated |
| `sessions` | 2 IDs, 2 requests, lifetime 2, clock to 3, fair sweeper | `IdleSessionsEnd`, `RevokedStaysRevoked`, `UseKeepsSession`, `ExpiredRowsGo` |
| `sessions_cookie` | 1 ID, 1 request, clock to 4 | `UseKeepsCookie` is violated |
| `proberuns` | 2 tabs and the sweep, 2 mirrors, 2 workers, 2 registered runs | `OneBatch`, `RunsAccount`, `ViewFollowsNewest`, `DoneCountsMirrors` |
| `proberuns_return` | 1 tab and the sweep, fair goroutines | `RunsReturn` |
| `proberuns_sweep` | as `proberuns` | `SweepStaysOutOfView` is violated |
| `prober` | Timeout 2, BlobTimeout 3, cap 2, lengths 0 to 3, fair clock and contexts | `ServingIsOk`, `OkIsEarned`, `BlameFits`, `RequestsBounded`, `TransferKeepsTime`, `BacksOff`, `Returns` |
| `prober_short` | as `prober` | `OkMeansWholeSample` is violated |
| `catalogue` | 2 IDs, 2 contents (one refused by `Validate` and out of scope), 2 releases, 2 probers, 1 editor, `Keep` 1, clock to 2 half seconds, 2 rows inserted | `SchemaReady`, `CatalogueCurrent`, `HistoryIsOwn`, `StartsKeepChoices`, `NewestSurvive` |
| `relocation` | 2 forms, 2 savers, 1 presser, 2 saves, 2 presses | `SavedWhole`, `SentWhole`, `RunsMatchPresses` |
| `configgen` | 5 rows (3 measured), 3 results, 5 files of the visitor's; 7 typings of a relay, images of up to 3 parts | `RankedRight`, `OwnSurvives`, `InsecureListed`, `MergeSettles`, `AddressNamesImage` |

Every passing run but `proberuns_return` and `configgen` also checks the `TypeOK` of its module. The longest
(`relocation`, 5.2 million states) takes about three minutes with two workers.

Why the bounds are enough. Vault has no counters: two clients give every pairwise
overlap, the salts are one for the vault, one for the live key and two for keys
in local variables, and two slots and values tell a mixed-up slot or a lost value apart;
the proofs then cover all sizes. In Sessions a lifetime of two on a clock of
four lets a session be issued, slide once and expire, with two requests holding
values of different age; the safety properties are proved for all sizes.
ProbeRuns needs two runs in view to supersede one another and a sweep beside
them; `MaxRuns` bounds the registered ones, the sweep repeats for ever. Two mirrors
and two workers let one mirror wait while two are measured, and one mirror be measured by two
runs. Symmetry is used only for runs without liveness properties.
Prober needs no more than a cap with lengths below, at and above it, and two
different budgets, each longer than one request may last; the requests of a
probe are bounded by the code. Deadlock is not checked there because a probe ends: nothing is
enabled once it is done, and `Returns` says that it gets there.
Catalogue needs two releases that differ in every way that matters: the old one
ships both mirrors and knows one migration, the new one ships one of them, with
other contents, and knows two; so a start refreshes, retires, brings back and
migrates. Those other contents are also the ones that the forms are refused here: a
release would not ship what `Validate` refuses, and a form could bring them, but the
one value serves as out of scope and as refused, and users' rows stay in scope. The
proofs have any `Valid`. `MaxRuns` bounds the rows ever inserted, since IDs are never used again; two rows with `Keep` 1
let a prune choose between two runs that overlap, and three half seconds are the
least on which text order and time order disagree. Mirrors, releases and
probers are unbounded in the proofs, and so are `Keep` and the rows.
Relocation's two forms are opposites: one fills both pairs and sets a token, the
other clears the repository, leaves a workflow that nobody checked, changes the
target and removes the token; `MaxSaves` and `MaxPresses` let one break into the
other, and the proofs cover all numbers. In ConfigGen each of two hosts has two
rows, one over HTTPS and one over plain HTTP under another spelling, the one order for
one host and the other for the other; a fifth row
cannot be addressed. The visitor's file may list a mirror, be unreadable in the
part that matters, or be no JSON at all. `Bounded` measures the first three rows only
and leaves the fifth switched on. A page is one action away from any state, so
no longer history is needed. Relay's texts (`MCImages`) are every one of up to two parts, and
those of three, which is registry, namespace and name, that hold a registry or could be
taken to; the words are chosen so that each pattern has a member and a non-member.
`MCTypings` are a relay with and without scheme, port, path, stray slashes and
capitals, and three texts that are none. The two halves of the page share no state, so
`MCConfigGen` runs each beside the other at rest. The proofs have any
catalogue, file, words and length.

Fairness. Vault has none: its properties are safety properties. Sessions: weak
fairness of `SweepTick`, because the ticker of `sweepSessions` keeps firing
until the process ends, and strong fairness of `SweepRun`, because a database
asked again every interval does not fail, and the process does not crash, every
single time; a tick may be skipped any number of times in between. No request,
browser or clock is fair. ProbeRuns: weak fairness of each worker and of each
prober's own progress, because goroutines are scheduled and each probe, read and
write is bounded by a budget or the run's deadline. Nobody is obliged to press a
button. Prober: weak fairness of `Wait`, because time passes, and of `Expire`,
because a context that has ended makes the request or the read under it return.
The mirror is not fair: it may never answer. Catalogue, Relocation and ConfigGen
have no fairness: nothing obliges a user to press, and all they promise is safety.

## The proofs

`VaultProofs`, `SessionsProofs`, `ProberProofs`, `ProbeRunsProofs`, `CatalogueProofs`,
`RelocationProofs`, `ArrangeProofs` and `ConfigPageProofs` are checked by TLAPS to the
last leaf. Every invariant and action property that a passing run checks is a theorem. Their only
assumptions are the named ones on the constants, which TLC evaluates on every
instance, and, where the table says so, a discipline of use. Of the assumptions,
those that say something about the code are:

* `ProberAssumption`: a pool has at least one worker (`NewRunner` replaces a
  concurrency of 0 or less by the default, and a batch of no mirrors starts no pool).
* `ConfigGenAssumption`: an object has each of its keys once; an entry of the
  visitor's `insecure-registries` names a host (the code compares such entries by
  their trimmed, lower-case text, which is its own host, and drops empty ones); the
  texts that are no object are told apart from those that are.
* `RelayAssumption`: what matches `segmentPattern` is in lower case already, and a
  host is a segment; the digits of a port and a tag are texts that may follow a colon;
  `docker.io`, `library` and `localhost` are what they are; addresses have at least two parts.

| Theorem | States | Assumes |
| --- | --- | --- |
| `TypeCorrect` (Vault) | `TypeOK` | |
| `AccountCoherence` | `AccountCoherent`, whatever overlaps | |
| `CredentialsStayReadable` | `CredentialsOpen` | `Careful` |
| `SealerStaysCurrent` | `SealerCurrent` | `Careful` |
| `ReadsStayOpen` | `ReadsOpen` | `Careful` |
| `VaultIsKeyring` | `Spec => K!Spec` | `Careful` |
| `IdleEnds` | `IdleSessionsEnd` | |
| `RevokedStays` | `RevokedStaysRevoked` | |
| `TypeCorrect` (Sessions) | `TypeOK` | |
| `UsesKeep` | `UseKeepsSession` | |
| `TypeCorrect` (Prober) | `TypeOK`: no verdict is blank | |
| `ServingMeansOk`, `OkEarned`, `BlameIsFitting` | `ServingIsOk`, `OkIsEarned`, `BlameFits` | |
| `FewRequests` | `RequestsBounded` | |
| `BackingOff` | `BacksOff` | |
| `TransfersKeepTime` | `TransferKeepsTime` | |
| `ProbesRunOut` | `Shorter`: each step takes from the answers and the time that are left | |
| `TypeCorrect` (ProbeRuns) | `TypeOK` | |
| `BatchesTakeTurns` | `OneBatch` | |
| `RunsKeepAccount` | `RunsAccount` | |
| `RunsGetNearer` | `Nearer`: no step adds to what a run has left to do, each of its own takes from it | |
| `RunsNeverStick` | `NeverStuck`: a run that has not returned has a step to take | |
| `ViewIsNewest` | `ViewFollowsNewest` | |
| `DoneIsCounted` | `DoneCountsMirrors` | |
| `TypeCorrect` (Catalogue) | `TypeOK` | |
| `SchemaIsReady` | `SchemaReady` | |
| `CatalogueStaysCurrent` | `CatalogueCurrent` | |
| `HistoryStaysOwn` | `HistoryIsOwn` | |
| `ChoicesSurviveStarts` | `StartsKeepChoices` | |
| `BuiltinsStayInPlace` | `BuiltinsStay`: while the panel serves, a built-in can only be switched | |
| `NewestStay` | `NewestSurvive` | |
| `TypeCorrect` (Relocation) | `TypeOK` | |
| `SavesAreWhole` | `SavedWhole` | |
| `SendsAreWhole` | `SentWhole` | |
| `SendsAreValid` | `SentValid`: any mixture that is sent is valid | |
| `RunsAreCounted` | `RunsMatchPresses` | |
| `RankingIsRight` | `RankedRight` | |
| `OwnStays` | `OwnSurvives` | |
| `InsecureAreListed` | `InsecureListed` | |
| `MergesSettle` | `MergeSettles` | |
| `EveryImageIsRead` | `ImagesRead` | |
| `AddressesNameImages` | `AddressNamesImage` | |

The argument for Vault. `AccountCoherent` is inductive with `TypeOK` once it is
known what a request carries at each step (`ReqOK`): `Bootstrap` needs
`key.pw = req.pw` and `Rekey` needs `key.pw = req.new`. That is `LocalInv`. It
holds for any `Alone`, so the account stays coherent even when password
changes race. The credentials need more. `Careful` is
`{"change", "reset"} \subseteq Alone`; under it `CarefulInv` adds that a change
has no company (`Solo`), that a stopped process remembers nothing (`Down`), and
that a key about to be installed or used is the vault's and a snapshot about
to be written is the table resealed (`Held`). `Held` is why `Store` seals under
the right key: nothing replaces the vault row between taking the key and using
it. The refinement is then a case per action: `Rekey` is `Change`, because the
snapshot carries the same values; `Bootstrap` is `Claim`; `Store`, `Drop` and
`Reset` are `Put`, `Erase` and `Wipe`; everything else stutters.

The argument for Sessions. `IInv` says that a request past `Lookup` holds an
expiry no later than the latest use plus the lifetime (`Known`) and that no row
lasts longer (`Lasts`). The latest use only grows, so a request that writes late
writes less, never more. Revocation is final because `Touch` is an UPDATE.
That a use keeps the session for a lifetime is not true of each: of two requests that
overlap, the one that read the clock first may write last and shorten the row by the
difference, and one that judged the old row expired may delete a new one.
`UseKeepsSession` says it of a use which no other request for the session overlapped,
with any requests before, after and for other sessions: who writes later has read the clock later.

The argument for Prober. The verdict is a function of the layers, so what has to
be carried through a probe is how the layers so far relate to what happened:
until it is over nothing has been held against the mirror (`UnderWay`), and the
layers behind it have the statuses that let it go on (`LayersSoFar`). The three
statements about the verdict are then inductive with these, decided in the last step. The
number of requests is bounded by a count per document and challenge
(`Counted`), the time by the deadline of the document asked for. `TransferKeepsTime`
needs when layer 4 begins and when it can be cut: inside the budget of the layers before
it (`BegunInBudget`), and not before the end of its own (`CutAtDeadline`), whatever
child manifests and challenges come between. Requests and time together
are a natural number that every step makes smaller (`Shorter`), so a probe cannot
go on for ever; that it does not stop half-way is what TLC shows.

The argument for ProbeRuns. `OneBatch` needs to know that a batch under way holds
the lock and that a single run never comes to unlock it (`Locked`). `RunsAccount`
needs the pools (`Pools`: a worker waits exactly when it has nothing, and works
only while its run runs) and where each mirror is (`Placed`); the last mirror is settled because
`Waited` sees the feeder and every worker empty. The view is right because
identifiers are handed out once (`Numbered`) and a view always carries the
latest (`Viewed`). `DoneCountsMirrors` is a cardinality: `done` is the number of
finished lines, and one event finishes at most one line; the library's facts about finite
sets carry it to any number of mirrors. Of `RunsReturn` everything is proved but
the scheduler's part. `Left` is what a run has still to do: four steps for each
mirror with the feeder, fewer for one that a worker has, and the handler's own.
No step of another prober adds to it and each of the run's own takes from it
(`Nearer`), and until it is 0 the guard of such a step holds (`NeverStuck`): the
feeder never waits for workers that are all gone, nor the pool for a mirror that
nobody has. That goroutines do take their steps is the fairness that TLC assumes.

The argument for Catalogue. `CatalogueCurrent` speaks of a panel that serves, so
the start has to be followed: what is still `todo` is shipped (`TodoShips`), what
has been seeded is as shipped (`Seeded`), and `Serve` removes the rest; afterwards
no form can write a built-in. `HistoryIsOwn` needs that nothing is measured
while the process starts (`Quiet`) and that what is being measured of a built-in was
read from its row (`WorkIsOwn`): a built-in can only come or go while the panel
does not serve. `SchemaReady` needs that what is believed applied was recorded.
The action properties `StartsKeepChoices` and `BuiltinsStay` are then read off each step.
`NewestSurvive` is about one `PruneProbes`, whoever else inserts. Rows have numbers
of their own (`HistoryNumbered`), so the order of its window, by the text of the time and
then by number, is total on a mirror's history. A row goes when at least `Keep`
come before it; the first `Keep` of the order (`ArrangeProofs` counts them) stay,
none of them is of an earlier second, since the texts of two seconds compare as the seconds do.

The argument for Relocation. For a save that meets no other, `Progress` says that
what it has passed is stored and what is left leads to its goal, whatever was there before;
`Settled` that nobody writes while there is a settled configuration; `Based`
that a press which nothing disturbed has read that one so far. `Numbered` gives
each press a number of its own and no run before its request left, from which
`Counted` follows.

The argument for ConfigGen. A page that is open is what `loadConfigPage` makes of the
catalogue now, because nothing happens while it is open (`PageIsCurrent`), so the
four properties are facts about operators, for any list of candidates. What a
loop over a list computes would take induction; counting takes its place. `Arranged`
gives the n-th of a set as the one with n - 1 before it; that there is exactly one
for each n follows because counting what comes before is an injection of the set into as many
numbers, and such a map is onto. From this come, in
`ArrangeProofs`, that a sort keeps each element once and in order, that picking
places keeps the order, and that picking all changes nothing. `RankedRight` is then the
order of `Select` compared case by case with what the measurements say;
`MergeSettles` that the first entry of each host, in a list that was merged
before, is the entry of that host, and that every mirror's host is in it already.

The argument for Relay. `Parse` and `Spellings` go opposite ways, so each half of
`ImagesRead` is a case of where the host is looked for: there is none and one part, there
is none and several, or there is one. What `Parse` cuts from an address is
written out again part by part, and a spelling of a reference is parsed for each of the
ways to write it. A tag beside a digest is dropped on the way out (`Versioned`), so such
a text is one more spelling of the pinned image. `AddressNamesImage` is about a relay that
was saved earlier: inductive is that what the form leaves stored is a
host and a path that `Endpoint` leaves as they are, and that what is on the page was
built from it (`RelayInv`); a relayed address
is then a relay's host followed by segments only, exactly if the image's registry has no
port, and `Parse` of it is computed as before. Lengths and words are arbitrary:
the sequences are handled as functions, place by place.

Only model-checked: the liveness properties `ExpiredRowsGo`, `RunsReturn` and
`Returns`, since fairness and `ENABLED` are out of the prover's reach. Of `RunsReturn`
and `Returns` the part that needs no scheduler is proved, as above.

## What the checks found

* `vault_overlap`: a password change that overlaps another request can leave a
  credential sealed under a key that nothing stored derives. A login that read
  the old vault row installs the old key after the change has installed the new one, and the
  next save uses it; or a save took the old key before the change and writes after it. The
  mutex covers the pointer and not the operation.
* `sessions_cookie`: the row slides on each request and the cookie's `Expires`
  does not, so a browser in constant use is logged out one lifetime after login.
* `proberuns_sweep`: the sweep's events are dropped only while no run is
  registered; otherwise they are shown in the visitor's run.
* `prober_short`: a blob body that ends cleanly before its declared size is taken
  for a read capped by the panel, whether or not the cap was reached. It is not
  checked against its digest, and the mirror is "ok".

Read from the code while modelling it, and stated by no run:

* `ChangePassword` deletes the sessions in a statement of its own, after its
  transaction (`auth/password.go:106`): a crash in between leaves the password
  changed and the old sessions valid. `Kick` can fail for that reason.
* A 429 is not always reported as throttling (`probe/prober.go:827`): one for the
  child manifest becomes "skipped", one for a token asked for again
  "unauthorized". Nothing is sent after either, so `BacksOff` holds.
* The context of layer 4 is made when the probe begins (`probe/prober.go:200`), so slow
  answers to the first three layers shorten the transfer: by up to `Timeout`, which is
  what `TransferKeepsTime` gives. `BlobTimeout` "is the budget for layer 4 alone"
  (`probe/prober.go:30`) and "the fourth gets its own" (`README.md:58`) say more than
  that, and `sweepBudget` (`main.go`) allows each mirror the sum of the two.
* A row is inserted under the run's context (`probe/runner.go:130`): a deadline that
  passes during the last probes loses their rows.
* While a run is registered, an event of the sweep can finish the page's
  counter: a single probe of one mirror shows "1 of 1" before its own is over.
* A mirror of the user's that is deleted and created again under its ID inherits a
  measurement in flight. `HistoryIsOwn` therefore speaks of built-ins, where it
  cannot happen.
* Of two rows for one host the first is kept, so its flag and its result count, even if
  it fails and the other works. `insecureHosts` looks at the rows kept: a host whose
  plain-HTTP row was dropped is not listed, against "A host is insecure if any mirror on it
  is" and "the host ends up in insecure-registries either way"
  (`configgen/configgen.go:233-235`, and `:141-143` in the same sense). `TestSelectKeepsTheHTTPSRowWhenAHostAppearsTwice` has the case, and
  expects what the code does. `InsecureListed` states what is left: the dropped row is in a warning.
* A comment in `renderSyncProblem` (`web/sync.go:492`) says that "the submission was
  refused before any call was made", and the list of runs is not read again for that
  reason; the page is also shown after a call that failed or whose answer was lost.
* `validateSyncForms` refuses half a pair, and an interrupted `saveSyncForms` can
  leave one. The next dispatch refuses it.
* `DaemonJSON` reads the first of two members with one key, where readers of JSON
  commonly take the last. ConfigGen's objects have each key once.
* `relay.Endpoint` accepts a host without a dot or a port, which Docker, and
  `relay.Parse`, take for a namespace of Docker Hub; and behind a relay an image
  whose registry has a port gets an address that Docker cannot read, while `Relayed`
  promises "the address to hand Docker" (`relay/relay.go:251-254`). `AddressNamesImage`
  asks for a readable address of every other image and, of one that can be read, that it names the image.
* `Reference.Tag` is "Mutually exclusive with Digest" by its comment
  (`relay/relay.go:68-69`); `Parse` keeps both when both are given. Written out, the
  digest wins, so `AddressNamesImage` takes the tag beside it to say nothing.

## Abstractions

* A password stands for the username and password together. A weak password or an
  empty username is rejected before any state is read or written.
* A request that is not admitted changes nothing in Vault and has no action there.
* `Manager.Lock` has no caller in the panel; it is an action all the same, since it
  is an operation of the component.
* In Vault `session` records the key its owner had proved when it was issued (a
  history variable); when sessions end by themselves is the subject of Sessions.
* `created_at` and `last_seen` of a session, and the count `ChangePassword`
  returns, are written or shown and never decide anything.
* The clock of Sessions moves forward only, and its bound `MaxTime` stops it, not
  the requests.
* ProbeRuns has one layer where the code has four: the view's rules are the same
  for each. The set of enabled mirrors is any subset at each start; the rows and
  `PruneProbes` are in Catalogue. Deadlines appear as inserts that may fail at any time.
* `Snapshot` clamps "done" to the total as the code does. That it also hides a run older
  than `staleAfter` is left out: the deadline of each kind of run comes before it.
* Prober leaves out URLs, headers, durations and details, and which realms are refused: a
  refused realm is a token layer that was skipped. The digest a manifest's header
  declares is one way for a document to be bad. That a child manifest has the
  digest its index names is not compared by the code, and not modelled. A source
  without a URL, which the catalogue refuses, is not probed. When the caller
  gives up, every request from then on goes unanswered, which the model allows at
  any time.
* Sessions compares times, where the code compares their texts: `formatTime` drops
  trailing zeros, so within one second the two orders differ. Catalogue has the order of the texts.
* Catalogue's `Content` is everything a row says but its flags; `Hub` and `Valid`
  say which contents are in scope and which the form accepts.
* In Relocation a value is good or bad for every field alike. Sealing a credential
  takes the key and may fail; what the vault does with it is Vault's subject.
* In ConfigGen a page is a snapshot, and nothing else happens while it is open: it
  would not change the page. Hosts are compared by `Lower` and written as `Authority`
  gives them; a JSON text is a
  sequence of members, white space apart. The `Refused` texts leave the page without a
  file.
* In Relay a word knows which patterns it matches; a user name and a query in a
  relay's URL, which the code drops, are left out.

## Not modelled

* The list of past runs at GitHub (`Client.Runs` and its page): it reads, shows, and keeps nothing.
* The workflow's rendering (`ghsync/workflow.go`): a text with constants filled in.
* Preferences (language, theme, probe target). The pair of the probe target is written
  and read in two statements, like the settings of Relocation, and a batch that
  reads between them probes a repository with the other's tag.
* Built-in definitions (`mirror/catalog.go`): data. What a release ships is the
  constant `Shipped`.
* The configuration file: read once at start; its limits are constants of the modules.
* Translations, templates, static files, routing.
* Two processes on one database: two that migrate at once, or a `-reset` beside a
  running panel. SQLite serialises their statements; what each believes of the
  other's writes is not represented, and `Alone` in Vault states the assumption.

## Plan

1. Done: the modules of state with their proofs, `ConfigGen` and `Relay` with
   their reference definitions, and a theorem for every invariant and action
   property that a run checks.
2. Next: the deadline of a run in ProbeRuns, with what must be recorded
   before it; the preferences' probe target with the batch that reads it.
3. Then: two processes in Vault and Catalogue; a finer Activity, with the four layers
   of each line, shown to implement the one of ProbeRuns.
