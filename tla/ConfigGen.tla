----------------------------- MODULE ConfigGen -----------------------------
(***************************************************************************)
(* The configuration generator (internal/configgen) and its page           *)
(* (internal/web/config.go): the mirrors in the catalogue, as they are     *)
(* switched and measured, are ranked into a daemon.json, which is merged   *)
(* into the one the visitor has and pasted over it, again and again.       *)
(*                                                                         *)
(* An address is a text as it was typed: the URL of a mirror, or a host as *)
(* an entry of insecure-registries gives it.  A JSON object is a sequence  *)
(* of members, each key once.  A page is a snapshot: nothing that happens  *)
(* while it is open changes it, so nothing does.                           *)
(***************************************************************************)
EXTENDS Arrange

CONSTANTS
  Catalogue,  \* the rows, in the order of ListSources
  Addresses,  \* texts, none of them empty
  Authority,  \* Authority[a]: the host in that URL as it is written, or None
  Lower,      \* Lower[a]: the text in lower case, without space around it
  Results,    \* what a probe may record: a status and the rate of its bytes
  Settings,   \* the keys of a daemon.json
  Own,        \* values of settings the generator does not manage
  Shapeless,  \* a value that is not a list of strings
  NotJSON,    \* a text that is not a JSON object
  Blank,      \* a text of nothing, or of white space
  Files,      \* what the visitor's own editing may leave
  None

Rows  == DOMAIN Catalogue
Never == [status |-> "", bps |-> 0]   \* no row in LatestProbes

Values == Own \cup {Shapeless} \cup Seq(Addresses)

Managed == {"registry-mirrors", "insecure-registries"}

Objects ==
  {o \in Seq([key : Settings, value : Values]) :
     /\ \A j, k \in DOMAIN o : o[j].key = o[k].key => j = k
     /\ \A k \in DOMAIN o : o[k].key = "insecure-registries" =>
                            o[k].value \in {Shapeless} \cup Seq(Addresses)}

ASSUME ConfigGenAssumption ==
  /\ Catalogue \in Seq([address : Addresses, insecure : BOOLEAN, hub : BOOLEAN])
  /\ \A a \in Addresses : Lower[a] \in Addresses /\ Authority[a] \in Addresses \cup {None}
  /\ Results \subseteq [status : STRING, bps : Nat]
  /\ Managed \subseteq Settings
  /\ Files \subseteq Objects \cup {Blank, NotJSON}
  /\ {NotJSON, Blank, None} \cap Objects = {} /\ NotJSON # Blank
  /\ {Shapeless, None} \cap (Addresses \cup Own \cup Seq(Addresses)) = {}

VARIABLES
  enabled,    \* the flag of each row
  latest,     \* its newest measurement
  file,       \* the visitor's daemon.json
  page        \* the page that is open, or None

vars == <<enabled, latest, file, page>>

-----------------------------------------------------------------------------
(* From a row to a candidate.                                              *)

outcomeFrom(status) ==
  IF status = "ok" THEN "works"
  ELSE IF status \in {"failed", "unreachable", "unauthorized"} THEN "fails"
  ELSE "unknown"

\* A rate is only a rate when the run finished.
Candidate(i) ==
  LET outcome == outcomeFrom(latest[i].status)
  IN  [row |-> i, address |-> Catalogue[i].address, insecure |-> Catalogue[i].insecure,
       outcome |-> outcome, bps |-> IF outcome = "works" THEN latest[i].bps ELSE 0]

configCandidates ==
  Picked([i \in Rows |-> Candidate(i)], {i \in Rows : enabled[i] /\ Catalogue[i].hub})

-----------------------------------------------------------------------------
(* Select.                                                                 *)

hostOf(url) == IF Authority[url] = None THEN None ELSE Lower[Authority[url]]

Host(m) == hostOf(m.address)

\* Mutant: what is known to fail goes before what nobody has tried.
rankTried(m) == IF m.outcome = "works" THEN 0 ELSE IF m.outcome = "fails" THEN 1 ELSE 2

Works(m) == m.outcome = "works"

rank(m) == IF Works(m) THEN 0 ELSE IF m.outcome = "fails" THEN 2 ELSE 1

\* The places of the mirrors kept: the first of each host, whatever comes of it
\* later.
Kept(mirrors) ==
  {k \in DOMAIN mirrors :
     /\ Host(mirrors[k]) # None
     /\ \A j \in 1 .. k - 1 : Host(mirrors[j]) # Host(mirrors[k])}

Better(m, n) ==
  \/ rank(m) < rank(n)
  \/ rank(m) = rank(n) /\ m.bps > n.bps

\* The stable sort of Select, by rank and then by throughput, of the places kept.
Order(mirrors) ==
  {p \in Kept(mirrors) \X Kept(mirrors) :
     LET m == mirrors[p[1]] n == mirrors[p[2]]
     IN  \/ Better(m, n)
         \/ ~Better(n, m) /\ p[1] < p[2]}

Select(mirrors) ==
  LET order == Arranged(Kept(mirrors), Order(mirrors))
  IN  [n \in DOMAIN order |-> mirrors[order[n]]]

\* The warnings of Select, as the rows they name.
Warnings(mirrors) ==
  LET Those(S) == {mirrors[k].row : k \in S}
      kept     == Kept(mirrors)
  IN  [unusable   |-> Those({k \in kept : mirrors[k].outcome = "fails"}),
       unmeasured |-> Those({k \in kept : mirrors[k].outcome = "unknown"}),
       insecure   |-> Those({k \in kept : mirrors[k].insecure}),
       duplicated |-> Those({k \in DOMAIN mirrors \ kept : Host(mirrors[k]) # None})]

-----------------------------------------------------------------------------
(* DaemonJSON.                                                             *)

Member(key, value) == [key |-> key, value |-> value]

has(object, key) == \E k \in DOMAIN object : object[k].key = key

get(object, key) == object[CHOOSE k \in DOMAIN object : object[k].key = key].value

\* An existing key keeps its position, a new one is appended.
set(object, key, value) ==
  IF has(object, key)
  THEN [k \in DOMAIN object |->
         IF object[k].key = key THEN Member(key, value) ELSE object[k]]
  ELSE Append(object, Member(key, value))

endpoints(ranked) == [k \in DOMAIN ranked |-> ranked[k].address]

\* Select left one mirror of each host, so each is named once, as its URL spells it.
insecureHosts(ranked) ==
  LET plain == Picked(ranked, {k \in DOMAIN ranked : ranked[k].insecure})
  IN  [k \in DOMAIN plain |-> Authority[plain[k].address]]

\* Mutant: a list that is there is left alone.
keepTheirs(first, extra) == IF first = <<>> THEN extra ELSE first

\* Mutant: appended without a look at what is there.
appendAll(first, extra) == first \o extra

\* The places of the entries that no entry before them spells otherwise.
Firsts(list) ==
  {k \in DOMAIN list : \A j \in 1 .. k - 1 : Lower[list[j]] # Lower[list[k]]}

\* One entry for each host, in the spelling that came first.  An empty entry would
\* be dropped: there is none.
mergeUnique(first, extra) ==
  LET both == first \o extra IN Picked(both, Firsts(both))

\* An empty text is an empty object.
parseObject(text) == IF text = Blank THEN <<>> ELSE text

\* The list the visitor has, or that it cannot be read; looked at only when
\* there is something to add to it.
Carried(existing) ==
  IF has(existing, "insecure-registries")
  THEN get(existing, "insecure-registries") ELSE <<>>

\* ErrNoMirrors, ErrExisting.
Refused(mirrors, text) ==
  LET ranked == Select(mirrors)
  IN  \/ ranked = <<>>
      \/ text = NotJSON
      \/ insecureHosts(ranked) # <<>> /\ Carried(parseObject(text)) = Shapeless

\* Mutant: the list is replaced like that of the mirrors.
DaemonReplaced(mirrors, text) ==
  LET ranked   == Select(mirrors)
      existing == parseObject(text)
      managed  == insecureHosts(ranked)
      out      == set(existing, "registry-mirrors", endpoints(ranked))
  IN  IF managed = <<>> THEN out ELSE set(out, "insecure-registries", managed)

DaemonJSON(mirrors, text) ==
  LET ranked   == Select(mirrors)
      existing == parseObject(text)
      managed  == insecureHosts(ranked)
      out      == set(existing, "registry-mirrors", endpoints(ranked))
  IN  IF managed = <<>> THEN out
      ELSE set(out, "insecure-registries", mergeUnique(Carried(existing), managed))

\* containerd's file, or None for ErrNoMirrors: it has no part of the visitor's.
ContainerdHostsTOML(mirrors) ==
  LET ranked == Select(mirrors) IN IF ranked = <<>> THEN None ELSE endpoints(ranked)

-----------------------------------------------------------------------------
(* The page, and what surrounds it.                                        *)

Init ==
  /\ enabled = [i \in Rows |-> TRUE]
  /\ latest = [i \in Rows |-> Never]
  /\ file \in Files
  /\ page = None

\* A probe ends, of a row that is switched on or not.
Record(i, result) ==
  /\ page = None
  /\ latest' = [latest EXCEPT ![i] = result]
  /\ UNCHANGED <<enabled, file, page>>

Switch(i) ==
  /\ page = None
  /\ enabled' = [enabled EXCEPT ![i] = ~@]
  /\ UNCHANGED <<latest, file, page>>

\* loadConfigPage: the mirrors table, its warnings and both files are of one list
\* of candidates.
loadConfigPage(text) ==
  page' = [candidates |-> configCandidates, text |-> text,
           daemon |-> IF Refused(configCandidates, text) THEN None
                      ELSE DaemonJSON(configCandidates, text),
           toml |-> ContainerdHostsTOML(configCandidates)]

\* handleConfig pastes nothing.
handleConfig ==
  /\ page = None
  /\ loadConfigPage(Blank)
  /\ UNCHANGED <<enabled, latest, file>>

handleConfigMerge ==
  /\ page = None
  /\ loadConfigPage(file)
  /\ UNCHANGED <<enabled, latest, file>>

\* The visitor pastes the file over the one merged, and closes the page.
Paste ==
  /\ page # None
  /\ file' = IF page.daemon # None /\ page.text = file THEN page.daemon ELSE file
  /\ page' = None
  /\ UNCHANGED <<enabled, latest>>

Edit ==
  /\ page = None
  /\ file' \in Files
  /\ UNCHANGED <<enabled, latest, page>>

Next ==
  \/ \E i \in Rows, result \in Results : Record(i, result)
  \/ \E i \in Rows : Switch(i)
  \/ handleConfig
  \/ handleConfigMerge
  \/ Paste
  \/ Edit

Spec == Init /\ [][Next]_vars

-----------------------------------------------------------------------------
(* Properties.                                                             *)

\* What a row's newest measurement says of it.
Standing(i) ==
  IF latest[i].status = "ok" THEN 3
  ELSE IF outcomeFrom(latest[i].status) = "fails" THEN 1 ELSE 2

\* The rows the visitor is willing to use.
Listed == {i \in Rows : enabled[i] /\ Catalogue[i].hub}

\* The list holds every host of an enabled mirror once, none that is switched
\* off, in the order of their standing, then of the rate of what works, and of
\* the catalogue where those say nothing ("Docker tries registry-mirrors in the
\* order they appear"; a broken mirror with a rate is not ranked first); both
\* files try them in that order, and the page names those that would fail.
RankedRight ==
  page # None =>
    LET ranked == Select(page.candidates)
        fails  == Warnings(page.candidates).unusable
    IN  /\ {Host(ranked[k]) : k \in DOMAIN ranked} =
             {hostOf(Catalogue[i].address) : i \in Listed} \ {None}
        /\ \A j, k \in DOMAIN ranked :
             j < k =>
               LET i == ranked[j].row  l == ranked[k].row
               IN  /\ Host(ranked[j]) # Host(ranked[k])
                   /\ Standing(i) >= Standing(l)
                   /\ Standing(i) = Standing(l) =>
                        IF Standing(i) = 3
                        THEN \/ latest[i].bps > latest[l].bps
                             \/ latest[i].bps = latest[l].bps /\ i < l
                        ELSE i < l
        /\ \A k \in DOMAIN ranked :
             ranked[k].row \in fails <=> outcomeFrom(latest[ranked[k].row].status) = "fails"
        /\ page.toml # None <=> ranked # <<>>
        /\ page.daemon # None => get(page.daemon, "registry-mirrors") = page.toml

Entries(list) == {list[k] : k \in DOMAIN list}

Hosts(list) == {Lower[list[k]] : k \in DOMAIN list}

Existing == parseObject(page.text)

\* What the visitor had is still there after a merge, where it was and as it was:
\* their settings, and each registry they trust over plain HTTP ("not ours to
\* remove").
OwnSurvives ==
  page # None /\ page.daemon # None =>
    /\ Len(Existing) <= Len(page.daemon)
    /\ \A k \in DOMAIN Existing : page.daemon[k].key = Existing[k].key
    /\ \A k \in DOMAIN Existing :
         Existing[k].key \notin Managed => page.daemon[k] = Existing[k]
    /\ LET had == Carried(Existing) now == Carried(page.daemon)
       IN  IF had = Shapeless THEN now = Shapeless ELSE Hosts(had) \subseteq Hosts(now)

\* Docker will use each mirror of the file: the host of one that speaks plain HTTP
\* is listed as insecure, once.  Nothing is listed but what was and, as its URL
\* spells it, what an enabled row says is plain HTTP.  What such a row says is not
\* lost: its host is listed, or the row is named as the duplicate it is.
InsecureListed ==
  page # None /\ page.daemon # None /\ Carried(page.daemon) # Shapeless =>
    LET had    == Carried(Existing)
        now    == Carried(page.daemon)
        ranked == Select(page.candidates)
        plain  == {Host(ranked[k]) : k \in {j \in DOMAIN ranked : ranked[j].insecure}}
        saying == {i \in Listed : Catalogue[i].insecure /\ Authority[Catalogue[i].address] # None}
    IN  /\ plain \subseteq Hosts(now)
        /\ \A j, k \in DOMAIN now :
             Lower[now[j]] = Lower[now[k]] /\ Lower[now[k]] \in plain => j = k
        /\ Entries(now) \subseteq Entries(had) \cup {Authority[Catalogue[i].address] : i \in saying}
        /\ \A i \in saying : \/ hostOf(Catalogue[i].address) \in Hosts(now)
                            \/ i \in Warnings(page.candidates).duplicated

\* Merging a second time changes nothing: what was pasted is what the next merge
\* of the same mirrors would give.
MergeSettles ==
  page # None /\ page.daemon # None =>
    /\ ~Refused(page.candidates, page.daemon)
    /\ DaemonJSON(page.candidates, page.daemon) = page.daemon
=============================================================================
