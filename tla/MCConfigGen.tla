---------------------------- MODULE MCConfigGen ----------------------------
(***************************************************************************)
(* Five rows: each of two hosts in two spellings, over HTTPS and over      *)
(* plain HTTP, the one before the other and the other before the one; and  *)
(* one whose address is none.  The visitor trusts a registry of their own, *)
(* and one of the mirrors, over plain HTTP.                                *)
(***************************************************************************)
EXTENDS ConfigGen, Relay, TLC

CONSTANTS a, A, b, B, nowhere,   \* the URLs of the rows
          h, H, k, K, mine,      \* hosts as they are spelled there, or by the visitor
          o1, o2

Row(address, insecure) == [address |-> address, insecure |-> insecure, hub |-> TRUE]

MCCatalogue == <<Row(a, FALSE), Row(A, TRUE), Row(b, TRUE), Row(B, FALSE), Row(nowhere, TRUE)>>

MCAddresses == {a, A, b, B, nowhere, h, H, k, K, mine}

MCAuthority ==
  [u \in MCAddresses |->
     CASE u = a -> h [] u = A -> H [] u = b -> k [] u = B -> K [] OTHER -> None]

MCLower ==
  [u \in MCAddresses |->
     CASE u = A -> a [] u = B -> b [] u = H -> h [] u = K -> k [] OTHER -> u]

Result(status, bps) == [status |-> status, bps |-> bps]

\* A transfer that died leaves a rate too.
MCResults == {Result("ok", 1), Result("ok", 2), Result("failed", 2)}

MCFiles ==
  { Blank,
    <<Member("own", o1), Member("insecure-registries", <<mine, H>>), Member("log", o2)>>,
    <<Member("insecure-registries", Shapeless), Member("own", o1)>>,
    <<Member("registry-mirrors", <<mine>>), Member("log", o2)>>,
    NotJSON }

CONSTANTS app, App, ghcr, p80, v1, odd, sum

MCSmall == [w \in Words |-> IF w = App THEN app ELSE w]

Typing(scheme, parts) == [Text(parts, Absent) EXCEPT !.scheme = scheme]

\* With and without a scheme, a port, a path, stray slashes and capitals; of no
\* use, and nothing.
MCTypings ==
  LET Plain(w) == Part(w, Absent)
      slash    == Plain(Gap)
  IN  { Empty,
        Typing(FALSE, <<Plain(ghcr)>>),
        Typing(TRUE, <<Part(App, p80), slash>>),
        Typing(TRUE, <<Plain(ghcr), Plain(App), Plain(app), slash>>),
        Typing(FALSE, <<slash, Plain(App), Plain(ghcr)>>),
        Typing(FALSE, <<Part(Localhost, v1)>>),
        Typing(FALSE, <<Plain(ghcr), Part(app, p80)>>) }

\* Every text of one part or two, and those of three that hold a registry or
\* could be taken to.
MCImages ==
  LET words == {Part(w, Absent) : w \in {app, ghcr, Hub, Library}}
      firsts == words \cup {Part(Localhost, Absent), Part(app, p80), Part(ghcr, p80)}
      three == {<<x, y, z>> : x \in firsts, y \in words \cup {Part(app, v1)},
                              z \in words \cup {Part(app, v1), Part(app, p80), Part(Gap, Absent)}}
  IN  {Text(parts, digest) : parts \in UpTo(Parts, 2) \cup three, digest \in {sum, Absent}}
      \cup [scheme : {TRUE}, parts : {<<Part(ghcr, Absent), Part(app, Absent)>>}, digest : {Absent}]
      \cup {Text(<<Part(app, v1)>>, BadDigest)}

-----------------------------------------------------------------------------
\* Bound: three rows are measured, and the one without a host stays switched on.
Bounded == enabled'[5] /\ \A i \in {4, 5} : latest'[i] = Never

\* The files and the builder share a page and no state: each is run beside the
\* other at rest.  No action reads what was built, so an image is asked for when
\* nothing is, and saving leads back there.
MCInit == Init /\ RelayInit

MCNext ==
  \/ relay = Absent /\ built = Absent /\ Next /\ Bounded /\ UNCHANGED relayVars
  \/ /\ Init /\ file = Blank /\ UNCHANGED vars
     /\ \/ built = Absent /\ RelayNext
        \/ \E text \in Typings : handleRelaySave(text)

MCSpec == MCInit /\ [][MCNext]_<<vars, relayVars>>
=============================================================================
