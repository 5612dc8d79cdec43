-------------------------------- MODULE Relay --------------------------------
(***************************************************************************)
(* The relay address builder (internal/relay and the lower half of         *)
(* internal/web/config.go): a relay is typed and kept in the settings, and *)
(* an image address in any of the forms a person pastes is spelled out and *)
(* put behind its host and path.                                           *)
(*                                                                         *)
(* A text is cut at its "/", and each part at its first ":"; what stands   *)
(* between them is a member of a small set, which knows the patterns it    *)
(* matches.  An empty part, or one with a space, matches none.  A URL is   *)
(* its host and path: a user name or a query in it is left out.            *)
(***************************************************************************)
EXTENDS Integers, Sequences, SequencesExt

CONSTANTS
  Words,      \* what stands before a ":" or in its place
  Segments,   \* the words that match segmentPattern
  HostWords,  \* those that match hostPattern
  Dotted,     \* those that have a dot
  Small,      \* Small[w]: the word in lower case
  Hub, Library, Localhost, Gap,   \* docker.io, library, localhost, and nothing
  Afters,     \* what stands after a ":"
  Ports,      \* those of them that are all digits
  Tags,       \* those that match tagPattern
  Digests,    \* those that match digestPattern
  BadDigest,  \* one that does not
  Absent,     \* no ":", no "@", no result
  MaxParts,   \* bound on the parts of an image address
  Typings,    \* what may be typed for a relay
  Images      \* what may be typed for an image

Part(word, suffix) == [word |-> word, suffix |-> suffix]

Parts == [word : Words, suffix : Afters \cup {Absent}]

\* scheme: it has a "://"; digest: what stands after the "@".
Text(parts, digest) == [scheme |-> FALSE, parts |-> parts, digest |-> digest]

AddressTexts ==
  [scheme : BOOLEAN, parts : Seq(Parts), digest : Digests \cup {BadDigest, Absent}]

Reference == [origin : Parts, path : Seq(Words), tag : Afters \cup {Absent},
              digest : Digests \cup {Absent}]

UpTo(S, n) == UNION {[1 .. m -> S] : m \in 1 .. n}

\* A segment is in lower case, and so is a host.
ASSUME RelayAssumption ==
  /\ HostWords \subseteq Segments /\ Segments \subseteq Words
  /\ {Hub, Library, Localhost} \subseteq HostWords
  /\ Hub \in Dotted /\ {Library, Localhost} \cap Dotted = {}
  /\ Gap \in Words \ Segments
  /\ \A w \in Words : Small[w] \in Words
  /\ \A w \in Segments : Small[w] = w
  /\ Ports \cup Tags \subseteq Afters
  /\ Absent \notin Afters \cup Digests \cup {BadDigest}
  /\ Absent \notin Seq(Parts) \cup AddressTexts \cup Reference
  /\ BadDigest \notin Digests
  /\ MaxParts \in Nat \ {0, 1}
  /\ \A text \in Typings : text \in AddressTexts /\ text.parts # <<>>
  /\ Images \subseteq [scheme : BOOLEAN, parts : UpTo(Parts, MaxParts),
                       digest : Digests \cup {BadDigest, Absent}]

VARIABLES
  relay,  \* the setting: a text that holds a base, or Absent
  built   \* what the page was asked to build, and with which relay, or Absent

relayVars == <<relay, built>>

-----------------------------------------------------------------------------
(* Parse.                                                                  *)

\* "Docker's rule": a port, a dot, or localhost.
looksLikeRegistry(part) ==
  /\ part.word \in HostWords
  /\ part.suffix \in Ports \cup {Absent}
  /\ part.suffix # Absent \/ part.word \in Dotted \cup {Localhost}

\* Mutant: the tag comes off first, from an address of one part or of several.
ParseTagFirst(text) ==
  LET registry == Len(text.parts) >= 2 /\ looksLikeRegistry(Part(text.parts[1].word, Absent))
      rest     == IF registry THEN Tail(text.parts) ELSE text.parts
      origin   == IF registry THEN Part(text.parts[1].word, Absent) ELSE Part(Hub, Absent)
      words    == [k \in DOMAIN rest |-> rest[k].word]
      path     == IF origin = Part(Hub, Absent) /\ Len(rest) = 1
                  THEN <<Library>> \o words ELSE words
  IN  IF ~text.scheme /\ ToSet(path) \subseteq Segments
      THEN [origin |-> origin, path |-> path, tag |-> Last(rest).suffix, digest |-> text.digest]
      ELSE Absent

\* The digest comes off first, then the registry, then the tag.
Parse(text) ==
  LET registry == Len(text.parts) >= 2 /\ looksLikeRegistry(text.parts[1])
      rest     == IF registry THEN Tail(text.parts) ELSE text.parts
      origin   == IF registry THEN text.parts[1] ELSE Part(Hub, Absent)
      words    == [k \in DOMAIN rest |-> rest[k].word]
      path     == IF origin = Part(Hub, Absent) /\ Len(rest) = 1
                  THEN <<Library>> \o words ELSE words
  IN  IF /\ ~text.scheme
         /\ text.digest \in Digests \cup {Absent}
         /\ Last(rest).suffix \in Tags \cup {Absent}
         /\ \A k \in 1 .. Len(rest) - 1 : rest[k].suffix = Absent
         /\ ToSet(path) \subseteq Segments
      THEN [origin |-> origin, path |-> path, tag |-> Last(rest).suffix, digest |-> text.digest]
      ELSE Absent

\* Reference.String: a digest beats a tag.
Spelled(ref) ==
  LET tag == IF ref.digest = Absent THEN ref.tag ELSE Absent
      Nth(k) == Part(ref.path[k], IF k = Len(ref.path) THEN tag ELSE Absent)
  IN  Text(<<ref.origin>> \o [k \in DOMAIN ref.path |-> Nth(k)], ref.digest)

-----------------------------------------------------------------------------
(* Endpoint and Relayed.                                                   *)

\* strings.Trim of the slashes at both ends.
Trimmed(parts) ==
  LET solid == {k \in DOMAIN parts : parts[k] # Part(Gap, Absent)}
      first == CHOOSE k \in solid : \A l \in solid : k <= l
      last  == CHOOSE k \in solid : \A l \in solid : k >= l
  IN  IF solid = {} THEN <<>> ELSE SubSeq(parts, first, last)

\* A relay's host and path in lower case, without a scheme or outer slashes.
Endpoint(text) ==
  LET body == IF text.scheme THEN <<Head(text.parts)>> \o Trimmed(Tail(text.parts))
              ELSE Trimmed(text.parts)
      base == [k \in DOMAIN body |-> Part(Small[body[k].word], body[k].suffix)]
  IN  IF /\ body # <<>> /\ text.digest = Absent
         /\ base[1].word \in HostWords /\ base[1].suffix \in Ports \cup {Absent}
         /\ \A k \in 2 .. Len(base) : base[k].word \in Segments /\ base[k].suffix = Absent
      THEN base ELSE Absent

Relayed(endpoint, ref) ==
  LET base == Endpoint(endpoint)
  IN  IF base = Absent THEN Absent ELSE Text(base \o Spelled(ref).parts, ref.digest)

Empty == Text(<<Part(Gap, Absent)>>, Absent)

\* The address on the page, or none.
buildRelayAddress(stored, image) ==
  IF image = Empty \/ stored = Absent \/ Parse(image) = Absent THEN Absent
  ELSE Relayed(stored, Parse(image))

-----------------------------------------------------------------------------
(* The page.                                                               *)

RelayInit == relay = Absent /\ built = Absent

\* The form is cleared, normalised and stored, or refused; or the statement fails.
\* Each way the page that follows has no image on it.
handleRelaySave(text) ==
  /\ \/ text = Empty /\ relay' = Absent
     \/ Endpoint(text) # Absent /\ relay' = Text(Endpoint(text), Absent)
     \/ UNCHANGED relay
  /\ built' = Absent

\* handleConfig with an image.  A setting that cannot be read is read as none.
BuildAddress(image) ==
  /\ \E read \in {relay, Absent} :
       built' = [relay |-> read, image |-> image, address |-> buildRelayAddress(read, image)]
  /\ UNCHANGED relay

RelayNext ==
  \/ \E text \in Typings : handleRelaySave(text)
  \/ \E image \in Images : BuildAddress(image)

RelaySpec == RelayInit /\ [][RelayNext]_relayVars

-----------------------------------------------------------------------------
(* Properties.                                                             *)

\* What Parse may give: of Docker Hub, "library" is never left out.
Readings ==
  {r \in [origin : {p \in Parts : looksLikeRegistry(p)}, path : UpTo(Segments, MaxParts),
          tag : Tags \cup {Absent}, digest : Digests \cup {Absent}] :
     IF r.origin = Part(Hub, Absent) THEN Len(r.path) >= 2 ELSE Len(r.path) < MaxParts}

Versioned(ref) == [ref EXCEPT !.tag = IF ref.digest = Absent THEN @ ELSE Absent]

\* What an address may mean ("a pinned digest beats a tag").
References == {r \in Readings : r.digest = Absent \/ r.tag = Absent}

\* The ways to write a tag and a digest down: in full; of Docker Hub without the
\* host, unless what follows would be taken for one; an official image without
\* its namespace.
Written(r) ==
  LET last == Part(Last(r.path), r.tag)
      path == [k \in DOMAIN r.path |-> Part(r.path[k], Absent)]
      full == [path EXCEPT ![Len(path)] = last]
      hub  == <<r.origin>>
  IN  {Text(parts, r.digest) : parts \in
         {hub \o full} \cup
         (IF r.origin # Part(Hub, Absent) THEN {}
          ELSE (IF looksLikeRegistry(full[1]) THEN {} ELSE {full}) \cup
               (IF Len(path) = 2 /\ path[1].word = Library THEN {<<last>>, hub \o <<last>>} ELSE {}))}

\* The ways to write an image: a tag beside the digest that pins it says nothing.
Spellings(ref) ==
  LET tags == IF ref.digest = Absent THEN {ref.tag} ELSE Tags \cup {Absent}
  IN  UNION {Written([ref EXCEPT !.tag = t]) : t \in tags}

\* An address is read as the one image it is a spelling of, whatever its parts
\* could be mistaken for, and written out it is read as that image again.
ImagesRead ==
  /\ \A image \in Images :
       Parse(image) # Absent =>
         /\ Versioned(Parse(image)) \in References
         /\ image \in Spellings(Versioned(Parse(image)))
  /\ \A ref \in References :
       /\ \A image \in Spellings(ref) : Parse(image) # Absent /\ Versioned(Parse(image)) = ref
       /\ Parse(Spelled(ref)) = ref

Meaningful == UNION {Spellings(ref) : ref \in References}

\* An address is shown for what is a spelling of an image, when there is a relay.
\* Read by Docker's own rule it names that image and version, behind the path of
\* the relay, and at the relay if its host can be told from a namespace; and it
\* can be read, if the image's registry has no port.  To save the relay shown
\* once more would change nothing.
AddressNamesImage ==
  built # Absent =>
    LET base   == built.relay.parts
        below  == [k \in 1 .. Len(base) - 1 |-> base[k + 1].word]
        pulled == Parse(built.address)
    IN  /\ built.address # Absent <=> built.relay # Absent /\ built.image \in Meaningful
        /\ built.relay # Absent => Endpoint(built.relay) = base
        /\ built.address # Absent =>
             \A ref \in References :
               built.image \in Spellings(ref) =>
                 /\ ref.origin.suffix = Absent => pulled # Absent
                 /\ pulled # Absent /\ looksLikeRegistry(base[1]) =>
                      pulled = [origin |-> base[1],
                                path |-> below \o <<ref.origin.word>> \o ref.path,
                                tag |-> ref.tag, digest |-> ref.digest]
=============================================================================
