------------------------------- MODULE Prober -------------------------------
(***************************************************************************)
(* One measurement of one mirror: Prober.Probe (internal/probe/prober.go)  *)
(* and its verdict.  Four layers follow one another: GET /v2/, a token,    *)
(* the manifest, and a blob, which may first take a child manifest.  The   *)
(* mirror answers each request in any way HTTP allows, at any time, or not *)
(* at all; a document refused with a new challenge is asked for once more. *)
(*                                                                         *)
(* Two budgets run from the start of the probe: Timeout for the first      *)
(* three layers, BlobTimeout for the fourth.  A probe whose caller gives   *)
(* up is one whose requests all go unanswered from then on.                *)
(*                                                                         *)
(* Bytes come in units, MaxBlob of them being the cap.  URLs, headers,     *)
(* digests and details are not modelled, nor which realms are refused; a   *)
(* source has a URL, and the redirects followed on the way to an answer    *)
(* are part of the request.                                                *)
(***************************************************************************)
EXTENDS Integers

CONSTANTS
  Timeout,      \* Options.Timeout
  BlobTimeout,  \* Options.BlobTimeout
  MaxBlob,      \* Options.MaxBlobBytes
  Lengths       \* lengths a blob may have, or be said to have

ASSUME BudgetAssumption ==
  Timeout \in Nat \ {0} /\ BlobTimeout \in Nat \ {0} /\ MaxBlob \in Nat \ {0}
ASSUME LengthAssumption == Lengths \subseteq Nat

VARIABLES
  clock,       \* time since the probe began
  pc,          \* what the probe waits for
  what,        \* the document it is after: the manifest, a child, the blob
  fresh,       \* a challenge for it would still be followed (reauth # nil)
  connect, token, manifest, throughput,   \* Layer.Status of the four layers
  size,        \* descriptor.Size of the blob, as its manifest says
  checked,     \* Result.BlobDigestChecked
  verified,    \* Result.BlobDigestOK
  read,        \* Result.Bytes
  sent,        \* history: requests sent
  seen,        \* history: what the mirror did, other than to serve
  served,      \* history: what it served as the blob
  begun        \* history: when layer 4 began

layers  == <<connect, token, manifest, throughput>>
blob    == <<size, checked, verified, read, served>>
vars    == <<clock, pc, what, fresh, layers, blob, sent, seen, begun>>

Statuses == {"ok", "unauthorized", "rate_limited", "unreachable", "failed", "skipped"}

\* The zero value, the empty string, of a layer that was not reached.
Blank == "blank"

Layers == Statuses \cup {Blank}

\* What can be held against the mirror, or the clock, afterwards.
Marks == {"limited", "refused", "unanswered", "timeout", "wrong", "noblob"}

Init ==
  /\ clock = 0
  /\ pc = "connect" /\ what = "manifest" /\ fresh = TRUE
  /\ connect = Blank /\ token = Blank /\ manifest = Blank /\ throughput = Blank
  /\ size = 0 /\ checked = FALSE /\ verified = FALSE /\ read = 0
  /\ sent = 1 /\ seen = {} /\ served = "nothing" /\ begun = 0

-----------------------------------------------------------------------------
\* Mutant: a probe that met a rate limit no longer counts as answered.
AliveUnlessAsked(s) == s \in {"ok", "rate_limited"}

\* Status.Alive.
Alive(s) == s \in {"ok", "unauthorized", "rate_limited"}

\* Mutant: what the blob hashed to is not looked at.
VerdictUnchecked(c, t, m, th, chk, ver) ==
  CASE ~Alive(c)                       -> c
    [] "rate_limited" \in {c, t, m, th} -> "rate_limited"
    [] OTHER -> IF m # "ok" THEN m ELSE th

\* Mutant: the layers are asked in order, throttling with the rest of them.
VerdictInOrder(c, t, m, th, chk, ver) ==
  CASE ~Alive(c)      -> c
    [] m # "ok"       -> m
    [] chk /\ ~ver    -> "failed"
    [] OTHER          -> th

\* verdict: is it answering, is it throttling, does it serve a manifest, are the
\* bytes right, and how did the transfer go, in this order.
Verdict(c, t, m, th, chk, ver) ==
  IF ~Alive(c) THEN c
  ELSE IF "rate_limited" \in {c, t, m, th} THEN "rate_limited"
  ELSE IF m # "ok" THEN m
  ELSE IF chk /\ ~ver THEN "failed"
  ELSE th

\* Result.Status, once the probe has returned.
status ==
  IF pc = "done" THEN Verdict(connect, token, manifest, throughput, checked, verified)
  ELSE Blank

\* No verdict is blank, whatever combination of layers was reached.
TypeOK ==
  /\ clock \in Nat
  /\ pc \in {"connect", "token", "fetch", "reauth", "body", "done"}
  /\ what \in {"manifest", "child", "blob"}
  /\ fresh \in BOOLEAN
  /\ connect \in Layers /\ token \in Layers
  /\ manifest \in Layers /\ throughput \in Layers
  /\ size \in Lengths \cup {0}
  /\ checked \in BOOLEAN /\ verified \in BOOLEAN
  /\ read \in 0 .. MaxBlob
  /\ sent \in Nat
  /\ seen \subseteq Marks
  /\ served \in {"nothing", "whole", "part", "other"}
  /\ begun \in Nat
  /\ pc = "done" => status \in Statuses

Finish ==
  /\ pc' = "done"
  /\ UNCHANGED <<what, fresh, sent, begun>>

Mark(m) == seen' = seen \cup {m}

\* A first request for a document.
Ask(doc) ==
  /\ pc' = "fetch"
  /\ what' = doc
  /\ fresh' = TRUE
  /\ sent' = sent + 1
  /\ begun' = IF what = "manifest" /\ doc # "manifest" THEN clock ELSE begun

\* Mutant: one deadline for all four layers.
DeadlineShared == Timeout

\* The deadline of probeCtx or of blobCtx, both set when the probe begins.
Deadline == IF what = "manifest" THEN Timeout ELSE BlobTimeout

InBudget == clock < Deadline

\* The mark of a layer 4 that its budget cut.
CutShort == IF InBudget \/ what = "manifest" THEN {} ELSE {"timeout"}

-----------------------------------------------------------------------------
(* Layers 1 and 2.                                                         *)

\* checkConnectivity: no answer, an answer, or a challenge.  A usable challenge
\* is followed; with none, or one that realmVerdict refuses, layer 2 is skipped.
\* A mirror that is not alive, or throttles, is asked nothing more.
AnswerConnect ==
  /\ pc = "connect"
  /\ connect' \in (IF InBudget THEN Statuses \ {"skipped"} ELSE {"unreachable"})
  /\ \/ /\ ~Alive(connect')
        /\ Finish
        /\ Mark(IF connect' = "unreachable" THEN "unanswered" ELSE "wrong")
        /\ UNCHANGED token
     \/ /\ connect' = "rate_limited"
        /\ Finish
        /\ Mark("limited")
        /\ UNCHANGED token
     \/ /\ Alive(connect') /\ connect' # "rate_limited"
        /\ token' = "skipped"
        /\ Ask("manifest")
        /\ UNCHANGED seen
     \/ /\ connect' = "ok"
        /\ pc' = "token"
        /\ sent' = sent + 1
        /\ UNCHANGED <<what, fresh, token, seen, begun>>
  /\ UNCHANGED <<clock, manifest, throughput, blob>>

\* fetchToken; past its budget the request goes unanswered, or its body unread.
TokenAnswers == IF InBudget THEN Statuses ELSE {"unreachable", "failed"}

\* Mutant: a throttled token layer does not end the probe.
AnswerTokenRegardless ==
  /\ pc = "token"
  /\ \E s \in TokenAnswers :
       /\ token' = s
       /\ Ask("manifest")
       /\ IF s = "rate_limited" THEN Mark("limited") ELSE UNCHANGED seen
  /\ UNCHANGED <<clock, connect, manifest, throughput, blob>>

\* Only throttling ends the probe: without a token the manifest may still come.
AnswerToken ==
  /\ pc = "token"
  /\ \E s \in TokenAnswers :
       /\ token' = s
       /\ IF s = "rate_limited" THEN Finish /\ Mark("limited")
          ELSE Ask("manifest") /\ UNCHANGED seen
  /\ UNCHANGED <<clock, connect, manifest, throughput, blob>>

-----------------------------------------------------------------------------
(* Layers 3 and 4.                                                         *)

\* The end of a probe in layer 3 or 4, with status s.  A child manifest that does
\* not come leaves pickBlob without a blob, and layer 4 skipped.
Over(s) ==
  /\ manifest' = IF what = "manifest" THEN s ELSE manifest
  /\ throughput' = IF what = "manifest" THEN throughput
                   ELSE IF what = "child" THEN "skipped" ELSE s
  /\ Finish

NotServed(s, m) == Over(s) /\ Mark(m)

\* No answer to the request: a broken connection, or a budget that has run out.
Unanswered ==
  /\ pc = "fetch"
  /\ Over("unreachable")
  /\ seen' = seen \cup {"unanswered"} \cup CutShort
  /\ UNCHANGED <<clock, connect, token, blob>>

\* An answer that is not 200 and offers no way on (manifestHTTPFailure).
Rejected ==
  /\ pc = "fetch"
  /\ InBudget
  /\ \/ NotServed("unauthorized", "refused")
     \/ NotServed("rate_limited", "limited")
     \/ NotServed("failed", "wrong")
  /\ UNCHANGED <<clock, connect, token, blob>>

\* Mutant: a challenge is followed however often the mirror repeats it.
ChallengedAgain ==
  /\ pc = "fetch"
  /\ InBudget
  /\ pc' = "reauth"
  /\ sent' = sent + 1
  /\ UNCHANGED <<clock, what, fresh, layers, blob, seen, begun>>

\* A 401 or 403 with a usable realm, the first time.
Challenged ==
  /\ pc = "fetch"
  /\ InBudget
  /\ fresh
  /\ pc' = "reauth"
  /\ sent' = sent + 1
  /\ UNCHANGED <<clock, what, fresh, layers, blob, seen, begun>>

\* reauth: with a token the document is asked for once more, where the redirect
\* had led; without one the refusal stands, whatever the token request met.
Reauth ==
  /\ pc = "reauth"
  /\ \E s \in TokenAnswers :
       IF s = "ok"
         THEN /\ pc' = "fetch"
              /\ fresh' = FALSE
              /\ sent' = sent + 1
              /\ UNCHANGED <<what, manifest, throughput, seen, begun>>
         ELSE /\ Over("unauthorized")
              /\ seen' = seen \cup {"refused"} \cup CutShort \cup
                         (IF s = "rate_limited" THEN {"limited"} ELSE {})
  /\ UNCHANGED <<clock, connect, token, blob>>

Answered ==
  /\ pc = "fetch"
  /\ InBudget
  /\ pc' = "body"
  /\ UNCHANGED <<clock, what, fresh, layers, blob, sent, seen, begun>>

\* The manifest's body breaks off, or is not what its header declares.
BadDocument ==
  /\ pc = "body"
  /\ what # "blob"
  /\ Over("failed")
  /\ seen' = seen \cup {"wrong"} \cup CutShort
  /\ UNCHANGED <<clock, connect, token, blob>>

GoodDocument ==
  /\ pc = "body"
  /\ what # "blob"
  /\ InBudget
  /\ manifest' = "ok"

\* An index: selectPlatform names a child, which pickBlob fetches.
Index ==
  /\ GoodDocument
  /\ what = "manifest"
  /\ Ask("child")
  /\ UNCHANGED <<clock, connect, token, throughput, blob, seen>>

\* A manifest with layers: the largest is asked for.
Image ==
  /\ GoodDocument
  /\ Ask("blob")
  /\ size' \in Lengths
  /\ UNCHANGED <<clock, connect, token, throughput, checked, verified, read, served, seen>>

\* No layer, no platform of ours, or a descriptor without a digest.
NoBlob ==
  /\ GoodDocument
  /\ throughput' \in {"skipped", "failed"}
  /\ Finish
  /\ Mark("noblob")
  /\ UNCHANGED <<clock, connect, token, blob>>

AtMost(n) == IF n < MaxBlob THEN n ELSE MaxBlob

\* Mutant: a read that was capped is checked like any other.
AlwaysComplete(n) == TRUE

\* "complete" of fetchBlob, by what the manifest says.
Complete(n) == n >= size

\* The blob is len long.  The mirror sends n bytes of it, or of something else;
\* then the body ends, or, short of the cap, breaks off or runs out of time.
\* The hash is right when exactly the blob has been read.
Transfer ==
  /\ pc = "body"
  /\ what = "blob"
  /\ \E len, n \in Lengths, right, broken \in BOOLEAN :
       /\ right => n <= len
       /\ broken => n < MaxBlob
       /\ ~InBudget => broken
       /\ read' = AtMost(n)
       /\ checked' = Complete(read')
       /\ verified' = (checked' /\ right /\ read' = len)
       /\ throughput' = IF broken THEN "failed" ELSE "ok"
       /\ served' = IF ~right THEN "other"
                    ELSE IF n = len /\ ~broken THEN "whole" ELSE "part"
       /\ seen' = seen \cup CutShort \cup (IF len = size THEN {} ELSE {"wrong"})
  /\ Finish
  /\ UNCHANGED <<clock, connect, token, manifest, size>>

Wait ==
  /\ pc # "done"
  /\ InBudget
  /\ clock' = clock + 1
  /\ UNCHANGED <<pc, what, fresh, layers, blob, sent, seen, begun>>

-----------------------------------------------------------------------------
Step ==
  \/ AnswerConnect \/ AnswerToken \/ Unanswered \/ Rejected \/ Challenged
  \/ Reauth \/ Answered \/ BadDocument \/ Index \/ Image \/ NoBlob \/ Transfer

Next == Step \/ Wait

Spec == Init /\ [][Next]_vars

\* Mutant: the context of layer 4 never ends a request.
ExpireAnswering == Step /\ ~InBudget /\ what = "manifest"

\* A context that has ended ends the request made under it.
Expire == Step /\ ~InBudget

\* Time passes and contexts end.  Nothing is asked of the mirror.
Fairness == WF_vars(Wait) /\ WF_vars(Expire)

FairSpec == Spec /\ Fairness

-----------------------------------------------------------------------------
(* Properties.                                                             *)

Done == pc = "done"

\* A mirror that serves what it was asked for is "ok", with or without a token
\* layer, across redirects that ask for another token, and whether or not its
\* blob is cut by our own cap ("the shortage was ours", types.go).
ServingIsOk == Done /\ seen = {} /\ served \in {"nothing", "whole"} => status = "ok"

\* "ok" is earned: every document came, nothing was refused or throttled on the
\* way, and where the bytes could be checked they are the blob's, all of them.
OkIsEarned ==
  status = "ok" => /\ seen \subseteq {"wrong"}
                   /\ served # "nothing"
                   /\ checked => served = "whole"

\* A verdict other than "ok" says what happened: no answer, a refusal of the
\* image itself and not of /v2/, throttling, or something wrong.
BlameFits ==
  /\ status = "unreachable"  => "unanswered" \in seen
  /\ status = "unauthorized" => "refused" \in seen
  /\ status = "rate_limited" => "limited" \in seen
  /\ status = "skipped"      => seen # {}
  /\ status = "failed"       => seen # {} \/ served # "whole"

\* "Being told to back off and pressing on anyway is how a client earns a ban":
\* after a 429, of whatever request, the probe sends nothing more.
BacksOff == [][seen \cap {"limited"} # {} => sent' = sent]_vars

\* A mirror that challenges for ever gets no loop: one request for /v2/, one for
\* a token, and three for each of the manifest, the child and the blob.
RequestsBounded == sent <= 11

\* "The clock, not the mirror" decides layer 4 only of a mirror that had more time
\* for it than BlobTimeout - Timeout: whatever the first three layers took, and with
\* a child manifest and new challenges on the way.  It is what two deadlines that
\* both run from the start can give, and less than a budget of its own.
TransferKeepsTime == "timeout" \in seen => clock - begun > BlobTimeout - Timeout

\* A probe returns, even from a mirror that never answers.
Returns == <>Done

\* "ok" means that the whole blob was read, or as much of it as the cap allows.
OkMeansWholeSample == status = "ok" => served = "whole" \/ read = MaxBlob
=============================================================================
