---------------------------- MODULE ProberProofs ----------------------------
(***************************************************************************)
(* Theorems about Prober, for any budgets, cap and lengths.                *)
(***************************************************************************)
EXTENDS Prober, TLAPS

\* A probe under way: nothing was held against the mirror, and no later layer
\* has been reached.
UnderWay ==
  pc # "done" => seen = {} /\ throughput = Blank /\ ~checked /\ served = "nothing"

LayersSoFar ==
  /\ pc = "connect" => what = "manifest" /\ token = Blank /\ manifest = Blank
  /\ pc = "token" => connect = "ok" /\ what = "manifest" /\ manifest = Blank
  /\ pc \in {"fetch", "reauth", "body"} =>
       /\ connect \in {"ok", "unauthorized"}
       /\ token \in Statuses \ {"rate_limited"}
       /\ manifest = IF what = "manifest" THEN Blank ELSE "ok"

\* Requests sent before the one for a document, when every earlier one was
\* challenged, and its own so far.
Before == IF what = "manifest" THEN 2 ELSE IF what = "child" THEN 5 ELSE 8

Counted ==
  /\ pc = "connect" => sent <= 1
  /\ pc = "token" => sent <= 2
  /\ pc \in {"fetch", "body"} => sent <= Before + (IF fresh THEN 1 ELSE 3)
  /\ pc = "reauth" => sent <= Before + 2
  /\ pc = "done" => sent <= 11

IInv ==
  /\ TypeOK
  /\ UnderWay
  /\ LayersSoFar
  /\ Counted
  /\ ServingIsOk
  /\ OkIsEarned
  /\ BlameFits

\* TypeOK in parts.
TypedLayers ==
  /\ connect \in Layers /\ token \in Layers
  /\ manifest \in Layers /\ throughput \in Layers

TypedBlob ==
  /\ size \in Lengths \cup {0}
  /\ read \in 0 .. MaxBlob
  /\ served \in {"nothing", "whole", "part", "other"}

TypedControl ==
  /\ clock \in Nat
  /\ pc \in {"connect", "token", "fetch", "reauth", "body", "done"}
  /\ what \in {"manifest", "child", "blob"}
  /\ sent \in Nat
  /\ begun \in Nat

TypedFlags == fresh \in BOOLEAN /\ checked \in BOOLEAN /\ verified \in BOOLEAN

Typed == TypedLayers /\ TypedBlob /\ TypedControl /\ TypedFlags

LEMMA TypeIsTyped ==
  TypeOK <=> Typed /\ seen \subseteq Marks /\ (pc = "done" => status \in Statuses)
BY DEF TypeOK, Typed, TypedLayers, TypedBlob, TypedControl, TypedFlags

LEMMA InitInv == Init => IInv
<1>. SUFFICES ASSUME Init PROVE IInv
  OBVIOUS
<1>0. seen \subseteq Marks
  BY DEF Init
<1>1. Typed
  <2>1. TypedLayers
    BY DEF Init, TypedLayers, Layers, Blank
  <2>2. TypedBlob
    BY BudgetAssumption DEF Init, TypedBlob
  <2>3. TypedControl
    BY DEF Init, TypedControl
  <2>4. TypedFlags
    BY DEF Init, TypedFlags
  <2>. QED BY <2>1, <2>2, <2>3, <2>4 DEF Typed
<1>2. UnderWay /\ LayersSoFar /\ Counted
  BY DEF Init, UnderWay, LayersSoFar, Counted
<1>3. status = Blank /\ ~Done /\ pc # "done"
  BY DEF Init, status, Done
<1>4. ServingIsOk /\ OkIsEarned /\ BlameFits
  BY <1>3 DEF ServingIsOk, OkIsEarned, BlameFits, Blank
<1>. QED BY <1>0, <1>1, <1>2, <1>3, <1>4 DEF IInv, TypeOK, Typed, TypedLayers, TypedBlob,
      TypedControl, TypedFlags

LEMMA StepInv == IInv /\ Step => IInv'
<1>. SUFFICES ASSUME IInv, Step PROVE IInv'
  OBVIOUS
<1>0. Typed /\ seen \subseteq Marks /\ UnderWay /\ LayersSoFar /\ Counted
  BY TypeIsTyped DEF IInv
<1>. USE <1>0
<1>1. CASE AnswerConnect
  <2>0. seen' \subseteq Marks
    BY <1>1 DEF AnswerConnect, Finish, Ask, Mark, blob, Typed, TypedControl, Marks, UnderWay
  <2>1. Typed'
    <3>1. TypedLayers'
      BY <1>1 DEF AnswerConnect, Finish, Ask, Mark, blob, Typed, TypedLayers, Layers,
         Statuses, Blank
    <3>2. TypedBlob'
      BY <1>1 DEF AnswerConnect, Finish, Ask, Mark, blob, Typed, TypedBlob
    <3>3. TypedControl'
      BY <1>1 DEF AnswerConnect, Finish, Ask, Mark, blob, Typed, TypedControl
    <3>4. TypedFlags'
      BY <1>1 DEF AnswerConnect, Finish, Ask, Mark, blob, Typed, TypedFlags
    <3>. QED BY <3>1, <3>2, <3>3, <3>4 DEF Typed
  <2>2. UnderWay' /\ LayersSoFar' /\ Counted'
    BY <1>1 DEF AnswerConnect, Finish, Ask, Mark, blob, Typed, TypedLayers, TypedControl,
       UnderWay, LayersSoFar, Counted, Before, Statuses, Blank, Alive
  <2>3. (pc = "done" => status \in Statuses)' /\ ServingIsOk' /\ OkIsEarned' /\ BlameFits'
    BY <1>1, <2>1 DEF AnswerConnect, Finish, Ask, Mark, blob, Typed, TypedLayers, TypedBlob,
       TypedControl, TypedFlags, Layers, Statuses, Blank, UnderWay, LayersSoFar,
       ServingIsOk, OkIsEarned, BlameFits, Done, status, Verdict, Alive
  <2>. QED BY <2>0, <2>1, <2>2, <2>3 DEF IInv, TypeOK, Typed, TypedLayers, TypedBlob,
        TypedControl, TypedFlags
<1>2. CASE AnswerToken
  <2>0. seen' \subseteq Marks
    BY <1>2 DEF AnswerToken, TokenAnswers, Finish, Ask, Mark, blob, Typed, TypedControl,
       Marks, UnderWay
  <2>1. Typed'
    <3>1. TypedLayers'
      BY <1>2 DEF AnswerToken, TokenAnswers, Finish, Ask, Mark, blob, Typed, TypedLayers,
         Layers, Statuses, Blank
    <3>2. TypedBlob'
      BY <1>2 DEF AnswerToken, TokenAnswers, Finish, Ask, Mark, blob, Typed, TypedBlob
    <3>3. TypedControl'
      BY <1>2 DEF AnswerToken, TokenAnswers, Finish, Ask, Mark, blob, Typed, TypedControl
    <3>4. TypedFlags'
      BY <1>2 DEF AnswerToken, TokenAnswers, Finish, Ask, Mark, blob, Typed, TypedFlags
    <3>. QED BY <3>1, <3>2, <3>3, <3>4 DEF Typed
  <2>2. UnderWay' /\ LayersSoFar' /\ Counted'
    BY <1>2 DEF AnswerToken, TokenAnswers, Finish, Ask, Mark, blob, Typed, TypedLayers,
       TypedControl, UnderWay, LayersSoFar, Counted, Before, Statuses, Blank, Alive
  <2>3. (pc = "done" => status \in Statuses)' /\ ServingIsOk' /\ OkIsEarned' /\ BlameFits'
    BY <1>2, <2>1 DEF AnswerToken, TokenAnswers, Finish, Ask, Mark, blob, Typed,
       TypedLayers, TypedBlob, TypedControl, TypedFlags, Layers, Statuses, Blank, UnderWay,
       LayersSoFar,
       ServingIsOk, OkIsEarned, BlameFits, Done, status, Verdict, Alive
  <2>. QED BY <2>0, <2>1, <2>2, <2>3 DEF IInv, TypeOK, Typed, TypedLayers, TypedBlob,
        TypedControl, TypedFlags
<1>3. CASE Unanswered
  <2>0. seen' \subseteq Marks
    BY <1>3 DEF Unanswered, CutShort, Over, Finish, blob, Typed, TypedControl, Marks, UnderWay
  <2>1. Typed'
    <3>1. TypedLayers'
      BY <1>3 DEF Unanswered, CutShort, Over, Finish, blob, Typed, TypedLayers, Layers, Statuses,
         Blank
    <3>2. TypedBlob'
      BY <1>3 DEF Unanswered, CutShort, Over, Finish, blob, Typed, TypedBlob
    <3>3. TypedControl'
      BY <1>3 DEF Unanswered, CutShort, Over, Finish, blob, Typed, TypedControl
    <3>4. TypedFlags'
      BY <1>3 DEF Unanswered, CutShort, Over, Finish, blob, Typed, TypedFlags
    <3>. QED BY <3>1, <3>2, <3>3, <3>4 DEF Typed
  <2>2. UnderWay' /\ LayersSoFar' /\ Counted'
    BY <1>3 DEF Unanswered, CutShort, Over, Finish, blob, Typed, TypedLayers, TypedControl, UnderWay,
       LayersSoFar, Counted, Before, Statuses, Blank, Alive
  <2>3. (pc = "done" => status \in Statuses)' /\ ServingIsOk' /\ OkIsEarned' /\ BlameFits'
    BY <1>3, <2>1 DEF Unanswered, CutShort, Over, Finish, blob, Typed, TypedLayers, TypedBlob,
       TypedControl, TypedFlags, Layers, Statuses, Blank, UnderWay, LayersSoFar,
       ServingIsOk, OkIsEarned, BlameFits, Done, status, Verdict, Alive
  <2>. QED BY <2>0, <2>1, <2>2, <2>3 DEF IInv, TypeOK, Typed, TypedLayers, TypedBlob,
        TypedControl, TypedFlags
<1>4. CASE Rejected
  <2>0. seen' \subseteq Marks
    BY <1>4 DEF Rejected, NotServed, Over, Finish, Mark, blob, Typed, TypedControl, Marks,
       UnderWay
  <2>1. Typed'
    <3>1. TypedLayers'
      BY <1>4 DEF Rejected, NotServed, Over, Finish, Mark, blob, Typed, TypedLayers, Layers,
         Statuses, Blank
    <3>2. TypedBlob'
      BY <1>4 DEF Rejected, NotServed, Over, Finish, Mark, blob, Typed, TypedBlob
    <3>3. TypedControl'
      BY <1>4 DEF Rejected, NotServed, Over, Finish, Mark, blob, Typed, TypedControl
    <3>4. TypedFlags'
      BY <1>4 DEF Rejected, NotServed, Over, Finish, Mark, blob, Typed, TypedFlags
    <3>. QED BY <3>1, <3>2, <3>3, <3>4 DEF Typed
  <2>2. UnderWay' /\ LayersSoFar' /\ Counted'
    BY <1>4 DEF Rejected, NotServed, Over, Finish, Mark, blob, Typed, TypedLayers,
       TypedControl, UnderWay, LayersSoFar, Counted, Before, Statuses, Blank, Alive
  <2>3. (pc = "done" => status \in Statuses)' /\ ServingIsOk' /\ OkIsEarned' /\ BlameFits'
    BY <1>4, <2>1 DEF Rejected, NotServed, Over, Finish, Mark, blob, Typed, TypedLayers,
       TypedBlob, TypedControl, TypedFlags, Layers, Statuses, Blank, UnderWay, LayersSoFar,
       ServingIsOk, OkIsEarned, BlameFits, Done, status, Verdict, Alive
  <2>. QED BY <2>0, <2>1, <2>2, <2>3 DEF IInv, TypeOK, Typed, TypedLayers, TypedBlob,
        TypedControl, TypedFlags
<1>5. CASE Challenged
  <2>0. seen' \subseteq Marks
    BY <1>5 DEF Challenged, layers, blob, Typed, TypedControl, Marks, UnderWay
  <2>1. Typed'
    <3>1. TypedLayers'
      BY <1>5 DEF Challenged, layers, blob, Typed, TypedLayers, Layers, Statuses, Blank
    <3>2. TypedBlob'
      BY <1>5 DEF Challenged, layers, blob, Typed, TypedBlob
    <3>3. TypedControl'
      BY <1>5 DEF Challenged, layers, blob, Typed, TypedControl
    <3>4. TypedFlags'
      BY <1>5 DEF Challenged, layers, blob, Typed, TypedFlags
    <3>. QED BY <3>1, <3>2, <3>3, <3>4 DEF Typed
  <2>2. UnderWay' /\ LayersSoFar' /\ Counted'
    BY <1>5 DEF Challenged, layers, blob, Typed, TypedLayers, TypedControl, UnderWay,
       LayersSoFar, Counted, Before, Statuses, Blank, Alive
  <2>3. (pc = "done" => status \in Statuses)' /\ ServingIsOk' /\ OkIsEarned' /\ BlameFits'
    BY <1>5, <2>1 DEF Challenged, layers, blob, Typed, TypedLayers, TypedBlob, TypedControl,
       TypedFlags, Layers, Statuses, Blank, UnderWay, LayersSoFar,
       ServingIsOk, OkIsEarned, BlameFits, Done, status, Verdict, Alive
  <2>. QED BY <2>0, <2>1, <2>2, <2>3 DEF IInv, TypeOK, Typed, TypedLayers, TypedBlob,
        TypedControl, TypedFlags
<1>6. CASE Reauth
  <2>0. seen' \subseteq Marks
    BY <1>6 DEF Reauth, CutShort, TokenAnswers, Over, Finish, blob, Typed, TypedControl, Marks,
       UnderWay
  <2>1. Typed'
    <3>1. TypedLayers'
      BY <1>6 DEF Reauth, CutShort, TokenAnswers, Over, Finish, blob, Typed, TypedLayers, Layers,
         Statuses, Blank
    <3>2. TypedBlob'
      BY <1>6 DEF Reauth, CutShort, TokenAnswers, Over, Finish, blob, Typed, TypedBlob
    <3>3. TypedControl'
      BY <1>6 DEF Reauth, CutShort, TokenAnswers, Over, Finish, blob, Typed, TypedControl
    <3>4. TypedFlags'
      BY <1>6 DEF Reauth, CutShort, TokenAnswers, Over, Finish, blob, Typed, TypedFlags
    <3>. QED BY <3>1, <3>2, <3>3, <3>4 DEF Typed
  <2>2. UnderWay' /\ LayersSoFar' /\ Counted'
    BY <1>6 DEF Reauth, CutShort, TokenAnswers, Over, Finish, blob, Typed, TypedLayers, TypedControl,
       UnderWay, LayersSoFar, Counted, Before, Statuses, Blank, Alive
  <2>3. (pc = "done" => status \in Statuses)' /\ ServingIsOk' /\ OkIsEarned' /\ BlameFits'
    BY <1>6, <2>1 DEF Reauth, CutShort, TokenAnswers, Over, Finish, blob, Typed, TypedLayers,
       TypedBlob, TypedControl, TypedFlags, Layers, Statuses, Blank, UnderWay, LayersSoFar,
       ServingIsOk, OkIsEarned, BlameFits, Done, status, Verdict, Alive
  <2>. QED BY <2>0, <2>1, <2>2, <2>3 DEF IInv, TypeOK, Typed, TypedLayers, TypedBlob,
        TypedControl, TypedFlags
<1>7. CASE Answered
  <2>0. seen' \subseteq Marks
    BY <1>7 DEF Answered, layers, blob, Typed, TypedControl, Marks, UnderWay
  <2>1. Typed'
    <3>1. TypedLayers'
      BY <1>7 DEF Answered, layers, blob, Typed, TypedLayers, Layers, Statuses, Blank
    <3>2. TypedBlob'
      BY <1>7 DEF Answered, layers, blob, Typed, TypedBlob
    <3>3. TypedControl'
      BY <1>7 DEF Answered, layers, blob, Typed, TypedControl
    <3>4. TypedFlags'
      BY <1>7 DEF Answered, layers, blob, Typed, TypedFlags
    <3>. QED BY <3>1, <3>2, <3>3, <3>4 DEF Typed
  <2>2. UnderWay' /\ LayersSoFar' /\ Counted'
    BY <1>7 DEF Answered, layers, blob, Typed, TypedLayers, TypedControl, UnderWay,
       LayersSoFar, Counted, Before, Statuses, Blank, Alive
  <2>3. (pc = "done" => status \in Statuses)' /\ ServingIsOk' /\ OkIsEarned' /\ BlameFits'
    BY <1>7, <2>1 DEF Answered, layers, blob, Typed, TypedLayers, TypedBlob, TypedControl,
       TypedFlags, Layers, Statuses, Blank, UnderWay, LayersSoFar,
       ServingIsOk, OkIsEarned, BlameFits, Done, status, Verdict, Alive
  <2>. QED BY <2>0, <2>1, <2>2, <2>3 DEF IInv, TypeOK, Typed, TypedLayers, TypedBlob,
        TypedControl, TypedFlags
<1>8. CASE BadDocument
  <2>0. seen' \subseteq Marks
    BY <1>8 DEF BadDocument, CutShort, Over, Finish, blob, Typed, TypedControl, Marks, UnderWay
  <2>1. Typed'
    <3>1. TypedLayers'
      BY <1>8 DEF BadDocument, CutShort, Over, Finish, blob, Typed, TypedLayers, Layers, Statuses,
         Blank
    <3>2. TypedBlob'
      BY <1>8 DEF BadDocument, CutShort, Over, Finish, blob, Typed, TypedBlob
    <3>3. TypedControl'
      BY <1>8 DEF BadDocument, CutShort, Over, Finish, blob, Typed, TypedControl
    <3>4. TypedFlags'
      BY <1>8 DEF BadDocument, CutShort, Over, Finish, blob, Typed, TypedFlags
    <3>. QED BY <3>1, <3>2, <3>3, <3>4 DEF Typed
  <2>2. UnderWay' /\ LayersSoFar' /\ Counted'
    BY <1>8 DEF BadDocument, CutShort, Over, Finish, blob, Typed, TypedLayers, TypedControl, UnderWay,
       LayersSoFar, Counted, Before, Statuses, Blank, Alive
  <2>3. (pc = "done" => status \in Statuses)' /\ ServingIsOk' /\ OkIsEarned' /\ BlameFits'
    BY <1>8, <2>1 DEF BadDocument, CutShort, Over, Finish, blob, Typed, TypedLayers, TypedBlob,
       TypedControl, TypedFlags, Layers, Statuses, Blank, UnderWay, LayersSoFar,
       ServingIsOk, OkIsEarned, BlameFits, Done, status, Verdict, Alive
  <2>. QED BY <2>0, <2>1, <2>2, <2>3 DEF IInv, TypeOK, Typed, TypedLayers, TypedBlob,
        TypedControl, TypedFlags
<1>9. CASE Index
  <2>0. seen' \subseteq Marks
    BY <1>9 DEF Index, GoodDocument, Ask, blob, Typed, TypedControl, Marks, UnderWay
  <2>1. Typed'
    <3>1. TypedLayers'
      BY <1>9 DEF Index, GoodDocument, Ask, blob, Typed, TypedLayers, Layers, Statuses,
         Blank
    <3>2. TypedBlob'
      BY <1>9 DEF Index, GoodDocument, Ask, blob, Typed, TypedBlob
    <3>3. TypedControl'
      BY <1>9 DEF Index, GoodDocument, Ask, blob, Typed, TypedControl
    <3>4. TypedFlags'
      BY <1>9 DEF Index, GoodDocument, Ask, blob, Typed, TypedFlags
    <3>. QED BY <3>1, <3>2, <3>3, <3>4 DEF Typed
  <2>2. UnderWay' /\ LayersSoFar' /\ Counted'
    BY <1>9 DEF Index, GoodDocument, Ask, blob, Typed, TypedLayers, TypedControl, UnderWay,
       LayersSoFar, Counted, Before, Statuses, Blank, Alive
  <2>3. (pc = "done" => status \in Statuses)' /\ ServingIsOk' /\ OkIsEarned' /\ BlameFits'
    BY <1>9, <2>1 DEF Index, GoodDocument, Ask, blob, Typed, TypedLayers, TypedBlob,
       TypedControl, TypedFlags, Layers, Statuses, Blank, UnderWay, LayersSoFar,
       ServingIsOk, OkIsEarned, BlameFits, Done, status, Verdict, Alive
  <2>. QED BY <2>0, <2>1, <2>2, <2>3 DEF IInv, TypeOK, Typed, TypedLayers, TypedBlob,
        TypedControl, TypedFlags
<1>10. CASE Image
  <2>0. seen' \subseteq Marks
    BY <1>10 DEF Image, GoodDocument, Ask, Typed, TypedControl, Marks, UnderWay
  <2>1. Typed'
    <3>1. TypedLayers'
      BY <1>10 DEF Image, GoodDocument, Ask, Typed, TypedLayers, Layers, Statuses, Blank
    <3>2. TypedBlob'
      BY <1>10 DEF Image, GoodDocument, Ask, Typed, TypedBlob
    <3>3. TypedControl'
      BY <1>10 DEF Image, GoodDocument, Ask, Typed, TypedControl
    <3>4. TypedFlags'
      BY <1>10 DEF Image, GoodDocument, Ask, Typed, TypedFlags
    <3>. QED BY <3>1, <3>2, <3>3, <3>4 DEF Typed
  <2>2. UnderWay' /\ LayersSoFar' /\ Counted'
    BY <1>10 DEF Image, GoodDocument, Ask, Typed, TypedLayers, TypedControl, UnderWay,
       LayersSoFar, Counted, Before, Statuses, Blank, Alive
  <2>3. (pc = "done" => status \in Statuses)' /\ ServingIsOk' /\ OkIsEarned' /\ BlameFits'
    BY <1>10, <2>1 DEF Image, GoodDocument, Ask, Typed, TypedLayers, TypedBlob,
       TypedControl, TypedFlags, Layers, Statuses, Blank, UnderWay, LayersSoFar,
       ServingIsOk, OkIsEarned, BlameFits, Done, status, Verdict, Alive
  <2>. QED BY <2>0, <2>1, <2>2, <2>3 DEF IInv, TypeOK, Typed, TypedLayers, TypedBlob,
        TypedControl, TypedFlags
<1>11. CASE NoBlob
  <2>0. seen' \subseteq Marks
    BY <1>11 DEF NoBlob, GoodDocument, Finish, Mark, blob, Typed, TypedControl, Marks,
       UnderWay
  <2>1. Typed'
    <3>1. TypedLayers'
      BY <1>11 DEF NoBlob, GoodDocument, Finish, Mark, blob, Typed, TypedLayers, Layers,
         Statuses, Blank
    <3>2. TypedBlob'
      BY <1>11 DEF NoBlob, GoodDocument, Finish, Mark, blob, Typed, TypedBlob
    <3>3. TypedControl'
      BY <1>11 DEF NoBlob, GoodDocument, Finish, Mark, blob, Typed, TypedControl
    <3>4. TypedFlags'
      BY <1>11 DEF NoBlob, GoodDocument, Finish, Mark, blob, Typed, TypedFlags
    <3>. QED BY <3>1, <3>2, <3>3, <3>4 DEF Typed
  <2>2. UnderWay' /\ LayersSoFar' /\ Counted'
    BY <1>11 DEF NoBlob, GoodDocument, Finish, Mark, blob, Typed, TypedLayers, TypedControl,
       UnderWay, LayersSoFar, Counted, Before, Statuses, Blank, Alive
  <2>3. (pc = "done" => status \in Statuses)' /\ ServingIsOk' /\ OkIsEarned' /\ BlameFits'
    BY <1>11, <2>1 DEF NoBlob, GoodDocument, Finish, Mark, blob, Typed, TypedLayers,
       TypedBlob, TypedControl, TypedFlags, Layers, Statuses, Blank, UnderWay, LayersSoFar,
       ServingIsOk, OkIsEarned, BlameFits, Done, status, Verdict, Alive
  <2>. QED BY <2>0, <2>1, <2>2, <2>3 DEF IInv, TypeOK, Typed, TypedLayers, TypedBlob,
        TypedControl, TypedFlags
<1>12. CASE Transfer
  <2>0. seen' \subseteq Marks
    BY <1>12 DEF Transfer, CutShort, Complete, Finish, AtMost, Typed, TypedControl, Marks, UnderWay
  <2>1. Typed'
    <3>1. TypedLayers'
      BY <1>12 DEF Transfer, CutShort, Complete, Finish, AtMost, Typed, TypedLayers, Layers, Statuses,
         Blank
    <3>2. TypedBlob'
      BY <1>12, BudgetAssumption, LengthAssumption DEF Transfer, CutShort, Complete, Finish, AtMost,
         Typed, TypedBlob
    <3>3. TypedControl'
      BY <1>12 DEF Transfer, CutShort, Complete, Finish, AtMost, Typed, TypedControl
    <3>4. TypedFlags'
      BY <1>12 DEF Transfer, CutShort, Complete, Finish, AtMost, Typed, TypedFlags
    <3>. QED BY <3>1, <3>2, <3>3, <3>4 DEF Typed
  <2>2. UnderWay' /\ LayersSoFar' /\ Counted'
    BY <1>12 DEF Transfer, CutShort, Complete, Finish, AtMost, Typed, TypedLayers, TypedControl,
       UnderWay, LayersSoFar, Counted, Before, Statuses, Blank, Alive
  <2>3. (pc = "done" => status \in Statuses)' /\ ServingIsOk' /\ OkIsEarned' /\ BlameFits'
    BY <1>12, <2>1 DEF Transfer, CutShort, Complete, Finish, AtMost, Typed, TypedLayers, TypedBlob,
       TypedControl, TypedFlags, Layers, Statuses, Blank, UnderWay, LayersSoFar,
       ServingIsOk, OkIsEarned, BlameFits, Done, status, Verdict, Alive
  <2>. QED BY <2>0, <2>1, <2>2, <2>3 DEF IInv, TypeOK, Typed, TypedLayers, TypedBlob,
        TypedControl, TypedFlags
<1>. QED BY <1>1, <1>2, <1>3, <1>4, <1>5, <1>6, <1>7, <1>8, <1>9, <1>10, <1>11, <1>12 DEF
      Step

LEMMA WaitInv == IInv /\ Wait => IInv'
<1>. SUFFICES ASSUME IInv, Wait PROVE IInv'
  OBVIOUS
<1>1. /\ UNCHANGED <<pc, what, fresh, connect, token, manifest, throughput, size,
                     checked, verified, read, served, sent, seen, begun>>
      /\ clock' = clock + 1
      /\ pc # "done"
  BY DEF Wait, layers, blob
<1>2. TypeOK'
  BY <1>1 DEF IInv, TypeOK, status
<1>3. UnderWay' /\ LayersSoFar' /\ Counted'
  BY <1>1 DEF IInv, UnderWay, LayersSoFar, Counted, Before
<1>4. status' = status /\ (Done' <=> Done)
  BY <1>1 DEF status, Done
<1>5. ServingIsOk' /\ OkIsEarned' /\ BlameFits'
  BY <1>1, <1>4 DEF IInv, ServingIsOk, OkIsEarned, BlameFits
<1>. QED BY <1>2, <1>3, <1>5 DEF IInv

LEMMA StutterInv == IInv /\ UNCHANGED vars => IInv'
<1>. SUFFICES ASSUME IInv, UNCHANGED vars PROVE IInv'
  OBVIOUS
<1>1. UNCHANGED <<clock, pc, what, fresh, connect, token, manifest, throughput, size,
                  checked, verified, read, served, sent, seen, begun>>
  BY DEF vars, layers, blob
<1>2. status' = status /\ (Done' <=> Done)
  BY <1>1 DEF status, Done
<1>3. TypeOK' /\ UnderWay' /\ LayersSoFar' /\ Counted'
  BY <1>1, <1>2 DEF IInv, TypeOK, UnderWay, LayersSoFar, Counted, Before
<1>4. ServingIsOk' /\ OkIsEarned' /\ BlameFits'
  BY <1>1, <1>2 DEF IInv, ServingIsOk, OkIsEarned, BlameFits
<1>. QED BY <1>3, <1>4 DEF IInv

LEMMA AlwaysInv == Spec => []IInv
<1>1. IInv /\ [Next]_vars => IInv'
  BY StepInv, WaitInv, StutterInv DEF Next
<1>. QED BY <1>1, InitInv, PTL DEF Spec

\* Every variable keeps its type, and a probe that has returned has a verdict:
\* whatever combination of layers was reached, it is not blank (verdict).
THEOREM TypeCorrect == Spec => []TypeOK
<1>1. IInv => TypeOK
  BY DEF IInv
<1>. QED BY <1>1, AlwaysInv, PTL

\* A mirror that serves what it is asked for is never called anything but "ok",
\* whatever the cap, the lengths and the budgets (fetchBlob, verdict).
THEOREM ServingMeansOk == Spec => []ServingIsOk
<1>1. IInv => ServingIsOk
  BY DEF IInv
<1>. QED BY <1>1, AlwaysInv, PTL

\* No "ok" without a blob, nor with bytes that were checked and are not the blob's
\* (fetchBlob, verdict).
THEOREM OkEarned == Spec => []OkIsEarned
<1>1. IInv => OkIsEarned
  BY DEF IInv
<1>. QED BY <1>1, AlwaysInv, PTL

\* Every other verdict names something that happened (verdict).
THEOREM BlameIsFitting == Spec => []BlameFits
<1>1. IInv => BlameFits
  BY DEF IInv
<1>. QED BY <1>1, AlwaysInv, PTL

\* At most eleven requests leave for a mirror, however often it challenges
\* (fetchManifestURL passes a nil reauth to its retry, fetchBlobAt takes none).
THEOREM FewRequests == Spec => []RequestsBounded
<1>1. IInv => RequestsBounded
  <2>. SUFFICES ASSUME IInv PROVE sent <= 11
    BY DEF RequestsBounded
  <2>. USE DEF IInv, TypeOK, Counted, Before
  <2>1. CASE pc \in {"connect", "token", "done"}
    BY <2>1
  <2>2. CASE pc \in {"fetch", "body", "reauth"}
    BY <2>2
  <2>. QED BY <2>1, <2>2
<1>. QED BY <1>1, AlwaysInv, PTL

\* After a 429 the probe is over, at whatever request it came (Probe, fetchToken,
\* manifestHTTPFailure, pickBlob, reauth).
THEOREM BackingOff == Spec => BacksOff
<1>1. IInv /\ [Next]_vars => (seen \cap {"limited"} # {} => sent' = sent)
  <2>. SUFFICES ASSUME IInv, [Next]_vars, seen \cap {"limited"} # {} PROVE sent' = sent
    OBVIOUS
  <2>1. pc = "done"
    BY DEF IInv, UnderWay
  <2>2. ~Next
    BY <2>1 DEF Next, Step, Wait, AnswerConnect, AnswerToken, Unanswered, Rejected,
       Challenged,
       Reauth, Answered, BadDocument, Index, Image, NoBlob, GoodDocument, Transfer
  <2>. QED BY <2>2 DEF vars
<1>. QED BY <1>1, AlwaysInv, PTL DEF BacksOff, Spec

\* Layer 4 begins before the budget of the first three is spent, and what its own
\* budget cuts, it cuts when that is spent.
BegunInBudget == what # "manifest" => begun < Timeout

CutAtDeadline == "timeout" \in seen => what # "manifest" /\ clock >= BlobTimeout

LEMMA InitCut == Init => BegunInBudget /\ CutAtDeadline
BY DEF Init, BegunInBudget, CutAtDeadline

LEMMA StepBegun == IInv /\ BegunInBudget /\ Step => BegunInBudget'
<1>. SUFFICES ASSUME IInv, BegunInBudget, Step PROVE BegunInBudget'
  OBVIOUS
<1>1. pc # "done" /\ what \in {"manifest", "child", "blob"}
  BY DEF IInv, TypeOK, Step, AnswerConnect, AnswerToken, Unanswered, Rejected,
     Challenged, Reauth, Answered, BadDocument, Index, Image, NoBlob, GoodDocument, Transfer
<1>2. CASE what' = what /\ begun' = begun
  BY <1>2 DEF BegunInBudget
<1>3. CASE Index \/ Image
  <2>1. InBudget /\ what # "blob"
    BY <1>3 DEF Index, Image, GoodDocument
  <2>2. begun' = IF what = "manifest" THEN clock ELSE begun
    BY <1>3 DEF Index, Image, Ask
  <2>. QED BY <2>1, <2>2 DEF BegunInBudget, InBudget, Deadline
<1>4. (what' = what /\ begun' = begun) \/ Index \/ Image
  BY DEF Step, AnswerConnect, AnswerToken, Unanswered, Rejected, Challenged, Reauth,
     Answered, BadDocument, NoBlob, Transfer, GoodDocument, NotServed, Over, Finish, Ask,
     LayersSoFar, IInv
<1>. QED BY <1>2, <1>3, <1>4

LEMMA StepCut == IInv /\ CutAtDeadline /\ Step => CutAtDeadline'
<1>. SUFFICES ASSUME IInv, CutAtDeadline, Step, "timeout" \in seen'
              PROVE  what' # "manifest" /\ clock' >= BlobTimeout
  BY DEF CutAtDeadline
<1>1. pc # "done" /\ clock' = clock
  BY DEF Step, AnswerConnect, AnswerToken, Unanswered, Rejected, Challenged, Reauth,
     Answered, BadDocument, Index, Image, NoBlob, GoodDocument, Transfer
<1>2. "timeout" \notin seen
  BY <1>1 DEF IInv, UnderWay
<1>3. Unanswered \/ Reauth \/ BadDocument \/ Transfer
  BY <1>2 DEF Step, AnswerConnect, AnswerToken, Rejected, Challenged, Answered, Index,
     Image, NoBlob, GoodDocument, NotServed, Mark
<1>4. "timeout" \in CutShort /\ what' = what
  BY <1>2, <1>3 DEF Unanswered, Reauth, BadDocument, Transfer, Over, Finish
<1>5. ~(clock < BlobTimeout) /\ what # "manifest"
  BY <1>4 DEF CutShort, InBudget, Deadline
<1>6. clock \in Nat /\ BlobTimeout \in Nat
  BY BudgetAssumption DEF IInv, TypeOK
<1>. QED BY <1>1, <1>4, <1>5, <1>6

LEMMA AlwaysCut == Spec => [](BegunInBudget /\ CutAtDeadline)
<1>1. IInv /\ BegunInBudget /\ CutAtDeadline /\ [Next]_vars
        => BegunInBudget' /\ CutAtDeadline'
  <2>. SUFFICES ASSUME IInv, BegunInBudget, CutAtDeadline, [Next]_vars
                PROVE  BegunInBudget' /\ CutAtDeadline'
    OBVIOUS
  <2>1. CASE Step
    BY <2>1, StepBegun, StepCut
  <2>2. CASE Wait
    <3>1. what' = what /\ begun' = begun /\ seen' = seen /\ pc # "done"
      BY <2>2 DEF Wait
    <3>2. seen = {}
      BY <3>1 DEF IInv, UnderWay
    <3>. QED BY <3>1, <3>2 DEF BegunInBudget, CutAtDeadline
  <2>3. CASE UNCHANGED vars
    BY <2>3 DEF vars, BegunInBudget, CutAtDeadline
  <2>. QED BY <2>1, <2>2, <2>3 DEF Next
<1>. QED BY <1>1, InitCut, AlwaysInv, PTL DEF Spec

\* The clock cuts only a layer 4 that had more than BlobTimeout - Timeout for itself,
\* for any two budgets: it begins inside the first and is cut at the end of the
\* second (Probe derives both contexts when the probe begins).
THEOREM TransfersKeepTime == Spec => []TransferKeepsTime
<1>1. IInv /\ BegunInBudget /\ CutAtDeadline => TransferKeepsTime
  <2>. SUFFICES ASSUME IInv, BegunInBudget, CutAtDeadline, "timeout" \in seen
                PROVE  clock - begun > BlobTimeout - Timeout
    BY DEF TransferKeepsTime
  <2>1. clock >= BlobTimeout /\ begun < Timeout
    BY DEF BegunInBudget, CutAtDeadline
  <2>2. clock \in Nat /\ begun \in Nat /\ BlobTimeout \in Nat /\ Timeout \in Nat
    BY BudgetAssumption DEF IInv, TypeOK
  <2>. QED BY <2>1, <2>2
<1>. QED BY <1>1, AlwaysInv, AlwaysCut, PTL

-----------------------------------------------------------------------------
(* Why a probe returns, without the scheduler.                             *)

\* The clock stops at the longer budget.
InTime == clock <= Timeout \/ clock <= BlobTimeout

LEMMA ClockStops == Spec => []InTime
<1>1. Init => InTime
  BY BudgetAssumption DEF Init, InTime
<1>2. IInv /\ InTime /\ [Next]_vars => InTime'
  <2>. SUFFICES ASSUME IInv, InTime, [Next]_vars PROVE InTime'
    OBVIOUS
  <2>1. CASE Wait
    <3>1. clock \in Nat
      BY DEF IInv, TypeOK
    <3>2. clock' = clock + 1 /\ (clock < Timeout \/ clock < BlobTimeout)
      BY <2>1 DEF Wait, InBudget, Deadline
    <3>3. Timeout \in Nat /\ BlobTimeout \in Nat
      BY BudgetAssumption
    <3>4. clock + 1 <= Timeout \/ clock + 1 <= BlobTimeout
      BY <3>1, <3>2, <3>3
    <3>. QED BY <3>2, <3>4 DEF InTime
  <2>2. CASE Step
    <3>1. clock' = clock
      BY <2>2 DEF Step, AnswerConnect, AnswerToken, Unanswered, Rejected, Challenged,
         Reauth, Answered, BadDocument, Index, Image, NoBlob, GoodDocument, Transfer
    <3>. QED BY <3>1 DEF InTime
  <2>3. CASE UNCHANGED vars
    BY <2>3 DEF vars, InTime
  <2>. QED BY <2>1, <2>2, <2>3 DEF Next
<1>. QED BY <1>1, <1>2, AlwaysInv, PTL DEF Spec

\* The answers a probe can still get: four for each document ahead (a refusal, a
\* token, an answer, a body), and those of the first two layers.
Documents == IF what = "manifest" THEN 8 ELSE IF what = "child" THEN 4 ELSE 0

Answers ==
  IF pc = "body" THEN 1
  ELSE IF pc = "reauth" THEN 3
  ELSE IF fresh THEN 4 ELSE 2

Ahead ==
  IF pc = "done" THEN 0
  ELSE IF pc = "connect" THEN 14
  ELSE IF pc = "token" THEN 13
  ELSE Documents + Answers

Longest == IF Timeout <= BlobTimeout THEN BlobTimeout ELSE Timeout

Left == Ahead + (Longest - clock)

\* A step takes from what is left, and that cannot go on for ever.
Shorter == Left \in Nat /\ Left' \in Nat /\ Left' < Left

LEMMA LeftTyped ==
  ASSUME IInv, InTime PROVE Ahead \in Nat /\ Longest - clock \in Nat /\ Left \in Nat
<1>1. Ahead \in Nat /\ Documents \in Nat
  BY DEF Ahead, Documents, Answers
<1>2. clock \in Nat /\ Longest \in Nat /\ clock <= Longest
  BY BudgetAssumption DEF IInv, TypeOK, InTime, Longest
<1>. QED BY <1>1, <1>2 DEF Left

\* Every answer is one fewer to come.
LEMMA StepAhead == ASSUME IInv, Step PROVE Ahead' < Ahead
<1>1. pc \in {"connect", "token", "fetch", "reauth", "body", "done"}
      /\ what \in {"manifest", "child", "blob"} /\ fresh \in BOOLEAN
  BY DEF IInv, TypeOK
<1>2. CASE pc = "connect"
  <2>1. pc' \in {"done", "token"} \/ (pc' = "fetch" /\ what' = "manifest" /\ fresh')
    BY <1>2 DEF Step, AnswerConnect, AnswerToken, Unanswered, Rejected, Challenged,
       Reauth, Answered, BadDocument, Index, Image, NoBlob, GoodDocument, Transfer,
       Finish, Ask
  <2>. QED BY <1>2, <2>1 DEF Ahead, Documents, Answers
<1>3. CASE pc = "token"
  <2>1. pc' = "done" \/ (pc' = "fetch" /\ what' = "manifest" /\ fresh')
    BY <1>3 DEF Step, AnswerConnect, AnswerToken, Unanswered, Rejected, Challenged,
       Reauth, Answered, BadDocument, Index, Image, NoBlob, GoodDocument, Transfer,
       Finish, Ask
  <2>. QED BY <1>3, <2>1 DEF Ahead, Documents, Answers
<1>4. CASE pc = "fetch"
  <2>1. \/ pc' = "done"
        \/ pc' = "body" /\ what' = what
        \/ pc' = "reauth" /\ what' = what /\ fresh
    BY <1>4 DEF Step, AnswerConnect, AnswerToken, Unanswered, Rejected, Challenged,
       Reauth, Answered, BadDocument, Index, Image, NoBlob, GoodDocument, Transfer,
       NotServed, Over, Finish
  <2>. QED BY <1>1, <1>4, <2>1 DEF Ahead, Documents, Answers
<1>5. CASE pc = "reauth"
  <2>1. pc' = "done" \/ (pc' = "fetch" /\ what' = what /\ ~fresh')
    BY <1>5 DEF Step, AnswerConnect, AnswerToken, Unanswered, Rejected, Challenged,
       Reauth, Answered, BadDocument, Index, Image, NoBlob, GoodDocument, Transfer,
       Over, Finish
  <2>. QED BY <1>1, <1>5, <2>1 DEF Ahead, Documents, Answers
<1>6. CASE pc = "body"
  <2>1. \/ pc' = "done"
        \/ pc' = "fetch" /\ what = "manifest" /\ what' = "child" /\ fresh'
        \/ pc' = "fetch" /\ what # "blob" /\ what' = "blob" /\ fresh'
    BY <1>6 DEF Step, AnswerConnect, AnswerToken, Unanswered, Rejected, Challenged,
       Reauth, Answered, BadDocument, Index, Image, NoBlob, GoodDocument, Transfer,
       Over, Finish, Ask
  <2>. QED BY <1>1, <1>6, <2>1 DEF Ahead, Documents, Answers
<1>7. pc # "done"
  BY DEF Step, AnswerConnect, AnswerToken, Unanswered, Rejected, Challenged,
     Reauth, Answered, BadDocument, Index, Image, NoBlob, GoodDocument, Transfer
<1>. QED BY <1>1, <1>2, <1>3, <1>4, <1>5, <1>6, <1>7

\* Whatever the mirror does, and however slowly, a probe takes at most 14 answers
\* and its longer budget: each step is one fewer of what is left, a natural number
\* (Probe; the two contexts, and the single retry of fetchManifestURL and fetchBlob).
THEOREM ProbesRunOut == Spec => [][Shorter]_vars
<1>1. ASSUME IInv, IInv', InTime, InTime', Next
      PROVE  Shorter
  <2>1. Ahead \in Nat /\ Longest - clock \in Nat /\ Left \in Nat /\ clock \in Nat
    BY <1>1, LeftTyped DEF IInv, TypeOK
  <2>2. (Ahead \in Nat /\ Longest - clock \in Nat /\ Left \in Nat)'
    BY <1>1, LeftTyped, PTL
  <2>3. CASE Step
    <3>1. clock' = clock
      BY <2>3 DEF Step, AnswerConnect, AnswerToken, Unanswered, Rejected, Challenged,
         Reauth, Answered, BadDocument, Index, Image, NoBlob, GoodDocument, Transfer
    <3>2. Ahead' < Ahead
      BY <1>1, <2>3, StepAhead
    <3>. QED BY <2>1, <2>2, <3>1, <3>2 DEF Left, Shorter
  <2>4. CASE Wait
    <3>1. clock' = clock + 1 /\ Ahead' = Ahead
      BY <2>4 DEF Wait, Ahead, Documents, Answers
    <3>2. Longest \in Nat /\ Longest' = Longest
      BY BudgetAssumption DEF Longest
    <3>. QED BY <2>1, <2>2, <3>1, <3>2 DEF Left, Shorter
  <2>. QED BY <1>1, <2>3, <2>4 DEF Next
<1>2. IInv /\ IInv' /\ InTime /\ InTime' /\ [Next]_vars =>
        [Shorter]_vars
  BY <1>1
<1>. QED BY <1>2, AlwaysInv, ClockStops, PTL DEF Spec
=============================================================================
