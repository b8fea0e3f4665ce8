--------------------------- MODULE AiLedgerProofs ---------------------------
(***************************************************************************)
(* Proofs about AiLedger, for every set of callers, questions, reviews and *)
(* prompt versions, every budget and every price: what a month may cost,   *)
(* what a day of checks may buy, that a text gets one verdict, and that a  *)
(* review shown was written under instructions that passed theirs.         *)
(*                                                                         *)
(* A first turn has one of three shapes, whichever run it belongs to: it   *)
(* sends a call, writes a free row, or condemns a fenced text. The lemma   *)
(* FirstTurns says so, and each invariant is then kept by every shape and  *)
(* by every way a call may return.                                         *)
(***************************************************************************)
EXTENDS AiLedger, FiniteSetTheorems, TLAPS

(***************************************************************************)
(* The shapes of a first turn                                              *)
(***************************************************************************)
Checking(c) == caller[c].ask = "prompt_validation"

\* What held when a call was sent, and what it asks for.
Sound(call) ==
  /\ call.ask \in Prose => call.about \in Reviews /\ Usable(call.prompt)
  /\ call.ask = "prompt_validation" =>
       /\ call.about \in Bodies /\ verdict[call.about] = "unvalidated"
       /\ ~CapReached
       /\ \A d \in Callers : ~Checking(d)

Sent(c, call) ==
  /\ caller[c] = Idle
  /\ call.paid = 0
  /\ Sound(call)
  /\ spent < Budget
  /\ caller' = [caller EXCEPT ![c] = call]
  /\ UNCHANGED <<runs, spent, kept, review, verdict>>

Noted(call, status, from) ==
  /\ status = "reused" =>
       call.ask \in {"findings", "dryrun"} /\ from \in Matching(call.ask, call.about)
  /\ Record(call, status, 0, 0, from)
  /\ UNCHANGED <<kept, review, verdict, caller>>

Condemned(b) ==
  /\ verdict[b] = "unvalidated"
  /\ \A d \in Callers : ~Checking(d)
  /\ Judged(b, "unsafe")
  /\ UNCHANGED <<runs, spent, kept, review, caller>>

Free == {"blocked", "capped", "reused"}

LEMMA ToIsCall ==
  ASSUME NEW ask \in Asks, NEW about \in Abouts, NEW prompt \in Bodies \cup {BuiltIn}
  PROVE  To(ask, about, prompt) \in Call
BY DEF To, Call

\* Nobody can edit the built-in text, so nothing gates it.
LEMMA BuiltInIsUsable == Usable(BuiltIn)
BY KindsAssumption DEF Usable, Gated, Bodies

LEMMA AskShapes ==
  ASSUME NEW c \in Callers, NEW call \in Call, Ask(c, call), caller[c] = Idle,
         call.paid = 0, Sound(call), UNCHANGED <<kept, review, verdict>>
  PROVE  Sent(c, call) \/ Noted(call, "capped", NoRun)
BY DEF Ask, Allowed, Refuse, Sent, Noted

LEMMA FirstTurns ==
  ASSUME TypeOK, NEW c \in Callers, Begin(c)
  PROVE  \/ \E call \in Call : Sent(c, call)
         \/ \E call \in Call, status \in Free, from \in Nat : Noted(call, status, from)
         \/ \E b \in Bodies : Condemned(b)
<1> DEFINE Shaped == \/ \E call \in Call : Sent(c, call)
                     \/ \E call \in Call, status \in Free, from \in Nat :
                          Noted(call, status, from)
                     \/ \E b \in Bodies : Condemned(b)
<1>0. NoRun \in Nat /\ "blocked" \in Free /\ "capped" \in Free /\ "reused" \in Free
  BY DEF NoRun, Free
<1>a. ASSUME NEW call \in Call, Ask(c, call), caller[c] = Idle, call.paid = 0, Sound(call),
             UNCHANGED <<kept, review, verdict>>
      PROVE  Shaped
  BY <1>a, <1>0, AskShapes
<1>1. ASSUME NEW kind \in {"findings", "dryrun"}, NEW q \in Questions, NEW force \in BOOLEAN,
             Analyse(c, kind, q, force)
      PROVE  Shaped
  <2> DEFINE call == To(kind, q, PromptFor[q])
  <2>1. call \in Call
    BY ToIsCall, KindsAssumption DEF Asks, Abouts
  <2>2. call.paid = 0 /\ call.ask = kind /\ call.about = q  BY DEF To
  <2>3. Sound(call)  BY <2>2 DEF Sound, Prose
  <2>4. CASE Refuse(call, "blocked")
    <3>1. Noted(call, "blocked", NoRun)  BY <1>1, <2>4 DEF Analyse, Refuse, Noted
    <3> QED  BY <3>1, <2>1, <1>0
  <2>5. ASSUME NEW i \in Matching(kind, q), Record(call, "reused", 0, 0, i), UNCHANGED caller
        PROVE  Shaped
    <3>1. i \in Nat  BY DEF Matching, AnyMatch, Runs, TypeOK
    <3>2. Noted(call, "reused", i)  BY <1>1, <2>5, <2>2 DEF Analyse, Noted
    <3> QED  BY <3>1, <3>2, <2>1, <1>0
  <2>6. CASE Ask(c, call)
    BY <1>1, <1>a, <2>1, <2>2, <2>3, <2>6 DEF Analyse, Ready
  <2> QED  BY <1>1, <2>4, <2>5, <2>6 DEF Analyse
<1>2. ASSUME NEW l \in Reviews, NEW force \in BOOLEAN, Narrate(c, l, force)
      PROVE  Shaped
  <2> DEFINE call == To("narrative", l, PromptFor[l])
  <2>1. call \in Call
    BY ToIsCall, KindsAssumption DEF Asks, Abouts
  <2>2. call.paid = 0 /\ call.ask = "narrative" /\ call.about = l /\ call.prompt = PromptFor[l]
    BY DEF To
  <2>3. CASE Refuse(call, "blocked")
    <3>1. Noted(call, "blocked", NoRun)  BY <1>2, <2>3 DEF Narrate, Refuse, Noted
    <3> QED  BY <3>1, <2>1, <1>0
  <2>4. CASE Usable(call.prompt) /\ Ask(c, call)
    <3>1. Sound(call)  BY <2>2, <2>4 DEF Sound
    <3> QED  BY <1>2, <1>a, <2>1, <2>2, <2>4, <3>1 DEF Narrate, Ready
  <2> QED  BY <1>2, <2>3, <2>4 DEF Narrate
<1>3. ASSUME NEW from \in Reviews, NEW to \in Reviews, NEW force \in BOOLEAN,
             Translate(c, from, to, force)
      PROVE  Shaped
  <2> DEFINE call == To("translation", to, BuiltIn)
  <2>1. call \in Call  BY ToIsCall DEF Asks, Abouts
  <2>2. call.paid = 0 /\ call.ask = "translation" /\ call.about = to /\ call.prompt = BuiltIn
    BY DEF To
  <2>3. Sound(call)  BY <2>2, BuiltInIsUsable DEF Sound
  <2> QED  BY <1>3, <1>a, <2>1, <2>2, <2>3 DEF Translate, Ready
<1>4. ASSUME NEW b \in Bodies, Validate(c, b)
      PROVE  Shaped
  <2> DEFINE call == To("prompt_validation", b, BuiltIn)
  <2>1. call \in Call  BY ToIsCall DEF Asks, Abouts
  <2>2. call.paid = 0 /\ call.ask = "prompt_validation" /\ call.about = b
    BY DEF To
  <2>3. CASE Refuse(call, "blocked") /\ UNCHANGED verdict
    <3>1. Noted(call, "blocked", NoRun)  BY <1>4, <2>3 DEF Validate, Refuse, Noted
    <3> QED  BY <3>1, <2>1, <1>0
  <2>4. CASE Judged(b, "unsafe") /\ UNCHANGED <<runs, spent, caller>>
    BY <1>4, <2>4 DEF Validate, CheckMayStart, Checking, Condemned
  <2>5. CASE ~CapReached /\ Ask(c, call) /\ UNCHANGED verdict
    <3>1. Sound(call)
      BY <1>4, <2>2, <2>5 DEF Sound, Validate, CheckMayStart, Checking, Prose
    <3> QED  BY <1>4, <1>a, <2>1, <2>2, <2>5, <3>1 DEF Validate, Ready
  <2> QED  BY <1>4, <2>3, <2>4, <2>5 DEF Validate
<1>5. ASSUME NEW kind \in Plain, AskPlainly(c, kind)
      PROVE  Shaped
  <2> DEFINE call == To(kind, BuiltIn, BuiltIn)
  <2>1. call \in Call  BY ToIsCall DEF Asks, Abouts
  <2>2. call.paid = 0 /\ call.ask = kind  BY DEF To
  <2>3. Sound(call)  BY <2>2, KindsAssumption DEF Sound, Prose
  <2> QED  BY <1>5, <1>a, <2>1, <2>2, <2>3 DEF AskPlainly, Ready
<1> QED  BY <1>1, <1>2, <1>3, <1>4, <1>5 DEF Begin

(***************************************************************************)
(* Types                                                                   *)
(***************************************************************************)
LEMMA Awaited ==
  ASSUME TypeOK, NEW c \in Callers, caller[c] # Idle
  PROVE  caller[c] \in Call
BY DEF TypeOK

LEMMA ProseIsAwaited ==
  ASSUME NEW c \in Callers, caller[c].ask \in Prose
  PROVE  caller[c] # Idle
BY DEF Idle, Prose

\* What recording a row does to the table.
LEMMA Recorded ==
  ASSUME TypeOK, NEW call \in Call, NEW status \in Status, NEW cost \in Nat,
         NEW charged \in Nat, NEW from \in Nat, Record(call, status, cost, charged, from)
  PROVE  /\ runs' \in Seq(Row)
         /\ Len(runs) \in Nat
         /\ spent' = spent + cost
         /\ Runs' = Runs \cup {Len(runs) + 1}
         /\ Len(runs) + 1 \notin Runs
         /\ \A i \in Runs : runs'[i] = runs[i]
         /\ runs'[Len(runs) + 1].kind = StoredKind(call.ask)
         /\ runs'[Len(runs) + 1].about = call.about
         /\ runs'[Len(runs) + 1].prompt = call.prompt
         /\ runs'[Len(runs) + 1].status = status
         /\ runs'[Len(runs) + 1].from = from
<1> DEFINE row == [kind |-> StoredKind(call.ask), about |-> call.about,
                   prompt |-> call.prompt, status |-> status, cost |-> cost,
                   charged |-> charged, from |-> from]
<1>1. runs' = Append(runs, row) /\ spent' = spent + cost  BY DEF Record
<1>2. StoredKind(call.ask) \in Kinds  BY DEF StoredKind, Call, Kinds, Asks
<1>3. row \in Row  BY <1>2 DEF Row, Call
<1>4. runs \in Seq(Row) /\ Len(runs) \in Nat  BY DEF TypeOK
<1> HIDE DEF row
<1>5. /\ runs' \in Seq(Row) /\ Len(runs') = Len(runs) + 1
      /\ \A i \in 1 .. Len(runs) : runs'[i] = runs[i]
      /\ runs'[Len(runs) + 1] = row
  BY <1>1, <1>3, <1>4
<1>6. Runs' = Runs \cup {Len(runs) + 1} /\ Len(runs) + 1 \notin Runs
  BY <1>4, <1>5 DEF Runs
<1> QED  BY <1>1, <1>4, <1>5, <1>6 DEF row, Runs

LEMMA TypeInit == Init => TypeOK
BY DEF Init, TypeOK, Verdicts, NoRun, Row

LEMMA TypeStep == TypeOK /\ [Next]_vars => TypeOK'
<1> SUFFICES ASSUME TypeOK, [Next]_vars PROVE TypeOK'  OBVIOUS
<1>0. Free \subseteq Status /\ NoRun \in Nat /\ 0 \in Nat /\ Prices \subseteq Nat
      /\ "ok" \in Status /\ "error" \in Status
  BY NumbersAssumption DEF Free, Status, NoRun
<1>1. ASSUME NEW c \in Callers, NEW call \in Call, Sent(c, call)  PROVE TypeOK'
  BY <1>1 DEF Sent, TypeOK
<1>2. ASSUME NEW call \in Call, NEW status \in Free, NEW from \in Nat,
             Noted(call, status, from)
      PROVE  TypeOK'
  BY <1>2, <1>0, Recorded DEF Noted, TypeOK
<1>3. ASSUME NEW b \in Bodies, Condemned(b)  PROVE TypeOK'
  BY <1>3 DEF Condemned, Judged, TypeOK, Verdicts
<1>4. ASSUME NEW c \in Callers, CallFails(c)  PROVE TypeOK'
  <2>1. caller[c] \in Call /\ caller[c].paid \in Nat  BY <1>4, Awaited DEF CallFails, Call
  <2> QED  BY <1>4, <2>1, <1>0, Recorded DEF CallFails, Done, TypeOK
<1>5. ASSUME NEW c \in Callers, CutOff(c)  PROVE TypeOK'
  <2>1. caller[c] \in Call  BY <1>5, Awaited, ProseIsAwaited DEF CutOff
  <2>2. PICK p \in Prices :
          caller' = [caller EXCEPT ![c].paid = p, ![c].retry = TRUE]
    BY <1>5 DEF CutOff
  <2>3. [caller[c] EXCEPT !.paid = p, !.retry = TRUE] \in Call
    BY <2>1, <1>0 DEF Call
  <2>4. caller' = [caller EXCEPT ![c] = [caller[c] EXCEPT !.paid = p, !.retry = TRUE]]
    BY <2>2 DEF TypeOK
  <2> QED  BY <1>5, <2>3, <2>4 DEF CutOff, TypeOK
<1>6. ASSUME NEW c \in Callers, AnswerRejected(c)  PROVE TypeOK'
  <2>1. caller[c] \in Call /\ caller[c].paid \in Nat
    BY <1>6, Awaited DEF AnswerRejected, Call
  <2>2. PICK p \in Prices :
          Record(caller[c], "error", caller[c].paid + p, caller[c].paid + p, NoRun)
    BY <1>6 DEF AnswerRejected
  <2>3. caller[c].paid + p \in Nat  BY <2>1, <1>0
  <2>4. runs' \in Seq(Row) /\ spent' \in Nat
    BY <2>1, <2>2, <2>3, <1>0, Recorded DEF TypeOK
  <2> QED  BY <1>6, <2>4 DEF AnswerRejected, Done, TypeOK
<1>7. ASSUME NEW c \in Callers, AnswerUsed(c)  PROVE TypeOK'
  <2>1. caller[c] \in Call /\ caller[c].paid \in Nat
    BY <1>7, Awaited DEF AnswerUsed, Call
  <2>2. PICK p \in Prices :
          Record(caller[c], "ok", caller[c].paid + p, caller[c].paid + p, NoRun)
    BY <1>7 DEF AnswerUsed
  <2>3. caller[c].paid + p \in Nat  BY <2>1, <1>0
  <2>4. runs' \in Seq(Row) /\ spent' \in Nat /\ Len(runs) + 1 \in Nat
    <3>1. Len(runs) + 1 \in Nat  BY DEF TypeOK
    <3>2. runs' \in Seq(Row) /\ spent' = spent + (caller[c].paid + p)
      BY <2>1, <2>2, <2>3, <1>0, Recorded
    <3>3. spent \in Nat  BY DEF TypeOK
    <3> QED  BY <2>3, <3>1, <3>2, <3>3
  <2>5. kept' \subseteq Nat /\ review' \in [Reviews -> Nat]
    BY <1>7, <2>4 DEF AnswerUsed, Effects, Shown, TypeOK
  <2>6. verdict' \in [Bodies -> Verdicts]
    BY <1>7 DEF AnswerUsed, Effects, Judged, TypeOK, Verdicts
  <2>7. caller' \in [Callers -> Call \cup {Idle}]
    BY <1>7 DEF AnswerUsed, Done, TypeOK
  <2> QED  BY <2>4, <2>5, <2>6, <2>7 DEF TypeOK
<1>8. CASE Crash
  <2>1. runs' \in Seq(Row) /\ spent' \in Nat
    <3>1. ASSUME NEW c \in Busy, NEW p \in Prices,
                 Record(caller[c], "ok", caller[c].paid + p, caller[c].paid + p, NoRun)
          PROVE  runs' \in Seq(Row) /\ spent' \in Nat
      <4>1. caller[c] \in Call /\ caller[c].paid + p \in Nat
        BY Awaited, <1>0 DEF Busy, Call
      <4> QED  BY <3>1, <4>1, <1>0, Recorded DEF TypeOK
    <3> QED  BY <1>8, <3>1 DEF Crash, TypeOK
  <2> QED  BY <1>8, <2>1 DEF Crash, TypeOK
<1>9. CASE UNCHANGED vars  BY <1>9 DEF vars, TypeOK
<1> QED  BY <1>1, <1>2, <1>3, <1>4, <1>5, <1>6, <1>7, <1>8, <1>9, FirstTurns DEF Next, End

\* Rows, calls and what they leave behind keep their shapes (TypeOK).
THEOREM TypeCorrect == Spec => []TypeOK
BY TypeInit, TypeStep, PTL DEF Spec
(***************************************************************************)
(* Money. The bound on spent alone is not inductive: each call in flight   *)
(* is promised what it may still cost, and a call is only sent while the   *)
(* month is below its budget.                                              *)
(***************************************************************************)
Most == 2 * MaxPrice

Promised ==
  /\ \A c \in Callers : caller[c] # Idle => caller[c].paid <= MaxPrice
  /\ Busy # {} \/ spent > 0 =>
       /\ Budget > 0
       /\ spent + Most * Cardinality(Busy) < Budget + Most * Cardinality(Callers)

LEMMA Times ==
  ASSUME NEW m \in Nat, NEW n \in Nat
  PROVE  /\ m * n \in Nat
         /\ m * (n + 1) = m * n + m
         /\ \A k \in Nat : n <= k => m * n <= m * k
<1>1. m * n \in Nat /\ m * (n + 1) = m * n + m  OBVIOUS
<1>2. ASSUME NEW k \in Nat, n <= k  PROVE m * n <= m * k
  <2>1. k - n \in Nat /\ k = n + (k - n)  BY <1>2
  <2>2. m * (k - n) \in Nat  BY <2>1
  <2>3. m * k = m * n + m * (k - n)  BY <2>1
  <2> QED  BY <1>1, <2>2, <2>3
<1> QED  BY <1>1, <1>2

LEMMA CountCallers ==
  ASSUME NEW S \in SUBSET Callers
  PROVE  /\ IsFiniteSet(S) /\ Cardinality(S) \in Nat
         /\ Cardinality(Callers) \in Nat
         /\ Cardinality(S) <= Cardinality(Callers)
         /\ Most \in Nat
BY FS_Subset, FS_CardinalityType, NumbersAssumption DEF Most

LEMMA CallersInFlight ==
  /\ IsFiniteSet(Busy) /\ Cardinality(Busy) \in Nat
  /\ Cardinality(Callers) \in Nat
  /\ Cardinality(Busy) <= Cardinality(Callers)
  /\ Most \in Nat
<1>1. Busy \in SUBSET Callers  BY DEF Busy
<1> QED  BY <1>1, CountCallers

\* A caller that is done frees its share of what was promised.
LEMMA OneLess ==
  ASSUME TypeOK, TypeOK', NEW c \in Callers, caller[c] # Idle, Done(c)
  PROVE  /\ Cardinality(Busy) = Cardinality(Busy') + 1
         /\ Most * Cardinality(Busy) = Most * Cardinality(Busy') + Most
<1>1. c \in Busy /\ Busy' = Busy \ {c}  BY DEF Busy, Done, TypeOK
<1>2. Cardinality(Busy') = Cardinality(Busy) - 1
  BY <1>1, CallersInFlight, FS_RemoveElement
<1>3. Cardinality(Busy') \in Nat  BY <1>1, CountCallers DEF Busy
<1>4. Cardinality(Busy) = Cardinality(Busy') + 1  BY <1>2, <1>3, CallersInFlight
<1> QED  BY <1>3, <1>4, CallersInFlight, Times

LEMMA PromisedInit == Init => Promised
<1> SUFFICES ASSUME Init PROVE Promised  OBVIOUS
<1>1. Busy = {}  BY DEF Init, Busy
<1> QED  BY <1>1 DEF Init, Promised

LEMMA PromisedStep == TypeOK /\ TypeOK' /\ Promised /\ [Next]_vars => Promised'
<1> SUFFICES ASSUME TypeOK, TypeOK', Promised, [Next]_vars PROVE Promised'  OBVIOUS
<1>0. /\ MaxPrice \in Nat /\ Budget \in Nat /\ spent \in Nat /\ spent' \in Nat
      /\ \A p \in Prices : p \in Nat /\ p <= MaxPrice
      /\ Most \in Nat /\ Most = 2 * MaxPrice
  BY NumbersAssumption DEF TypeOK, Most
<1> DEFINE room == Budget + Most * Cardinality(Callers)
<1>r. room \in Nat  BY <1>0, CallersInFlight, Times
<1>b. /\ Cardinality(Busy) \in Nat /\ Cardinality(Busy') \in Nat
      /\ Most * Cardinality(Busy) \in Nat /\ Most * Cardinality(Busy') \in Nat
      /\ Most * Cardinality(Busy') <= Most * Cardinality(Callers)
      /\ Most * Cardinality(Callers) \in Nat
  <2>1. Busy' \in SUBSET Callers  BY DEF Busy
  <2>2. Cardinality(Busy') \in Nat /\ Cardinality(Busy') <= Cardinality(Callers)
    BY <2>1, CountCallers
  <2> QED  BY <2>2, CallersInFlight, Times
<1>1. ASSUME NEW c \in Callers, NEW call \in Call, Sent(c, call)  PROVE Promised'
  <2>1. spent' < Budget /\ Budget > 0  BY <1>1, <1>0 DEF Sent
  <2>2. spent' + Most * Cardinality(Busy') < room  BY <2>1, <1>0, <1>b
  <2>3. \A d \in Callers : caller'[d] # Idle => caller'[d].paid <= MaxPrice
    BY <1>1, <1>0 DEF Sent, Promised, TypeOK
  <2> QED  BY <2>1, <2>2, <2>3 DEF Promised
<1>2. ASSUME NEW call \in Call, NEW status \in Free, NEW from \in Nat,
             Noted(call, status, from)
      PROVE  Promised'
  <2>1. spent' = spent /\ caller' = caller  BY <1>2, <1>0 DEF Noted, Record
  <2>2. Busy' = Busy  BY <2>1 DEF Busy
  <2> QED  BY <2>1, <2>2 DEF Promised
<1>3. ASSUME NEW b \in Bodies, Condemned(b)  PROVE Promised'
  <2>1. Busy' = Busy  BY <1>3 DEF Busy, Condemned
  <2> QED  BY <1>3, <2>1 DEF Condemned, Promised
<1>4. ASSUME NEW c \in Callers, caller[c] # Idle, Done(c),
             NEW cost \in 0 .. Most, spent' = spent + cost
      PROVE  Promised'
  <2>1. Most * Cardinality(Busy) = Most * Cardinality(Busy') + Most  BY <1>4, OneLess
  <2>2. Busy # {}  BY <1>4 DEF Busy
  <2>3. Budget > 0 /\ spent + Most * Cardinality(Busy) < room  BY <2>2 DEF Promised
  <2>4. spent' + Most * Cardinality(Busy') < room  BY <1>4, <2>1, <2>3, <1>0, <1>b, <1>r
  <2>5. \A d \in Callers : caller'[d] # Idle => caller'[d].paid <= MaxPrice
    BY <1>4 DEF Done, Promised, TypeOK
  <2> QED  BY <2>3, <2>4, <2>5 DEF Promised
<1>5. ASSUME NEW c \in Callers, caller[c] # Idle, NEW p \in Prices
      PROVE  caller[c].paid + p \in 0 .. Most
  <2>1. caller[c].paid \in Nat /\ caller[c].paid <= MaxPrice
    BY <1>5, Awaited DEF Call, Promised
  <2> QED  BY <2>1, <1>0
<1>6. ASSUME NEW c \in Callers, CallFails(c)  PROVE Promised'
  <2>1. 0 \in 0 .. Most  BY <1>0
  <2> QED  BY <1>4, <1>6, <2>1 DEF CallFails, Record
<1>7. ASSUME NEW c \in Callers, CutOff(c)  PROVE Promised'
  <2>1. caller[c] # Idle /\ caller[c] \in Call  BY <1>7, Awaited, ProseIsAwaited DEF CutOff
  <2>2. PICK p \in Prices :
          caller' = [caller EXCEPT ![c].paid = p, ![c].retry = TRUE]
    BY <1>7 DEF CutOff
  <2>3. caller'[c].paid = p /\ caller'[c].ask = caller[c].ask
    BY <2>1, <2>2 DEF TypeOK, Call
  <2>a. caller'[c].ask \in Prose  BY <2>3, <1>7 DEF CutOff
  <2>b. Idle.ask \notin Prose  BY DEF Idle, Prose
  <2>4. caller'[c] # Idle  BY <2>a, <2>b
  <2>5. Busy' = Busy  BY <2>1, <2>2, <2>4 DEF Busy, TypeOK
  <2>6. spent' = spent  BY <1>7 DEF CutOff
  <2>7. \A d \in Callers : caller'[d] # Idle => caller'[d].paid <= MaxPrice
    BY <2>2, <2>3, <1>0 DEF Promised, TypeOK
  <2> QED  BY <2>5, <2>6, <2>7 DEF Promised
<1>8. ASSUME NEW c \in Callers, AnswerRejected(c)  PROVE Promised'
  <2>1. PICK p \in Prices : spent' = spent + (caller[c].paid + p)
    BY <1>8 DEF AnswerRejected, Record
  <2> QED  BY <1>4, <1>5, <1>8, <2>1 DEF AnswerRejected
<1>9. ASSUME NEW c \in Callers, AnswerUsed(c)  PROVE Promised'
  <2>1. PICK p \in Prices : spent' = spent + (caller[c].paid + p)
    BY <1>9 DEF AnswerUsed, Record
  <2> QED  BY <1>4, <1>5, <1>9, <2>1 DEF AnswerUsed
<1>10. CASE Crash
  <2>1. Busy' = {} /\ \A d \in Callers : caller'[d] = Idle  BY <1>10 DEF Crash, Busy
  <2>2. CASE spent' = spent
    BY <2>1, <2>2, <1>0, <1>b, <1>r, FS_EmptySet DEF Promised
  <2>3. ASSUME NEW c \in Busy, NEW p \in Prices, spent' = spent + (caller[c].paid + p)
        PROVE  Promised'
    <3>1. caller[c].paid + p \in 0 .. Most  BY <1>5 DEF Busy
    <3>2. Cardinality(Busy) # 0  BY CallersInFlight, FS_EmptySet
    <3>3. Most * 1 <= Most * Cardinality(Busy)  BY <3>2, <1>0, <1>b, Times
    <3>4. Budget > 0 /\ spent + Most * Cardinality(Busy) < room  BY <2>3 DEF Promised
    <3>5. spent' < room  BY <2>3, <3>1, <3>3, <3>4, <1>0, <1>b, <1>r
    <3>6. Most * Cardinality(Busy') = 0  BY <2>1, <1>0, FS_EmptySet
    <3>7. spent' + Most * Cardinality(Busy') < room  BY <3>5, <3>6, <1>0, <1>r
    <3> QED  BY <2>1, <3>4, <3>7 DEF Promised
  <2> QED  BY <1>10, <2>2, <2>3 DEF Crash, Record
<1>11. CASE UNCHANGED vars
  <2>1. Busy' = Busy  BY <1>11 DEF vars, Busy
  <2> QED  BY <1>11, <2>1 DEF vars, Promised
<1> QED
  BY <1>1, <1>2, <1>3, <1>6, <1>7, <1>8, <1>9, <1>10, <1>11, FirstTurns DEF Next, End

LEMMA PromisedBounds == TypeOK /\ Promised => OverspendIsBounded
<1> SUFFICES ASSUME TypeOK, Promised, spent > 0
             PROVE  Budget > 0 /\ spent < Budget + 2 * MaxPrice * Cardinality(Callers)
  BY DEF OverspendIsBounded
<1>1. Most * Cardinality(Busy) \in Nat /\ Most * Cardinality(Callers) \in Nat
  BY CallersInFlight, Times
<1>2. Budget > 0 /\ spent + Most * Cardinality(Busy) < Budget + Most * Cardinality(Callers)
  BY DEF Promised
<1> QED  BY <1>1, <1>2, NumbersAssumption DEF Most, TypeOK

\* However many runs are in flight together, the month ends less than one call per
\* caller above its budget, and at nothing when the budget is zero.
THEOREM Overspend == Spec => []OverspendIsBounded
BY TypeInit, TypeStep, PromisedInit, PromisedStep, PromisedBounds, PTL DEF Spec
(***************************************************************************)
(* The shapes of a second turn                                             *)
(***************************************************************************)
Billed(c, status) ==
  /\ caller[c] # Idle
  /\ \E cost, charged \in Nat : Record(caller[c], status, cost, charged, NoRun)

Failed(c) == Billed(c, "error") /\ Done(c) /\ UNCHANGED <<kept, review, verdict>>

Used(c) == Billed(c, "ok") /\ Done(c) /\ Effects(caller[c], Len(runs) + 1)

Died ==
  /\ UNCHANGED runs \/ \E c \in Callers : Billed(c, "ok")
  /\ caller' = [c \in Callers |-> Idle]
  /\ UNCHANGED <<kept, review, verdict>>

LEMMA PriceOfAnswer ==
  ASSUME TypeOK, NEW c \in Callers, caller[c] # Idle, NEW p \in Prices
  PROVE  caller[c].paid \in Nat /\ caller[c].paid + p \in Nat
<1>1. caller[c].paid \in Nat  BY Awaited DEF Call
<1> QED  BY <1>1, NumbersAssumption

LEMMA SecondTurns ==
  ASSUME TypeOK
  PROVE  /\ \A c \in Callers : CallFails(c) \/ AnswerRejected(c) => Failed(c)
         /\ \A c \in Callers : AnswerUsed(c) => Used(c)
         /\ Crash => Died
<1>1. ASSUME NEW c \in Callers, CallFails(c)  PROVE Failed(c)
  <2>1. caller[c].paid \in Nat /\ 0 \in Nat  BY <1>1, Awaited DEF CallFails, Call
  <2> QED  BY <1>1, <2>1 DEF CallFails, Failed, Billed
<1>2. ASSUME NEW c \in Callers, AnswerRejected(c)  PROVE Failed(c)
  BY <1>2, PriceOfAnswer DEF AnswerRejected, Failed, Billed
<1>3. ASSUME NEW c \in Callers, AnswerUsed(c)  PROVE Used(c)
  BY <1>3, PriceOfAnswer DEF AnswerUsed, Used, Billed
<1>4. ASSUME Crash  PROVE Died
  <2>1. ASSUME NEW c \in Busy, NEW p \in Prices,
               Record(caller[c], "ok", caller[c].paid + p, caller[c].paid + p, NoRun)
        PROVE  Billed(c, "ok")
    BY <2>1, PriceOfAnswer DEF Busy, Billed
  <2> QED  BY <1>4, <2>1 DEF Crash, Died, Busy
<1> QED  BY <1>1, <1>2, <1>3, <1>4

\* The row a returning call writes.
LEMMA BilledRow ==
  ASSUME TypeOK, NEW c \in Callers, NEW status \in {"ok", "error"}, Billed(c, status)
  PROVE  /\ caller[c] \in Call
         /\ Len(runs) \in Nat
         /\ Runs' = Runs \cup {Len(runs) + 1}
         /\ Len(runs) + 1 \notin Runs
         /\ \A i \in Runs : runs'[i] = runs[i]
         /\ runs'[Len(runs) + 1].kind = StoredKind(caller[c].ask)
         /\ runs'[Len(runs) + 1].about = caller[c].about
         /\ runs'[Len(runs) + 1].prompt = caller[c].prompt
         /\ runs'[Len(runs) + 1].status = status
<1>1. caller[c] \in Call  BY Awaited DEF Billed
<1>2. status \in Status /\ NoRun \in Nat  BY DEF Status, NoRun
<1>3. PICK cost \in Nat, charged \in Nat : Record(caller[c], status, cost, charged, NoRun)
  BY DEF Billed
<1> QED  BY <1>1, <1>2, <1>3, Recorded

(***************************************************************************)
(* Reuse                                                                   *)
(***************************************************************************)
LEMMA ReuseStep ==
  TypeOK /\ ReuseTracesToOneCall /\ [Next]_vars => ReuseTracesToOneCall'
<1> SUFFICES ASSUME TypeOK, ReuseTracesToOneCall, [Next]_vars
             PROVE  ReuseTracesToOneCall'
  OBVIOUS
<1> DEFINE Traced(i) ==
      runs[i].status = "reused" =>
        /\ runs[i].from \in 1 .. i - 1
        /\ runs[runs[i].from].status = "ok"
        /\ runs[runs[i].from].kind = runs[i].kind
        /\ runs[runs[i].from].about = runs[i].about
<1>0. ASSUME UNCHANGED runs  PROVE ReuseTracesToOneCall'
  BY <1>0 DEF ReuseTracesToOneCall, Runs
<1>1. ASSUME NEW n \in Nat, Len(runs) \in Nat, Runs' = Runs \cup {n},
             \A i \in Runs : runs'[i] = runs[i], Traced(n)'
      PROVE  ReuseTracesToOneCall'
  <2>1. ASSUME NEW i \in Runs  PROVE Traced(i)'
    <3>1. Traced(i) /\ runs'[i] = runs[i]  BY <1>1 DEF ReuseTracesToOneCall
    <3>2. \A j \in 1 .. i - 1 : j \in Runs  BY <1>1 DEF Runs
    <3> QED  BY <1>1, <3>1, <3>2
  <2>2. \A i \in Runs' : Traced(i)'  BY <1>1, <2>1
  <2> QED  BY <2>2 DEF ReuseTracesToOneCall
<1>2. ASSUME NEW call \in Call, NEW status \in Free, NEW from \in Nat,
             Noted(call, status, from)
      PROVE  ReuseTracesToOneCall'
  <2>1. status \in Status /\ 0 \in Nat /\ Record(call, status, 0, 0, from)
    BY <1>2 DEF Noted, Free, Status
  <2>2. /\ Len(runs) \in Nat /\ Runs' = Runs \cup {Len(runs) + 1}
        /\ \A i \in Runs : runs'[i] = runs[i]
        /\ runs'[Len(runs) + 1].kind = StoredKind(call.ask)
        /\ runs'[Len(runs) + 1].about = call.about
        /\ runs'[Len(runs) + 1].status = status
        /\ runs'[Len(runs) + 1].from = from
    BY <2>1, Recorded
  <2>n. PICK n \in Nat : n = Len(runs) + 1  BY <2>2
  <2>3. ASSUME status = "reused"  PROVE Traced(n)'
    <3>1. call.ask \in {"findings", "dryrun"} /\ from \in Matching(call.ask, call.about)
      BY <1>2, <2>3 DEF Noted
    <3>2. /\ from \in Runs /\ runs[from].status = "ok"
          /\ runs[from].kind = call.ask /\ runs[from].about = call.about
      BY <3>1 DEF Matching, AnyMatch
    <3>3. StoredKind(call.ask) = call.ask  BY <3>1 DEF StoredKind
    <3>4. from \in 1 .. n - 1  BY <3>2, <2>2, <2>n DEF Runs
    <3>5. runs'[from] = runs[from]  BY <2>2, <3>2
    <3> QED  BY <2>2, <2>n, <3>2, <3>3, <3>4, <3>5
  <2>4. Traced(n)'  BY <2>2, <2>n, <2>3
  <2> QED  BY <1>1, <2>2, <2>n, <2>4
<1>3. ASSUME NEW c \in Callers, NEW status \in {"ok", "error"}, Billed(c, status)
      PROVE  ReuseTracesToOneCall'
  <2>1. PICK n \in Nat : n = Len(runs) + 1  BY <1>3, BilledRow
  <2>2. Traced(n)'  BY <1>3, <2>1, BilledRow
  <2> QED  BY <1>1, <1>3, <2>1, <2>2, BilledRow
<1> QED
  BY <1>0, <1>2, <1>3, FirstTurns, SecondTurns
  DEF Next, End, Sent, Condemned, Failed, Used, Died, CutOff, vars

\* Every reused row names one real, earlier answer to the same question.
THEOREM ReuseTraced == Spec => []ReuseTracesToOneCall
<1>1. Init => ReuseTracesToOneCall  BY DEF Init, ReuseTracesToOneCall, Runs
<1> QED  BY <1>1, TypeInit, TypeStep, ReuseStep, PTL DEF Spec
(***************************************************************************)
(* Checks. One at a time is what makes the count of the day and the        *)
(* verdict of the text, both read before the call, still true after it.    *)
(***************************************************************************)
Judging ==
  /\ kept \subseteq Runs
  /\ \A c \in Callers : Checking(c) =>
       /\ caller[c].about \in Bodies /\ verdict[caller[c].about] = "unvalidated"
       /\ Cardinality(ChecksToday) < DailyCap
  /\ \A c, d \in Callers : Checking(c) /\ Checking(d) => c = d
  /\ \A i \in kept : runs[i].kind = "prompt_validation" =>
       runs[i].about \in Bodies /\ verdict[runs[i].about] # "unvalidated"
  /\ OneVerdictPerBody
  /\ DailyCapHolds

LEMMA CheckingIsAwaited ==
  ASSUME NEW c \in Callers, Checking(c)
  PROVE  caller[c] # Idle
BY DEF Checking, Idle

LEMMA ChecksAreFinite ==
  ASSUME TypeOK
  PROVE  IsFiniteSet(ChecksToday) /\ Cardinality(ChecksToday) \in Nat
<1>1. ChecksToday \in SUBSET (1 .. Len(runs)) /\ Len(runs) \in Nat
  BY DEF ChecksToday, Runs, TypeOK
<1>2. IsFiniteSet(1 .. Len(runs))  BY <1>1, FS_Interval
<1> QED  BY <1>1, <1>2, FS_Subset, FS_CardinalityType

\* A new row adds at most one check to the day, and none if it is no check.
LEMMA ChecksCounted ==
  ASSUME TypeOK, NEW n \in Nat, n = Len(runs) + 1, Runs' = Runs \cup {n}, n \notin Runs,
         \A i \in Runs : runs'[i] = runs[i]
  PROVE  /\ Cardinality(ChecksToday') \in 0 .. Cardinality(ChecksToday) + 1
         /\ ~(runs'[n].kind = "prompt_validation" /\ runs'[n].status \in {"ok", "error"}) =>
              ChecksToday' = ChecksToday
<1>1. CASE runs'[n].kind = "prompt_validation" /\ runs'[n].status \in {"ok", "error"}
  <2>1. ChecksToday' = ChecksToday \cup {n}  BY <1>1 DEF ChecksToday
  <2>2. n \notin ChecksToday  BY DEF ChecksToday
  <2>3. Cardinality(ChecksToday \cup {n}) = Cardinality(ChecksToday) + 1
    BY <2>2, ChecksAreFinite, FS_AddElement
  <2> QED  BY <1>1, <2>1, <2>3, ChecksAreFinite
<1>2. CASE ~(runs'[n].kind = "prompt_validation" /\ runs'[n].status \in {"ok", "error"})
  <2>1. ChecksToday' = ChecksToday  BY <1>2 DEF ChecksToday
  <2> QED  BY <2>1, ChecksAreFinite
<1> QED  BY <1>1, <1>2

LEMMA KindOfCheck ==
  ASSUME NEW call \in Call
  PROVE  StoredKind(call.ask) = "prompt_validation" <=> call.ask = "prompt_validation"
BY DEF StoredKind

LEMMA JudgingInit == Init => Judging
<1> SUFFICES ASSUME Init PROVE Judging  OBVIOUS
<1>1. Runs = {} /\ kept = {}  BY DEF Init, Runs
<1>2. ChecksToday = {}  BY <1>1 DEF ChecksToday
<1>3. \A c \in Callers : ~Checking(c)  BY DEF Init, Checking, Idle
<1> QED
  BY <1>1, <1>2, <1>3, FS_EmptySet, NumbersAssumption
  DEF Judging, OneVerdictPerBody, DailyCapHolds

LEMMA JudgingStep == TypeOK /\ Judging /\ [Next]_vars => Judging'
<1> SUFFICES ASSUME TypeOK, Judging, [Next]_vars PROVE Judging'  OBVIOUS
<1>0. DailyCap \in Nat /\ Cardinality(ChecksToday) \in Nat
  BY NumbersAssumption, ChecksAreFinite
<1>1. ASSUME NEW c \in Callers, NEW call \in Call, Sent(c, call)  PROVE Judging'
  <2>1. ChecksToday' = ChecksToday /\ Runs' = Runs /\ runs' = runs /\ kept' = kept
        /\ verdict' = verdict
    BY <1>1 DEF Sent, ChecksToday, Runs
  <2>2. caller'[c] = call /\ \A d \in Callers \ {c} : caller'[d] = caller[d]
    BY <1>1 DEF Sent, TypeOK
  <2>3. call.ask = "prompt_validation" =>
          /\ call.about \in Bodies /\ verdict[call.about] = "unvalidated"
          /\ Cardinality(ChecksToday) < DailyCap
          /\ \A d \in Callers : ~Checking(d)
    BY <1>1, <1>0 DEF Sent, Sound, CapReached
  <2>4. \A d \in Callers : Checking(d)' =>
          /\ caller'[d].about \in Bodies /\ verdict'[caller'[d].about] = "unvalidated"
          /\ Cardinality(ChecksToday') < DailyCap
    BY <2>1, <2>2, <2>3 DEF Judging, Checking
  <2>5. \A d, e \in Callers : Checking(d)' /\ Checking(e)' => d = e
    BY <2>2, <2>3 DEF Judging, Checking
  <2> QED  BY <2>1, <2>4, <2>5 DEF Judging, OneVerdictPerBody, DailyCapHolds
<1>2. ASSUME NEW call \in Call, NEW status \in Free, NEW from \in Nat,
             Noted(call, status, from)
      PROVE  Judging'
  <2>1. status \in Status /\ 0 \in Nat /\ Record(call, status, 0, 0, from)
    BY <1>2 DEF Noted, Free, Status
  <2>2. PICK n \in Nat : n = Len(runs) + 1  BY <2>1, Recorded
  <2>3. /\ Runs' = Runs \cup {n} /\ n \notin Runs
        /\ \A i \in Runs : runs'[i] = runs[i]
        /\ runs'[n].status = status
    BY <2>1, <2>2, Recorded
  <2>4. ChecksToday' = ChecksToday
    BY <2>2, <2>3, ChecksCounted DEF Free
  <2>5. kept' = kept /\ verdict' = verdict /\ caller' = caller  BY <1>2 DEF Noted
  <2>6. \A i \in kept : i \in Runs /\ i \in Runs' /\ runs'[i] = runs[i]
    BY <2>3 DEF Judging
  <2>7. OneVerdictPerBody'
    BY <2>5, <2>6 DEF Judging, OneVerdictPerBody
  <2> QED  BY <2>4, <2>5, <2>6, <2>7 DEF Judging, Checking, DailyCapHolds
<1>3. ASSUME NEW b \in Bodies, Condemned(b)  PROVE Judging'
  <2>1. ChecksToday' = ChecksToday /\ Runs' = Runs  BY <1>3 DEF Condemned, ChecksToday, Runs
  <2>2. \A d \in Callers : ~Checking(d)'  BY <1>3 DEF Condemned, Checking
  <2>3. \A x \in Bodies : verdict[x] # "unvalidated" => verdict'[x] # "unvalidated"
    BY <1>3 DEF Condemned, Judged, TypeOK
  <2> QED
    BY <1>3, <2>1, <2>2, <2>3 DEF Condemned, Judging, OneVerdictPerBody, DailyCapHolds
<1>4. ASSUME NEW c \in Callers, NEW status \in {"ok", "error"}, Billed(c, status)
      PROVE  \E n \in Nat :
               /\ n = Len(runs) + 1 /\ Runs' = Runs \cup {n} /\ n \notin Runs
               /\ \A i \in Runs : runs'[i] = runs[i]
               /\ runs'[n].kind = "prompt_validation" <=> Checking(c)
               /\ runs'[n].about = caller[c].about
               /\ DailyCapHolds'
               /\ ~Checking(c) => ChecksToday' = ChecksToday
  <2>1. PICK n \in Nat : n = Len(runs) + 1  BY <1>4, BilledRow
  <2>2. runs'[n].kind = "prompt_validation" <=> Checking(c)
    BY <1>4, <2>1, BilledRow, KindOfCheck DEF Checking
  <2>3. /\ Cardinality(ChecksToday') \in 0 .. Cardinality(ChecksToday) + 1
        /\ ~Checking(c) => ChecksToday' = ChecksToday
    BY <1>4, <2>1, <2>2, BilledRow, ChecksCounted
  <2>4. Cardinality(ChecksToday') <= DailyCap
    <3>1. CASE Checking(c)
      <4>1. Cardinality(ChecksToday) + 1 <= DailyCap  BY <3>1, <1>0 DEF Judging
      <4> QED  BY <2>3, <4>1, <1>0
    <3>2. CASE ~Checking(c)  BY <3>2, <2>3 DEF Judging, DailyCapHolds
    <3> QED  BY <3>1, <3>2
  <2> QED  BY <1>4, <2>1, <2>2, <2>3, <2>4, BilledRow DEF DailyCapHolds
<1>5. ASSUME NEW c \in Callers, Failed(c)  PROVE Judging'
  <2>1. PICK n \in Nat :
          /\ n = Len(runs) + 1 /\ Runs' = Runs \cup {n} /\ n \notin Runs
          /\ \A i \in Runs : runs'[i] = runs[i]
          /\ DailyCapHolds'
          /\ ~Checking(c) => ChecksToday' = ChecksToday
    BY <1>5, <1>4 DEF Failed
  <2>2. caller'[c] = Idle /\ \A d \in Callers \ {c} : caller'[d] = caller[d]
    BY <1>5 DEF Failed, Done, TypeOK
  <2>3. kept' = kept /\ verdict' = verdict  BY <1>5 DEF Failed
  <2>4. ~Checking(c)' /\ \A d \in Callers \ {c} : Checking(d)' => Checking(d)
    BY <2>2 DEF Checking, Idle
  <2>5. \A d \in Callers : Checking(d)' =>
          /\ caller'[d].about \in Bodies /\ verdict'[caller'[d].about] = "unvalidated"
          /\ Cardinality(ChecksToday') < DailyCap
    BY <2>1, <2>2, <2>3, <2>4 DEF Judging
  <2>6. \A d, e \in Callers : Checking(d)' /\ Checking(e)' => d = e
    BY <2>4 DEF Judging
  <2>7. \A i \in kept : i \in Runs /\ i \in Runs' /\ runs'[i] = runs[i]
    BY <2>1 DEF Judging
  <2>8. OneVerdictPerBody'
    BY <2>3, <2>7 DEF Judging, OneVerdictPerBody
  <2> QED  BY <2>1, <2>3, <2>5, <2>6, <2>7, <2>8 DEF Judging
<1>6. ASSUME NEW c \in Callers, CutOff(c)  PROVE Judging'
  <2>1. PICK p \in Prices :
          caller' = [caller EXCEPT ![c].paid = p, ![c].retry = TRUE]
    BY <1>6 DEF CutOff
  <2>2. caller[c] \in Call  BY <1>6, Awaited, ProseIsAwaited DEF CutOff
  <2>3. \A d \in Callers : caller'[d].ask = caller[d].ask /\ caller'[d].about = caller[d].about
    BY <2>1, <2>2 DEF TypeOK, Call
  <2>4. ChecksToday' = ChecksToday /\ Runs' = Runs  BY <1>6 DEF CutOff, ChecksToday, Runs
  <2>5. kept' = kept /\ verdict' = verdict /\ runs' = runs  BY <1>6 DEF CutOff
  <2>6. \A d \in Callers : Checking(d)' <=> Checking(d)  BY <2>3 DEF Checking
  <2>7. OneVerdictPerBody' /\ DailyCapHolds'
    BY <2>4, <2>5 DEF Judging, OneVerdictPerBody, DailyCapHolds
  <2>8. \A d \in Callers : Checking(d)' =>
          /\ caller'[d].about \in Bodies /\ verdict'[caller'[d].about] = "unvalidated"
          /\ Cardinality(ChecksToday') < DailyCap
    BY <2>3, <2>4, <2>5, <2>6 DEF Judging
  <2>9. \A i \in kept' : runs'[i].kind = "prompt_validation" =>
          runs'[i].about \in Bodies /\ verdict'[runs'[i].about] # "unvalidated"
    BY <2>5 DEF Judging
  <2>10. kept' \subseteq Runs'  BY <2>4, <2>5 DEF Judging
  <2>11. \A d, e \in Callers : Checking(d)' /\ Checking(e)' => d = e
    BY <2>6 DEF Judging
  <2> QED  BY <2>7, <2>8, <2>9, <2>10, <2>11 DEF Judging
<1>7. ASSUME NEW c \in Callers, Used(c)  PROVE Judging'
  <2>1. PICK n \in Nat :
          /\ n = Len(runs) + 1 /\ Runs' = Runs \cup {n} /\ n \notin Runs
          /\ \A i \in Runs : runs'[i] = runs[i]
          /\ runs'[n].kind = "prompt_validation" <=> Checking(c)
          /\ runs'[n].about = caller[c].about
          /\ DailyCapHolds'
          /\ ~Checking(c) => ChecksToday' = ChecksToday
    BY <1>7, <1>4 DEF Used
  <2>2. caller'[c] = Idle /\ \A d \in Callers \ {c} : caller'[d] = caller[d]
    BY <1>7 DEF Used, Done, TypeOK
  <2>3. ~Checking(c)' /\ \A d \in Callers \ {c} : Checking(d)' => Checking(d)
    BY <2>2 DEF Checking, Idle
  <2>4. kept' \subseteq kept \cup {n} /\ (~Checking(c) => verdict' = verdict)
    BY <1>7, <2>1 DEF Used, Effects, Checking
  <2>5. \A x \in Bodies : verdict[x] # "unvalidated" => verdict'[x] # "unvalidated"
    BY <1>7 DEF Used, Effects, Judged, TypeOK
  <2>6. Checking(c) => verdict'[caller[c].about] # "unvalidated"
    BY <1>7 DEF Used, Effects, Judged, TypeOK, Judging, Checking
  <2>7. \A d \in Callers : Checking(d)' =>
          /\ caller'[d].about \in Bodies /\ verdict'[caller'[d].about] = "unvalidated"
          /\ Cardinality(ChecksToday') < DailyCap
    BY <2>1, <2>2, <2>3, <2>4 DEF Judging
  <2>8. \A d, e \in Callers : Checking(d)' /\ Checking(e)' => d = e
    BY <2>3 DEF Judging
  <2>9. \A i \in kept : i \in Runs /\ i # n /\ runs'[i] = runs[i]
    BY <2>1 DEF Judging
  <2>10. kept' \subseteq Runs'  BY <2>1, <2>4 DEF Judging
  <2>11. \A i \in kept' : runs'[i].kind = "prompt_validation" =>
           runs'[i].about \in Bodies /\ verdict'[runs'[i].about] # "unvalidated"
    BY <2>1, <2>4, <2>5, <2>6, <2>9 DEF Judging
  <2>12. OneVerdictPerBody'
    <3>1. ASSUME NEW i \in kept, runs'[i].kind = "prompt_validation", Checking(c)
          PROVE  runs'[i].about # caller[c].about
      BY <3>1, <2>9 DEF Judging
    <3>2. ASSUME NEW i \in kept, NEW j \in kept,
                 runs'[i].kind = "prompt_validation", runs'[j].kind = "prompt_validation",
                 runs'[i].about = runs'[j].about
          PROVE  i = j
      BY <3>2, <2>9 DEF Judging, OneVerdictPerBody
    <3> QED  BY <2>1, <2>4, <3>1, <3>2 DEF OneVerdictPerBody
  <2> QED  BY <2>1, <2>7, <2>8, <2>10, <2>11, <2>12 DEF Judging
<1>8. CASE Died
  <2>1. kept' = kept /\ verdict' = verdict /\ \A d \in Callers : caller'[d] = Idle
    BY <1>8 DEF Died
  <2>2. \A d \in Callers : ~Checking(d)'  BY <2>1 DEF Checking, Idle
  <2>3. DailyCapHolds' /\ Runs \subseteq Runs' /\ \A i \in Runs : runs'[i] = runs[i]
    <3>1. CASE UNCHANGED runs  BY <3>1 DEF Runs, Judging, DailyCapHolds, ChecksToday
    <3>2. ASSUME NEW c \in Callers, Billed(c, "ok")
          PROVE  DailyCapHolds' /\ Runs \subseteq Runs' /\ \A i \in Runs : runs'[i] = runs[i]
      BY <3>2, <1>4
    <3> QED  BY <1>8, <3>1, <3>2 DEF Died
  <2>4. \A i \in kept : i \in Runs /\ i \in Runs' /\ runs'[i] = runs[i]
    BY <2>3 DEF Judging
  <2>5. OneVerdictPerBody'  BY <2>1, <2>4 DEF Judging, OneVerdictPerBody
  <2> QED  BY <2>1, <2>2, <2>3, <2>4, <2>5 DEF Judging
<1>9. CASE UNCHANGED vars
  BY <1>9 DEF vars, Judging, Checking, Runs, ChecksToday, OneVerdictPerBody, DailyCapHolds
<1> QED
  BY <1>1, <1>2, <1>3, <1>5, <1>6, <1>7, <1>8, <1>9, FirstTurns, SecondTurns DEF Next, End

\* One verdict is ever stored for a text, however its checks overlap or fail.
THEOREM OneVerdict == Spec => []OneVerdictPerBody
<1>1. Judging => OneVerdictPerBody  BY DEF Judging
<1> QED  BY <1>1, TypeInit, TypeStep, JudgingInit, JudgingStep, PTL DEF Spec

\* A day never buys more checks than its cap.
THEOREM CapHolds == Spec => []DailyCapHolds
<1>1. Judging => DailyCapHolds  BY DEF Judging
<1> QED  BY <1>1, TypeInit, TypeStep, JudgingInit, JudgingStep, PTL DEF Spec
(***************************************************************************)
(* Reviews. The version a review is written with is checked before the     *)
(* call; it is still good after it because a safe verdict is never asked   *)
(* for again, which is part of Judging.                                    *)
(***************************************************************************)
Vetting ==
  /\ ShownReviewsAreVetted
  /\ \A c \in Callers : caller[c].ask \in Prose =>
       caller[c].about \in Reviews /\ Usable(caller[c].prompt)

\* No step takes back a safe verdict.
LEMMA SafeStays ==
  ASSUME TypeOK, Judging, [Next]_vars, NEW b, Usable(b)
  PROVE  Usable(b)'
<1>0. Gated(b) => b \in Bodies  BY DEF Gated, Bodies
<1>1. ASSUME verdict' = verdict  PROVE Usable(b)'
  BY <1>1 DEF Usable, Gated
<1>2. ASSUME NEW x \in Bodies, verdict[x] = "unvalidated", NEW v, Judged(x, v)
      PROVE  Usable(b)'
  BY <1>0, <1>2 DEF Usable, Gated, Judged, TypeOK
<1>3. ASSUME NEW c \in Callers, Used(c)  PROVE Usable(b)'
  <2>1. CASE Checking(c)
    <3>1. caller[c].about \in Bodies /\ verdict[caller[c].about] = "unvalidated"
      BY <2>1 DEF Judging
    <3>2. \E v \in {"safe", "unsafe"} : Judged(caller[c].about, v)
      BY <1>3, <2>1 DEF Used, Effects, Checking
    <3> QED  BY <1>2, <3>1, <3>2
  <2>2. CASE ~Checking(c)  BY <1>1, <1>3, <2>2 DEF Used, Effects, Checking
  <2> QED  BY <2>1, <2>2
<1> QED
  BY <1>1, <1>2, <1>3, FirstTurns, SecondTurns
  DEF Next, End, Sent, Noted, Condemned, Failed, Died, CutOff, vars

\* A review of an earlier row stands as long as rows only follow it.
LEMMA ShownStays ==
  ASSUME TypeOK, Judging, Vetting, [Next]_vars, NEW l \in Reviews,
         review[l] # NoRun, Runs \subseteq Runs', \A i \in Runs : runs'[i] = runs[i]
  PROVE  /\ review[l] \in Runs'
         /\ runs'[review[l]].kind = "narrative" /\ runs'[review[l]].about = l
         /\ runs'[review[l]].status = "ok"
         /\ Gated(runs'[review[l]].prompt) => verdict'[runs'[review[l]].prompt] = "safe"
<1> DEFINE row == runs[review[l]]
<1>1. /\ review[l] \in Runs /\ row.kind = "narrative" /\ row.about = l
      /\ row.status = "ok" /\ Usable(row.prompt)
  BY DEF Vetting, ShownReviewsAreVetted, Usable
<1>2. PICK b : b = row.prompt  OBVIOUS
<1>3. Usable(b)'  BY <1>1, <1>2, SafeStays
<1>4. runs'[review[l]] = row  BY <1>1
<1> QED  BY <1>1, <1>2, <1>3, <1>4 DEF Usable

LEMMA VettingInit == Init => Vetting
BY DEF Init, Vetting, ShownReviewsAreVetted, Idle, Prose

LEMMA VettingStep == TypeOK /\ Judging /\ Vetting /\ [Next]_vars => Vetting'
<1> SUFFICES ASSUME TypeOK, Judging, Vetting, [Next]_vars PROVE Vetting'  OBVIOUS
\* Calls in flight: those that were there, and one just sent.
<1>1. ASSUME NEW c \in Callers, caller'[c].ask \in Prose
      PROVE  caller'[c].about \in Reviews /\ Usable(caller'[c].prompt)
  <2> DEFINE Kept(d) == /\ caller'[d].ask = caller[d].ask
                        /\ caller'[d].about = caller[d].about
                        /\ caller'[d].prompt = caller[d].prompt
  <2>1. CASE Kept(c)  BY <1>1, <2>1 DEF Vetting
  <2>2. CASE caller'[c] = Idle  BY <1>1, <2>2 DEF Idle, Prose
  <2>3. ASSUME NEW d \in Callers, NEW call \in Call, Sent(d, call)
        PROVE  caller'[c].about \in Reviews /\ Usable(caller'[c].prompt)
    <3>1. CASE c = d
      BY <1>1, <2>3, <3>1 DEF Sent, Sound, TypeOK
    <3>2. CASE c # d  BY <2>1, <2>3, <3>2 DEF Sent, TypeOK
    <3> QED  BY <3>1, <3>2
  <2>4. ASSUME NEW d \in Callers, Done(d)  PROVE Kept(c) \/ caller'[c] = Idle
    BY <2>4 DEF Done, TypeOK
  <2>5. ASSUME NEW d \in Callers, CutOff(d)  PROVE Kept(c)
    <3>1. caller[d] \in Call  BY <2>5, Awaited, ProseIsAwaited DEF CutOff
    <3> QED  BY <2>5, <3>1 DEF CutOff, TypeOK, Call
  <2> QED
    BY <2>1, <2>2, <2>3, <2>4, <2>5, FirstTurns, SecondTurns
    DEF Next, End, Noted, Condemned, Failed, Used, Died, vars
<1>2. \A c \in Callers : caller'[c].ask \in Prose =>
        caller'[c].about \in Reviews
        /\ (Gated(caller'[c].prompt) => verdict'[caller'[c].prompt] = "safe")
  <2> TAKE c \in Callers
  <2> HAVE caller'[c].ask \in Prose
  <2>1. PICK b : b = caller'[c].prompt  OBVIOUS
  <2>2. caller'[c].about \in Reviews /\ Usable(b)  BY <1>1, <2>1
  <2>3. Usable(b)'  BY <2>2, SafeStays
  <2> QED  BY <2>1, <2>2, <2>3 DEF Usable
\* Reviews shown: those that were there, and one just written.
<1> DEFINE Good(l) == review'[l] # NoRun =>
      /\ review'[l] \in Runs'
      /\ runs'[review'[l]].kind = "narrative" /\ runs'[review'[l]].about = l
      /\ runs'[review'[l]].status = "ok"
      /\ Gated(runs'[review'[l]].prompt) => verdict'[runs'[review'[l]].prompt] = "safe"
<1>3. ASSUME NEW l \in Reviews, review'[l] = review[l],
             Runs \subseteq Runs', \A i \in Runs : runs'[i] = runs[i]
      PROVE  Good(l)
  BY <1>3, ShownStays
<1>4. ASSUME UNCHANGED <<runs, review>>, NEW l \in Reviews  PROVE Good(l)
  BY <1>3, <1>4 DEF Runs
<1>5. ASSUME NEW call \in Call, NEW status \in Free, NEW from \in Nat,
             Noted(call, status, from), NEW l \in Reviews
      PROVE  Good(l)
  <2>1. status \in Status /\ 0 \in Nat /\ Record(call, status, 0, 0, from)
    BY <1>5 DEF Noted, Free, Status
  <2> QED  BY <1>3, <1>5, <2>1, Recorded DEF Noted
<1>6. ASSUME NEW c \in Callers, NEW status \in {"ok", "error"}, Billed(c, status),
             UNCHANGED review, NEW l \in Reviews
      PROVE  Good(l)
  BY <1>3, <1>6, BilledRow
<1>7. ASSUME NEW c \in Callers, Used(c), NEW l \in Reviews  PROVE Good(l)
  <2>1. PICK n \in Nat : n = Len(runs) + 1  BY <1>7, BilledRow DEF Used
  <2>2. /\ Runs' = Runs \cup {n} /\ \A i \in Runs : runs'[i] = runs[i]
        /\ runs'[n].kind = StoredKind(caller[c].ask) /\ runs'[n].about = caller[c].about
        /\ runs'[n].prompt = caller[c].prompt /\ runs'[n].status = "ok"
    BY <1>7, <2>1, BilledRow DEF Used
  <2>3. CASE caller[c].ask \in Prose /\ caller[c].about = l
    <3>1. review'[l] = n
      BY <1>7, <2>1, <2>3 DEF Used, Effects, Shown, TypeOK
    <3>2. StoredKind(caller[c].ask) = "narrative"  BY <2>3 DEF Prose, StoredKind
    <3>3. PICK b : b = caller[c].prompt  OBVIOUS
    <3>4. Usable(b)'  BY <2>3, <3>3, SafeStays DEF Vetting
    <3> QED  BY <2>2, <2>3, <3>1, <3>2, <3>3, <3>4 DEF Usable
  <2>4. CASE ~(caller[c].ask \in Prose /\ caller[c].about = l)
    <3>1. review'[l] = review[l]
      BY <1>7, <2>4 DEF Used, Effects, Shown, TypeOK
    <3> QED  BY <1>3, <2>2, <3>1
  <2> QED  BY <2>3, <2>4
<1>8. ASSUME Died, NEW l \in Reviews  PROVE Good(l)
  BY <1>4, <1>6, <1>8 DEF Died
<1>9. \A l \in Reviews : Good(l)
  BY <1>4, <1>5, <1>6, <1>7, <1>8, FirstTurns, SecondTurns
  DEF Next, End, Sent, Condemned, Failed, CutOff, vars
<1> QED  BY <1>2, <1>9 DEF Vetting, ShownReviewsAreVetted, Usable

\* A review that is shown was written under instructions that passed their check.
THEOREM ReviewsVetted == Spec => []ShownReviewsAreVetted
<1>1. Vetting => ShownReviewsAreVetted  BY DEF Vetting
<1> QED
  BY <1>1, TypeInit, TypeStep, JudgingInit, JudgingStep, VettingInit, VettingStep, PTL
  DEF Spec

\* A text is judged once, within the cap, and what is shown was written under one
\* that passed.
THEOREM VerdictsKept == Spec => []VerdictsAreKept
<1>1. Judging /\ Vetting => VerdictsAreKept
  BY DEF Judging, Vetting, VerdictsAreKept
<1> QED
  BY <1>1, TypeInit, TypeStep, JudgingInit, JudgingStep, VettingInit, VettingStep, PTL
  DEF Spec
==============================================================================
