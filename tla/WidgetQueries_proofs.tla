------------------------ MODULE WidgetQueries_proofs ------------------------
(***************************************************************************)
(* Proofs about WidgetQueries, for any widgets, values, delay and number   *)
(* of evaluations.                                                         *)
(***************************************************************************)
EXTENDS WidgetQueries, TLAPS

-----------------------------------------------------------------------------
(* The inductive invariant.                                                *)

Delayed(i) == evals[i].stage = "delayed"

\* RjRequestTime lies at most Lateness before the last request, no timer is set
\* for a later time, timers are at least Delay apart from each other, and from
\* the last request but for its lateness.
Timers ==
  /\ age <= lastSend + Lateness
  /\ \A i \in DOMAIN evals : Delayed(i) =>
       /\ -Lateness <= evals[i].remaining
       /\ evals[i].remaining + age <= 0
       /\ evals[i].remaining + lastSend >= Delay - Lateness
  /\ \A i, j \in DOMAIN evals : Delayed(i) /\ Delayed(j) /\ i # j =>
       \/ evals[i].remaining >= evals[j].remaining + Delay
       \/ evals[j].remaining >= evals[i].remaining + Delay

IInv == TypeOK /\ CacheHoldsOwnAnswers /\ Timers

-----------------------------------------------------------------------------
(* Evaluations: one is added or one is replaced.                           *)

\* The n-th evaluation becomes e, the others stay.
Put(n, e) ==
  /\ evals' \in Seq(Evaluation) /\ Len(evals') <= MaxEvaluations
  /\ DOMAIN evals' = DOMAIN evals \cup {n}
  /\ evals'[n] = e
  /\ \A j \in DOMAIN evals \ {n} : evals'[j] = evals[j]

LEMMA PutLast ==
  ASSUME TypeOK, Len(evals) < MaxEvaluations, NEW e \in Evaluation, evals' = Append(evals, e)
  PROVE  Put(Len(evals) + 1, e) /\ Len(evals) + 1 \notin DOMAIN evals
  BY WidgetsAssumption DEF TypeOK, Put

LEMMA PutAt ==
  ASSUME TypeOK, NEW i \in DOMAIN evals, NEW e \in Evaluation,
         evals' = [evals EXCEPT ![i] = e]
  PROVE  Put(i, e)
<1>1. evals \in [1 .. Len(evals) -> Evaluation] /\ Len(evals) \in Nat /\ Len(evals) <= MaxEvaluations
  BY DEF TypeOK
<1>2. evals' \in [1 .. Len(evals) -> Evaluation]
  BY <1>1
<1>3. evals' \in Seq(Evaluation) /\ Len(evals') = Len(evals)
  BY <1>1, <1>2
<1> QED
  BY <1>1, <1>2, <1>3 DEF Put

\* The elements of evals are evaluations.
LEMMA EvaluationType ==
  ASSUME TypeOK, NEW i \in DOMAIN evals
  PROVE  /\ evals[i] \in Evaluation
         /\ evals[i].text \in Text
         /\ evals[i].callback \in Output \cup {NoOutput}
         /\ evals[i].stage \in Stage
         /\ evals[i].entry \in Shown \cup {Absent}
         /\ evals[i].remaining \in Int
<1>1. evals[i] \in Evaluation
  BY DEF TypeOK
<1> QED
  BY <1>1 DEF Evaluation

\* An evaluation that has ended is an evaluation.
LEMMA EndType ==
  ASSUME NEW r \in Evaluation, NEW stage \in Ended
  PROVE  LET e == [r EXCEPT !.stage = stage, !.entry = Absent, !.remaining = 0]
         IN e \in Evaluation /\ e.stage = stage
<1>1. stage \in Stage
  BY DEF Stage
<1>2. PICK r1 \in Evaluation : r1 = [r EXCEPT !.stage = stage]
  BY <1>1 DEF Evaluation
<1>3. PICK r2 \in Evaluation : r2 = [r1 EXCEPT !.entry = Absent]
  BY DEF Evaluation
<1>4. [r2 EXCEPT !.remaining = 0] \in Evaluation
  BY DEF Evaluation
<1>5. [r EXCEPT !.stage = stage, !.entry = Absent, !.remaining = 0] = [r2 EXCEPT !.remaining = 0]
  BY <1>2, <1>3
<1> QED
  BY <1>4, <1>5, <1>2, <1>3 DEF Evaluation

LEMMA EndPuts ==
  ASSUME TypeOK, NEW i \in DOMAIN evals, NEW stage \in Ended, End(i, stage)
  PROVE  \E e \in Evaluation : Put(i, e) /\ e.stage = stage
<1> DEFINE e == [evals[i] EXCEPT !.stage = stage, !.entry = Absent, !.remaining = 0]
<1>1. e \in Evaluation /\ e.stage = stage
  <2>1. evals[i] \in Evaluation
    BY EvaluationType
  <2> QED
    BY <2>1, EndType
<1>2. Put(i, e)
  BY <1>1, PutAt DEF End
<1> QED
  BY <1>1, <1>2

\* requestDelayer returns an evaluation.
LEMMA DelayerType ==
  ASSUME TypeOK, NEW e \in Evaluation
  PROVE  /\ requestDelayer(e).eval \in Evaluation
         /\ requestDelayer(e).age \in Int /\ requestDelayer(e).age <= Delay
         /\ requestDelayer(e).eval.stage \in {"sent", "delayed"}
         /\ requestDelayer(e).eval.text = e.text
         /\ age >= Delay => requestDelayer(e).eval.stage = "sent" /\ requestDelayer(e).age = 0
         /\ age < Delay => /\ requestDelayer(e).eval.stage = "delayed"
                           /\ requestDelayer(e).eval.remaining = Delay - age
                           /\ requestDelayer(e).age = age - Delay
<1>1. age \in Int /\ Delay \in Nat
  BY WidgetsAssumption DEF TypeOK
<1>2. "sent" \in Stage /\ "delayed" \in Stage /\ Delay - age \in Int /\ age - Delay \in Int
  BY <1>1 DEF Stage
<1>3. [e EXCEPT !.stage = "sent"] \in Evaluation
  BY <1>2 DEF Evaluation
<1>4. [e EXCEPT !.stage = "delayed", !.remaining = Delay - age] \in Evaluation
  BY <1>2 DEF Evaluation
<1>5. CASE age >= Delay
  BY <1>1, <1>3, <1>5 DEF requestDelayer, Evaluation
<1>6. CASE age < Delay
  BY <1>1, <1>2, <1>4, <1>6 DEF requestDelayer, Evaluation
<1> QED
  BY <1>1, <1>5, <1>6

\* A step that starts no timer and sends no request keeps the timers.
LEMMA TimersKeep ==
  ASSUME TypeOK, Timers, NEW n, NEW e, Put(n, e), e.stage # "delayed",
         age' = age, lastSend' = lastSend
  PROVE  Timers'
  BY DEF Timers, Put, Delayed

\* requestDelayer sends only when no timer is set, and sets a timer that comes
\* at least Delay after all others.
LEMMA TimersDelayer ==
  ASSUME TypeOK, Timers, NEW n, NEW e \in Evaluation,
         Put(n, e), n \in DOMAIN evals => ~Delayed(n),
         \/ e.stage = "sent" /\ age >= Delay /\ age' = 0 /\ lastSend' = 0
         \/ /\ e.stage = "delayed" /\ e.remaining = Delay - age
            /\ age < Delay /\ age' = age - Delay /\ lastSend' = lastSend
  PROVE  Timers'
<1>0. /\ age \in Int /\ lastSend \in Int /\ Delay \in Nat /\ Lateness \in Nat /\ Lateness < Delay
      /\ \A j \in DOMAIN evals : evals[j].remaining \in Int
  BY WidgetsAssumption, EvaluationType DEF TypeOK
<1>1. CASE e.stage = "sent"
  <2>1. \A j \in DOMAIN evals : ~Delayed(j)
    BY <1>0, <1>1 DEF Timers
  <2>2. \A j \in DOMAIN evals' : ~(evals'[j].stage = "delayed")
    BY <1>1, <2>1 DEF Put, Delayed
  <2> QED
    BY <1>0, <1>1, <2>2 DEF Timers, Delayed
<1>2. CASE e.stage = "delayed"
  <2>0. e.remaining = Delay - age /\ age < Delay /\ age' = age - Delay /\ lastSend' = lastSend
    BY <1>2
  <2>1. ASSUME NEW j \in DOMAIN evals', evals'[j].stage = "delayed", j # n
        PROVE  /\ evals'[j] = evals[j] /\ j \in DOMAIN evals /\ Delayed(j)
               /\ e.remaining >= evals[j].remaining + Delay
    <3>1. evals'[j] = evals[j] /\ j \in DOMAIN evals /\ Delayed(j)
      BY <2>1 DEF Put, Delayed
    <3> QED
      BY <1>0, <2>0, <3>1 DEF Timers
  <2>2. age' <= lastSend' + Lateness'
    BY <1>0, <2>0 DEF Timers
  <2>3. ASSUME NEW j \in DOMAIN evals', evals'[j].stage = "delayed"
        PROVE  /\ -Lateness <= evals'[j].remaining
               /\ evals'[j].remaining + age' <= 0
               /\ evals'[j].remaining + lastSend' >= Delay - Lateness
    <3>1. CASE j = n
      BY <1>0, <2>0, <3>1 DEF Timers, Put
    <3>2. CASE j # n
      BY <1>0, <2>0, <2>1, <2>3, <3>2 DEF Timers
    <3> QED
      BY <3>1, <3>2
  <2>4. ASSUME NEW j \in DOMAIN evals', NEW k \in DOMAIN evals', j # k,
               evals'[j].stage = "delayed", evals'[k].stage = "delayed"
        PROVE  \/ evals'[j].remaining >= evals'[k].remaining + Delay
               \/ evals'[k].remaining >= evals'[j].remaining + Delay
    <3>1. CASE j # n /\ k # n
      BY <2>1, <2>4, <3>1 DEF Timers
    <3>2. CASE j = n
      BY <2>1, <2>4, <3>2 DEF Put
    <3>3. CASE k = n
      BY <2>1, <2>4, <3>3 DEF Put
    <3> QED
      BY <3>1, <3>2, <3>3
  <2> QED
    BY <2>2, <2>3, <2>4 DEF Timers, Delayed
<1> QED
  BY <1>1, <1>2

\* The first timer fires: it is at most Lateness late, the others are Delay later.
LEMMA TimersFire ==
  ASSUME TypeOK, Timers, NEW i \in DOMAIN evals, sendDelayed(i), NEW e, Put(i, e),
         e.stage = "sent"
  PROVE  Timers'
<1>0. /\ age \in Int /\ lastSend \in Int /\ Delay \in Nat /\ Lateness \in Nat
      /\ \A j \in DOMAIN evals : evals[j].remaining \in Int
  BY WidgetsAssumption, EvaluationType DEF TypeOK
<1>1. /\ Delayed(i) /\ evals[i].remaining <= 0
      /\ \A j \in DOMAIN evals : Delayed(j) => evals[i].remaining <= evals[j].remaining
      /\ lastSend' = 0 /\ age' = age
  BY DEF sendDelayed, At, Delayed
<1>2. age' <= lastSend' + Lateness
  BY <1>0, <1>1 DEF Timers
<1>3. ASSUME NEW j \in DOMAIN evals', evals'[j].stage = "delayed"
      PROVE  j \in DOMAIN evals /\ j # i /\ evals'[j] = evals[j] /\ Delayed(j)
  BY <1>3 DEF Put, Delayed
<1>4. ASSUME NEW j \in DOMAIN evals', evals'[j].stage = "delayed"
      PROVE  /\ -Lateness <= evals'[j].remaining
             /\ evals'[j].remaining + age' <= 0
             /\ evals'[j].remaining + lastSend' >= Delay - Lateness
  <2>1. evals[j].remaining >= evals[i].remaining + Delay
    <3>1. \/ evals[j].remaining >= evals[i].remaining + Delay
          \/ evals[i].remaining >= evals[j].remaining + Delay
      BY <1>1, <1>3, <1>4 DEF Timers
    <3>2. evals[i].remaining <= evals[j].remaining
      BY <1>1, <1>3, <1>4
    <3> QED
      BY <1>0, <1>3, <1>4, <3>1, <3>2
  <2> QED
    BY <1>0, <1>1, <1>3, <1>4, <2>1 DEF Timers
<1>5. \A j, k \in DOMAIN evals' :
        evals'[j].stage = "delayed" /\ evals'[k].stage = "delayed" /\ j # k =>
          \/ evals'[j].remaining >= evals'[k].remaining + Delay
          \/ evals'[k].remaining >= evals'[j].remaining + Delay
  BY <1>3 DEF Timers
<1> QED
  BY <1>2, <1>4, <1>5 DEF Timers, Delayed

\* A request that was neither waiting for its timer nor is sent.
LEMMA InvEnd ==
  ASSUME IInv, NEW i \in DOMAIN evals, NEW stage \in Ended, End(i, stage),
         UNCHANGED <<setup, value, variables, callbacks, age, lastSend, changed>>,
         calm' \in BOOLEAN,
         shown' \in [Output -> Shown],
         cache' \in [HashCode -> Shown \cup {Absent}],
         CacheHoldsOwnAnswers'
  PROVE  IInv'
<1>1. PICK e \in Evaluation : Put(i, e) /\ e.stage = stage
  BY EndPuts DEF IInv
<1>2. stage # "delayed"
  BY DEF Ended
<1>3. Timers'
  BY <1>1, <1>2, TimersKeep DEF IInv
<1>4. TypeOK'
  BY <1>1 DEF TypeOK, IInv, Put, setup
<1> QED
  BY <1>3, <1>4 DEF IInv

\* requestDelayer is called for the n-th evaluation.
LEMMA InvDelayer ==
  ASSUME IInv, NEW e \in Evaluation, NEW n, NEW entry \in Shown \cup {Absent},
         Put(n, [requestDelayer(e).eval EXCEPT !.entry = entry]),
         n \in DOMAIN evals => ~Delayed(n),
         age' = requestDelayer(e).age, SentNow(requestDelayer(e).eval)
  PROVE  Timers' /\ age' \in Int /\ age' <= Delay /\ lastSend' \in 0 .. Delay
<1> DEFINE d == requestDelayer(e)
           f == [d.eval EXCEPT !.entry = entry]
<1>0. TypeOK /\ age \in Int /\ Delay \in Nat
  BY WidgetsAssumption DEF IInv, TypeOK
<1>1. /\ d.eval \in Evaluation
      /\ d.age \in Int /\ d.age <= Delay
      /\ d.eval.stage \in {"sent", "delayed"}
      /\ age >= Delay => d.eval.stage = "sent" /\ d.age = 0
      /\ age < Delay => d.eval.stage = "delayed" /\ d.eval.remaining = Delay - age /\ d.age = age - Delay
  BY <1>0, DelayerType
<1>2. /\ SentNow(d.eval) /\ age' = d.age
      /\ Put(n, f)
  OBVIOUS
<1> HIDE DEF d
<1>3. f \in Evaluation /\ f.stage = d.eval.stage /\ f.remaining = d.eval.remaining
  <2> PICK g \in Evaluation : g = d.eval
    BY <1>1
  <2> QED
    BY DEF Evaluation
<1> HIDE DEF f
<1>4. CASE age >= Delay
  <2>1. f.stage = "sent" /\ age' = 0 /\ lastSend' = 0
    BY <1>1, <1>2, <1>3, <1>4 DEF SentNow
  <2>2. Timers'
    BY <1>0, <1>2, <1>3, <1>4, <2>1, TimersDelayer DEF IInv
  <2> QED
    BY <1>0, <2>1, <2>2
<1>5. CASE age < Delay
  <2>1. f.stage = "delayed" /\ f.remaining = Delay - age /\ age' = age - Delay /\ lastSend' = lastSend
    BY <1>1, <1>2, <1>3, <1>5 DEF SentNow
  <2>2. Timers'
    BY <1>0, <1>2, <1>3, <1>5, <2>1, TimersDelayer DEF IInv
  <2> QED
    BY <1>0, <1>1, <1>2, <2>1, <2>2 DEF TypeOK
<1> QED
  BY <1>0, <1>4, <1>5

\* Every text has a hash code.
LEMMA HashType == \A text \in Text : toHashCode(text) \in HashCode
  BY WidgetsAssumption DEF toHashCode

\* An evaluation that is started keeps the invariant about evaluations.
LEMMA InvEvaluate ==
  ASSUME IInv, NEW text \in Text, NEW callback \in Output \cup {NoOutput},
         evaluate(text, callback)
  PROVE  /\ Timers'
         /\ evals' \in Seq(Evaluation) /\ Len(evals') <= MaxEvaluations
         /\ age' \in Int /\ age' <= Delay /\ lastSend' \in 0 .. Delay
<1> DEFINE e == start(text, callback)
<1>0. TypeOK /\ Len(evals) < MaxEvaluations
  BY DEF IInv, evaluate
<1>1. e \in Evaluation /\ e.stage # "delayed"
  <2>1. cache[toHashCode(text)] \in Shown \cup {Absent} /\ "exists" \in Stage
    BY <1>0, HashType DEF TypeOK, Stage
  <2> QED
    BY <2>1 DEF start, Evaluation
<1> HIDE DEF e
<1>2. CASE cached
  <2>1. evals' = Append(evals, e) /\ age' = age /\ lastSend' = lastSend
    BY <1>2 DEF evaluate, e
  <2>2. Put(Len(evals) + 1, e)
    BY <1>0, <1>1, <2>1, PutLast
  <2>3. Timers'
    BY <1>0, <1>1, <2>1, <2>2, TimersKeep DEF IInv
  <2> QED
    BY <1>0, <2>1, <2>2, <2>3 DEF TypeOK, Put
<1>3. CASE ~cached
  <2> DEFINE f == [requestDelayer(e).eval EXCEPT !.entry = Absent]
  <2>1. evals' = Append(evals, f) /\ age' = requestDelayer(e).age /\ SentNow(requestDelayer(e).eval)
    BY <1>3 DEF evaluate, e
  <2>2. f \in Evaluation
    <3> PICK g \in Evaluation : g = requestDelayer(e).eval
      BY <1>0, <1>1, DelayerType
    <3> QED
      BY DEF Evaluation
  <2>3. Put(Len(evals) + 1, f) /\ Len(evals) + 1 \notin DOMAIN evals
    BY <1>0, <2>1, <2>2, PutLast
  <2>4. Timers' /\ age' \in Int /\ age' <= Delay /\ lastSend' \in 0 .. Delay
    BY <1>1, <2>1, <2>3, InvDelayer
  <2> QED
    BY <2>3, <2>4 DEF Put
<1> QED
  BY <1>2, <1>3

-----------------------------------------------------------------------------
(* Every action keeps the invariant.                                       *)

\* What is shown are answers.
LEMMA ShownType ==
  ASSUME TypeOK, NEW e, NEW response \in Shown, handleCallback(e, response)
  PROVE  shown' \in [Output -> Shown]
  BY DEF TypeOK, handleCallback

\* The variables of a query that is ready are a text.
LEMMA ReadyText ==
  ASSUME NEW vs \in [Input -> Value \cup {Undefined}], isReady(vs)
  PROVE  vs \in Text
  BY DEF isReady, Text

LEMMA AnswerType == ASSUME NEW text \in Text PROVE Answer(text) \in Shown
  BY DEF Answer, Shown

LEMMA InvInit == Init => IInv
<1> SUFFICES ASSUME Init PROVE IInv
  OBVIOUS
<1>1. TypeOK
  <2>1. evals \in Seq(Evaluation) /\ Len(evals) <= MaxEvaluations
    BY WidgetsAssumption DEF Init
  <2>2. age \in Int /\ age <= Delay /\ lastSend \in 0 .. Delay
    BY WidgetsAssumption DEF Init
  <2>3. shown \in [Output -> Shown] /\ cache \in [HashCode -> Shown \cup {Absent}]
    BY DEF Init, Shown
  <2> QED
    BY <2>1, <2>2, <2>3, WidgetsAssumption DEF Init, TypeOK
<1>2. CacheHoldsOwnAnswers
  BY DEF Init, CacheHoldsOwnAnswers
<1>3. Timers
  BY WidgetsAssumption DEF Init, Timers
<1> QED
  BY <1>1, <1>2, <1>3 DEF IInv

LEMMA InvExists == ASSUME IInv, NEW i, existsCallback(i) PROVE IInv'
<1>0. i \in DOMAIN evals /\ evals[i].stage = "exists" /\ ~Delayed(i) /\ TypeOK
  BY DEF existsCallback, At, Delayed, IInv
<1>a. evals[i] \in Evaluation /\ evals[i].text \in Text
  BY <1>0, EvaluationType
<1>b. PICK r \in Evaluation : r = evals[i]
  BY <1>a
<1>1. CASE evals[i].entry # Absent
  <2> DEFINE e == [r EXCEPT !.stage = "get", !.entry = cache[toHashCode(evals[i].text)]]
  <2>1. evals' = [evals EXCEPT ![i] = e] /\ age' = age /\ lastSend' = lastSend
    BY <1>1, <1>b DEF existsCallback
  <2>2. e \in Evaluation /\ e.stage = "get"
    <3>1. cache[toHashCode(evals[i].text)] \in Shown \cup {Absent} /\ "get" \in Stage
      BY <1>0, <1>a, HashType DEF TypeOK, Stage
    <3> QED
      BY <3>1 DEF Evaluation
  <2>3. Put(i, e)
    BY <1>0, <2>1, <2>2, PutAt
  <2>4. Timers'
    BY <2>1, <2>2, <2>3, TimersKeep DEF IInv
  <2>5. TypeOK' /\ CacheHoldsOwnAnswers'
    BY <2>1, <2>3 DEF existsCallback, IInv, TypeOK, Put, setup, CacheHoldsOwnAnswers
  <2> QED
    BY <2>4, <2>5 DEF IInv
<1>2. CASE evals[i].entry = Absent
  <2> DEFINE d == requestDelayer(r)
             f == [d.eval EXCEPT !.entry = Absent]
  <2>1. evals' = [evals EXCEPT ![i] = d.eval] /\ age' = d.age /\ SentNow(d.eval)
    BY <1>2, <1>b DEF existsCallback
  <2>2. d.eval \in Evaluation /\ d.eval.entry = Absent
    <3>1. d.eval \in Evaluation
      BY <1>0, DelayerType
    <3>2. d.eval.entry = r.entry
      BY DEF requestDelayer, Evaluation
    <3> QED
      BY <1>2, <1>b, <3>1, <3>2
  <2>3. f = d.eval
    <3> PICK g \in Evaluation : g = d.eval
      BY <2>2
    <3> QED
      BY <2>2 DEF Evaluation
  <2>4. Put(i, f)
    BY <1>0, <2>1, <2>2, <2>3, PutAt
  <2>5. Timers' /\ age' \in Int /\ age' <= Delay /\ lastSend' \in 0 .. Delay
    BY <1>0, <2>1, <2>4, InvDelayer
  <2>6. TypeOK' /\ CacheHoldsOwnAnswers'
    BY <2>4, <2>5 DEF existsCallback, IInv, TypeOK, Put, setup, CacheHoldsOwnAnswers
  <2> QED
    BY <2>5, <2>6 DEF IInv
<1> QED
  BY <1>1, <1>2

LEMMA InvGet == ASSUME IInv, NEW i, getCallback(i) PROVE IInv'
<1>0. i \in DOMAIN evals /\ TypeOK /\ CacheHoldsOwnAnswers
  BY DEF getCallback, At, IInv
<1>1. evals[i].entry \in Shown \cup {Absent}
  BY <1>0, EvaluationType
<1>2. UNCHANGED <<setup, value, variables, callbacks, cache, age, lastSend, changed>>
  BY DEF getCallback
<1>3. cache' \in [HashCode -> Shown \cup {Absent}] /\ CacheHoldsOwnAnswers'
  BY <1>0, <1>2 DEF TypeOK, CacheHoldsOwnAnswers
<1>4. CASE evals[i].entry \in {Absent, Nothing}
  <2>1. End(i, "silent") /\ calm' = FALSE /\ shown' = shown
    BY <1>4 DEF getCallback
  <2>2. "silent" \in Ended /\ calm' \in BOOLEAN /\ shown' \in [Output -> Shown]
    BY <1>0, <2>1 DEF TypeOK, Ended
  <2> QED
    BY <1>0, <1>2, <1>3, <2>1, <2>2, InvEnd
<1>5. CASE evals[i].entry \notin {Absent, Nothing}
  <2>1. /\ End(i, "answered") /\ handleCallback(evals[i], evals[i].entry)
        /\ calm' = (calm /\ evals[i].entry = Answer(evals[i].text) /\ ~Overtaken(i))
    BY <1>5 DEF getCallback
  <2>2. shown' \in [Output -> Shown]
    BY <1>0, <1>1, <1>5, <2>1, ShownType
  <2>3. "answered" \in Ended /\ calm' \in BOOLEAN
    BY <2>1 DEF Ended
  <2> QED
    BY <1>0, <1>2, <1>3, <2>1, <2>2, <2>3, InvEnd
<1> QED
  BY <1>4, <1>5

LEMMA InvSend == ASSUME IInv, NEW i, sendDelayed(i) PROVE IInv'
<1>0. i \in DOMAIN evals /\ TypeOK
  BY DEF sendDelayed, At, IInv
<1>1. PICK r \in Evaluation : r = evals[i]
  BY <1>0, EvaluationType
<1> DEFINE e == [r EXCEPT !.stage = "sent", !.remaining = 0]
<1>2. e \in Evaluation /\ e.stage = "sent"
  <2>1. "sent" \in Stage
    BY DEF Stage
  <2>2. PICK q \in Evaluation : q = [r EXCEPT !.stage = "sent"]
    BY <2>1 DEF Evaluation
  <2>3. [q EXCEPT !.remaining = 0] \in Evaluation
    BY DEF Evaluation
  <2>4. [q EXCEPT !.remaining = 0].stage = q.stage /\ q.stage = "sent"
    BY <2>2 DEF Evaluation
  <2>5. e = [q EXCEPT !.remaining = 0]
    BY <2>2
  <2> QED
    BY <2>3, <2>4, <2>5
<1>3. Put(i, e)
  BY <1>0, <1>1, <1>2, PutAt DEF sendDelayed
<1>4. Timers'
  BY <1>0, <1>2, <1>3, TimersFire DEF IInv
<1>5. TypeOK' /\ CacheHoldsOwnAnswers'
  BY <1>3, WidgetsAssumption DEF sendDelayed, IInv, TypeOK, Put, setup, CacheHoldsOwnAnswers
<1> QED
  BY <1>4, <1>5 DEF IInv

\* The answer is stored under the key of its own request.
LEMMA InvSuccess ==
  ASSUME IInv, NEW i \in DOMAIN evals, NEW response \in {Answer(evals[i].text), Nothing},
         success(i, response), calm' \in BOOLEAN
  PROVE  IInv'
<1>0. TypeOK /\ CacheHoldsOwnAnswers /\ evals[i].text \in Text
  BY EvaluationType DEF IInv
<1>1. response \in Shown
  BY <1>0, AnswerType DEF Shown
<1>2. cache' \in [HashCode -> Shown \cup {Absent}] /\ CacheHoldsOwnAnswers'
  <2>1. CASE ~cached
    BY <1>0, <2>1 DEF success, set, TypeOK, CacheHoldsOwnAnswers
  <2>2. CASE cached
    <3>1. cache' = [cache EXCEPT ![toHashCode(evals[i].text)] = IF binary THEN Garbled ELSE response]
      BY <2>2 DEF success, set, Key
    <3>2. Garbled \in Shown
      BY DEF Shown
    <3>3. PICK key \in HashCode : key = toHashCode(evals[i].text)
      BY <1>0, HashType
    <3>4. cache' = [cache EXCEPT ![key] = IF binary THEN Garbled ELSE response]
      BY <3>1, <3>3
    <3>5. cache' \in [HashCode -> Shown \cup {Absent}]
      BY <1>0, <1>1, <3>2, <3>4 DEF TypeOK
    <3>6. cache'[key] \in {Nothing, Garbled, Answer(evals[i].text)}
      BY <1>0, <3>4 DEF TypeOK
    <3>7. \A k \in HashCode \ {key} : cache'[k] = cache[k]
      BY <1>0, <3>4 DEF TypeOK
    <3>8. CacheHoldsOwnAnswers'
      BY <1>0, <3>3, <3>6, <3>7 DEF CacheHoldsOwnAnswers
    <3> QED
      BY <3>5, <3>8
  <2> QED
    BY <2>1, <2>2
<1>3. shown' \in [Output -> Shown]
  BY <1>0, <1>1, ShownType DEF success
<1>4. "answered" \in Ended
  BY DEF Ended
<1> QED
  BY <1>2, <1>3, <1>4, InvEnd DEF success

LEMMA InvNetwork == ASSUME IInv, NEW i, networkStep(i) PROVE IInv'
<1>0. TypeOK /\ CacheHoldsOwnAnswers
  BY DEF IInv
<1>1. CASE answer(i)
  <2>1. i \in DOMAIN evals /\ calm' \in BOOLEAN
    BY <1>1 DEF answer, success, At
  <2> QED
    BY <1>1, <2>1, InvSuccess DEF answer
<1>2. CASE reportError(i)
  <2>1. /\ i \in DOMAIN evals /\ End(i, "reported") /\ "reported" \in Ended
        /\ UNCHANGED <<setup, value, variables, callbacks, shown, cache, age, lastSend, changed>>
        /\ calm' \in BOOLEAN
    BY <1>2 DEF reportError, At, Ended
  <2>2. /\ shown' \in [Output -> Shown] /\ cache' \in [HashCode -> Shown \cup {Absent}]
        /\ CacheHoldsOwnAnswers'
    BY <1>0, <2>1 DEF TypeOK, CacheHoldsOwnAnswers
  <2> QED
    BY <2>1, <2>2, InvEnd
<1>3. CASE unreachable(i) /\ ~binary
  <2>1. i \in DOMAIN evals /\ calm' \in BOOLEAN /\ success(i, Nothing)
    BY <1>3 DEF unreachable, At
  <2> QED
    BY <2>1, InvSuccess
<1>4. CASE unreachable(i) /\ binary
  <2>1. /\ i \in DOMAIN evals /\ End(i, "silent") /\ "silent" \in Ended
        /\ UNCHANGED <<setup, value, variables, callbacks, shown, cache, age, lastSend, changed>>
        /\ calm' \in BOOLEAN
    BY <1>4 DEF unreachable, At, Ended
  <2>2. /\ shown' \in [Output -> Shown] /\ cache' \in [HashCode -> Shown \cup {Absent}]
        /\ CacheHoldsOwnAnswers'
    BY <1>0, <2>1 DEF TypeOK, CacheHoldsOwnAnswers
  <2> QED
    BY <2>1, <2>2, InvEnd
<1> QED
  BY <1>1, <1>2, <1>3, <1>4 DEF networkStep

\* Steps that concern neither evaluations nor the cache.
LEMMA InvBind ==
  ASSUME IInv, UNCHANGED <<evals, cache, age, lastSend, cached, binary, value, callbacks, shown>>,
         loading' \in BOOLEAN, changed' \in BOOLEAN, calm' \in BOOLEAN,
         variables' \in [Input -> Value \cup {Undefined}],
         bound' \subseteq Input, listener' \in Output \cup {NoOutput}
  PROVE  IInv'
  BY DEF IInv, TypeOK, CacheHoldsOwnAnswers, Timers, Delayed

LEMMA InvSetup ==
  ASSUME IInv, \/ \E i \in Input : bindInput(i)
               \/ \E o \in Output : bindOutput(o)
               \/ loaded
  PROVE  IInv'
<1>0. TypeOK
  BY DEF IInv
<1>1. ASSUME NEW i \in Input, bindInput(i) PROVE IInv'
  <2>1. variables' \in [Input -> Value \cup {Undefined}] /\ bound' \subseteq Input
    BY <1>0, <1>1 DEF bindInput, TypeOK
  <2> QED
    BY <1>0, <1>1, <2>1, InvBind DEF bindInput, TypeOK
<1>2. ASSUME NEW o \in Output, bindOutput(o) PROVE IInv'
  BY <1>0, <1>2, InvBind DEF bindOutput, TypeOK
<1>3. CASE loaded
  BY <1>0, <1>3, InvBind DEF loaded, TypeOK
<1> QED
  BY <1>1, <1>2, <1>3

LEMMA InvImage == ASSUME IInv, NEW o \in Output, bindImage(o) PROVE IInv'
<1>1. variables \in Text /\ evaluate(variables, o)
  BY ReadyText DEF bindImage, IInv, TypeOK
<1>2. PICK text \in Text : text = variables
  BY <1>1
<1>3. evaluate(text, o)
  BY <1>1, <1>2 DEF evaluate, start
<1>4. /\ Timers'
      /\ evals' \in Seq(Evaluation) /\ Len(evals') <= MaxEvaluations
      /\ age' \in Int /\ age' <= Delay /\ lastSend' \in 0 .. Delay
  BY <1>3, InvEvaluate
<1> QED
  BY <1>4 DEF bindImage, IInv, TypeOK, CacheHoldsOwnAnswers

LEMMA InvApplication ==
  ASSUME IInv, NEW o \in Output \cup {NoOutput}, applicationEvaluates(o) PROVE IInv'
<1>1. variables \in Text /\ evaluate(variables, o)
  BY ReadyText DEF applicationEvaluates, IInv, TypeOK
<1>2. PICK text \in Text : text = variables
  BY <1>1
<1>3. evaluate(text, o)
  BY <1>1, <1>2 DEF evaluate, start
<1>4. /\ Timers'
      /\ evals' \in Seq(Evaluation) /\ Len(evals') <= MaxEvaluations
      /\ age' \in Int /\ age' <= Delay /\ lastSend' \in 0 .. Delay
  BY <1>3, InvEvaluate
<1> QED
  BY <1>4 DEF applicationEvaluates, IInv, TypeOK, CacheHoldsOwnAnswers, setup

LEMMA InvSetValue ==
  ASSUME IInv, NEW i \in Input, NEW v \in Value, setValue(i, v) PROVE IInv'
<1>0. TypeOK
  BY DEF IInv
<1>1. variables' \in [Input -> Value \cup {Undefined}] /\ value' \in [Input -> Value \cup {Undefined}]
  BY <1>0 DEF setValue, valuechanged, TypeOK
<1>2. /\ Timers'
      /\ evals' \in Seq(Evaluation) /\ Len(evals') <= MaxEvaluations
      /\ age' \in Int /\ age' <= Delay /\ lastSend' \in 0 .. Delay
  <2>1. CASE evals' = evals /\ age' = age /\ lastSend' = lastSend
    BY <1>0, <2>1 DEF IInv, Timers, Delayed, TypeOK
  <2>2. CASE isReady(variables') /\ evaluate(variables', NoOutput)
    <3>1. PICK text \in Text : text = variables'
      BY <1>1, <2>2, ReadyText
    <3>2. evaluate(text, NoOutput)
      BY <2>2, <3>1 DEF evaluate, start
    <3> QED
      BY <3>2, InvEvaluate
  <2> QED
    BY <2>1, <2>2 DEF setValue, valuechanged
<1> QED
  BY <1>1, <1>2 DEF setValue, IInv, TypeOK, CacheHoldsOwnAnswers, setup

LEMMA InvClear == ASSUME IInv, clearCache PROVE IInv'
  BY DEF clearCache, IInv, TypeOK, CacheHoldsOwnAnswers, Timers, Delayed, setup

\* Time passes for all timers alike.  RjRequestTime is never Delay ago while a
\* timer is set.
LEMMA InvTick == ASSUME IInv, tick PROVE IInv'
<1>0. /\ TypeOK /\ age \in Int /\ age <= Delay /\ lastSend \in 0 .. Delay
      /\ Delay \in Nat /\ Lateness \in Nat /\ Lateness < Delay
      /\ \A j \in DOMAIN evals : evals[j] \in Evaluation /\ evals[j].remaining \in Int
  BY WidgetsAssumption, EvaluationType DEF IInv, TypeOK
<1>1. ASSUME NEW r \in Evaluation
      PROVE  /\ [r EXCEPT !.remaining = @ - 1] \in Evaluation
             /\ [r EXCEPT !.remaining = @ - 1].stage = r.stage
             /\ [r EXCEPT !.remaining = @ - 1].remaining = r.remaining - 1
  <2>1. r.remaining - 1 \in Int
    BY DEF Evaluation
  <2> QED
    BY <2>1 DEF Evaluation
<1>2. /\ evals' \in Seq(Evaluation) /\ Len(evals') = Len(evals) /\ DOMAIN evals' = DOMAIN evals
      /\ \A j \in DOMAIN evals :
           /\ evals'[j].stage = evals[j].stage
           /\ Delayed(j) => evals'[j].remaining = evals[j].remaining - 1
  <2>1. evals \in [1 .. Len(evals) -> Evaluation] /\ Len(evals) \in Nat /\ DOMAIN evals = 1 .. Len(evals)
    BY <1>0 DEF TypeOK
  <2>2. evals' = [j \in DOMAIN evals |->
                    IF evals[j].stage = "delayed" THEN [evals[j] EXCEPT !.remaining = @ - 1] ELSE evals[j]]
    BY DEF tick
  <2>3. ASSUME NEW j \in DOMAIN evals
        PROVE  /\ evals'[j] \in Evaluation /\ evals'[j].stage = evals[j].stage
               /\ Delayed(j) => evals'[j].remaining = evals[j].remaining - 1
    BY <1>0, <1>1, <2>2 DEF Delayed
  <2>4. evals' \in [1 .. Len(evals) -> Evaluation]
    BY <2>1, <2>2, <2>3
  <2> QED
    BY <2>1, <2>3, <2>4
<1>3. lastSend' \in 0 .. Delay /\ age' \in Int /\ age' <= Delay
  BY <1>0 DEF tick
<1>4. TypeOK' /\ CacheHoldsOwnAnswers'
  BY <1>0, <1>2, <1>3 DEF tick, IInv, TypeOK, CacheHoldsOwnAnswers, setup
<1>5. Timers'
  <2>1. age' <= lastSend' + Lateness
    BY <1>0 DEF tick, IInv, Timers
  <2>2. ASSUME NEW j \in DOMAIN evals', evals'[j].stage = "delayed"
        PROVE  /\ -Lateness <= evals'[j].remaining
               /\ evals'[j].remaining + age' <= 0
               /\ evals'[j].remaining + lastSend' >= Delay - Lateness
    <3>1. j \in DOMAIN evals /\ Delayed(j) /\ evals'[j].remaining = evals[j].remaining - 1
      BY <1>2, <2>2 DEF Delayed
    <3>2. /\ evals[j].remaining > -Lateness
          /\ evals[j].remaining + age <= 0
          /\ evals[j].remaining + lastSend >= Delay - Lateness
      BY <3>1 DEF tick, IInv, Timers, Delayed
    <3>3. age < Delay
      BY <1>0, <3>1, <3>2
    <3> QED
      BY <1>0, <3>1, <3>2, <3>3 DEF tick
  <2>3. ASSUME NEW j \in DOMAIN evals', NEW k \in DOMAIN evals', j # k,
               evals'[j].stage = "delayed", evals'[k].stage = "delayed"
        PROVE  \/ evals'[j].remaining >= evals'[k].remaining + Delay
               \/ evals'[k].remaining >= evals'[j].remaining + Delay
    <3>1. /\ j \in DOMAIN evals /\ Delayed(j) /\ evals'[j].remaining = evals[j].remaining - 1
          /\ k \in DOMAIN evals /\ Delayed(k) /\ evals'[k].remaining = evals[k].remaining - 1
      BY <1>2, <2>3 DEF Delayed
    <3>2. \/ evals[j].remaining >= evals[k].remaining + Delay
          \/ evals[k].remaining >= evals[j].remaining + Delay
      BY <2>3, <3>1 DEF IInv, Timers
    <3> QED
      BY <1>0, <3>1, <3>2
  <2> QED
    BY <2>1, <2>2, <2>3 DEF Timers, Delayed
<1> QED
  BY <1>4, <1>5 DEF IInv

\* IInv is inductive.
LEMMA InvStep == ASSUME IInv, [Next]_vars PROVE IInv'
<1>1. CASE UNCHANGED vars
  BY <1>1 DEF vars, setup, IInv, TypeOK, CacheHoldsOwnAnswers, Timers, Delayed
<1>2. CASE Next
  BY <1>2, InvExists, InvGet, InvSend, InvNetwork, InvSetup, InvImage, InvApplication,
     InvSetValue, InvClear, InvTick
  DEF Next, browserStep
<1> QED
  BY <1>1, <1>2

LEMMA Invariance == Spec => []IInv
  BY InvInit, InvStep, PTL DEF Spec

-----------------------------------------------------------------------------
(* The theorems.                                                           *)

\* The types of the state of widgets, query, cache and delayed requests.
THEOREM TypeCorrect == Spec => []TypeOK
  BY Invariance, PTL DEF IInv

\* Whatever hash function the cache uses, an answer is only ever stored under
\* the key of the query it answers, even when the variables change on its way.
THEOREM CacheCorrect == Spec => []CacheHoldsOwnAnswers
  BY Invariance, PTL DEF IInv

\* The steps that send no request.
Unsent ==
  \A i \in DOMAIN evals' :
    evals'[i].stage = "sent" => i \in DOMAIN evals /\ evals[i].stage = "sent"

\* While RjRequestTime is less than Delay ago, a new evaluation is not sent.
LEMMA EvaluateUnsent ==
  ASSUME IInv, age < Delay, NEW text \in Text, NEW callback \in Output \cup {NoOutput},
         evaluate(text, callback)
  PROVE  Unsent
<1> DEFINE e == start(text, callback)
<1>0. TypeOK /\ Len(evals) < MaxEvaluations
  BY DEF IInv, evaluate
<1>1. e \in Evaluation /\ e.stage = "exists"
  <2>1. cache[toHashCode(text)] \in Shown \cup {Absent} /\ "exists" \in Stage
    BY <1>0, HashType DEF TypeOK, Stage
  <2> QED
    BY <2>1 DEF start, Evaluation
<1> HIDE DEF e
<1>2. PICK f \in Evaluation : evals' = Append(evals, f) /\ f.stage # "sent"
  <2>1. CASE cached
    BY <1>1, <2>1 DEF evaluate, e
  <2>2. CASE ~cached
    <3>1. PICK g \in Evaluation : g = requestDelayer(e).eval /\ g.stage = "delayed"
      BY <1>0, <1>1, DelayerType
    <3>2. [g EXCEPT !.entry = Absent] \in Evaluation /\ [g EXCEPT !.entry = Absent].stage = "delayed"
      BY <3>1 DEF Evaluation
    <3>3. evals' = Append(evals, [g EXCEPT !.entry = Absent])
      BY <2>2, <3>1 DEF evaluate, e
    <3> QED
      BY <3>2, <3>3
  <2> QED
    BY <2>1, <2>2
<1>3. Put(Len(evals) + 1, f)
  BY <1>0, <1>2, PutLast
<1> QED
  BY <1>2, <1>3 DEF Put, Unsent

\* An evaluation that ends sends nothing.
LEMMA EndUnsent ==
  ASSUME TypeOK, NEW i \in DOMAIN evals, NEW stage \in Ended, End(i, stage)
  PROVE  Unsent
<1>1. PICK e \in Evaluation : Put(i, e) /\ e.stage = stage
  BY EndPuts
<1> QED
  BY <1>1 DEF Put, Unsent, Ended

\* Requests are spaced by requestDelay, but for the lateness of a timer.
THEOREM Spaced == Spec => RequestsSpaced
<1>1. ASSUME IInv, Next, ~Unsent PROVE lastSend >= Delay - Lateness
  <2>0. /\ TypeOK /\ age \in Int /\ lastSend \in Int /\ Delay \in Nat /\ Lateness \in Nat
        /\ \A j \in DOMAIN evals : evals[j].remaining \in Int
    BY <1>1, WidgetsAssumption, EvaluationType DEF IInv, TypeOK
  <2>1. CASE age >= Delay
    BY <1>1, <2>0, <2>1 DEF IInv, Timers
  <2>2. ASSUME NEW i, sendDelayed(i) PROVE lastSend >= Delay - Lateness
    <3>1. i \in DOMAIN evals /\ Delayed(i) /\ evals[i].remaining <= 0
      BY <2>2 DEF sendDelayed, At, Delayed
    <3>2. evals[i].remaining + lastSend >= Delay - Lateness
      BY <1>1, <3>1 DEF IInv, Timers
    <3> QED
      BY <2>0, <3>1, <3>2
  <2>3. CASE age < Delay
    <3>1. ASSUME NEW i, existsCallback(i) PROVE FALSE
      <4>0. i \in DOMAIN evals /\ evals[i].text \in Text
        BY <2>0, <3>1, EvaluationType DEF existsCallback, At
      <4>1. PICK r \in Evaluation : r = evals[i]
        BY <2>0, <4>0, EvaluationType
      <4>2. PICK e \in Evaluation : evals' = [evals EXCEPT ![i] = e] /\ e.stage # "sent"
        <5>1. CASE evals[i].entry # Absent
          <6>1. cache[toHashCode(evals[i].text)] \in Shown \cup {Absent} /\ "get" \in Stage
            BY <2>0, <4>0, HashType DEF TypeOK, Stage
          <6>2. LET e == [r EXCEPT !.stage = "get", !.entry = cache[toHashCode(evals[i].text)]]
                IN e \in Evaluation /\ e.stage = "get"
            BY <6>1 DEF Evaluation
          <6> QED
            BY <3>1, <4>1, <5>1, <6>2 DEF existsCallback
        <5>2. CASE evals[i].entry = Absent
          BY <2>0, <2>3, <3>1, <4>1, <5>2, DelayerType DEF existsCallback
        <5> QED
          BY <5>1, <5>2
      <4>3. Put(i, e)
        BY <2>0, <4>0, <4>2, PutAt
      <4> QED
        BY <1>1, <4>0, <4>2, <4>3 DEF Put, Unsent
    <3>2. ASSUME NEW i, getCallback(i) \/ networkStep(i) PROVE FALSE
      <4>1. i \in DOMAIN evals /\ \E stage \in Ended : End(i, stage)
        BY <3>2 DEF getCallback, networkStep, answer, reportError, unreachable, success, At, Ended
      <4> QED
        BY <1>1, <2>0, <4>1, EndUnsent
    <3>3. ASSUME evals' = evals PROVE FALSE
      BY <1>1, <3>3 DEF Unsent
    <3>4. ASSUME NEW o \in Output \cup {NoOutput},
                 isReady(variables) /\ evaluate(variables, o)
          PROVE  FALSE
      <4>1. PICK text \in Text : text = variables
        BY <2>0, <3>4, ReadyText DEF TypeOK
      <4>2. evaluate(text, o)
        BY <3>4, <4>1 DEF evaluate, start
      <4> QED
        BY <1>1, <2>3, <4>2, EvaluateUnsent
    <3>5. ASSUME NEW i \in Input, NEW v \in Value, setValue(i, v) PROVE FALSE
      <4>1. CASE isReady(variables') /\ evaluate(variables', NoOutput)
        <5>1. variables' \in [Input -> Value \cup {Undefined}]
          BY <2>0, <3>5 DEF setValue, valuechanged, TypeOK
        <5>2. PICK text \in Text : text = variables'
          BY <4>1, <5>1, ReadyText
        <5>3. evaluate(text, NoOutput)
          BY <4>1, <5>2 DEF evaluate, start
        <5> QED
          BY <1>1, <2>3, <5>3, EvaluateUnsent
      <4> QED
        BY <3>3, <3>5, <4>1 DEF setValue, valuechanged
    <3>6. ASSUME tick PROVE FALSE
      <4>1. DOMAIN evals' = DOMAIN evals
        BY <3>6 DEF tick
      <4>2. ASSUME NEW i \in DOMAIN evals, evals'[i].stage = "sent" PROVE evals[i].stage = "sent"
        <5>1. evals'[i] = IF evals[i].stage = "delayed" THEN [evals[i] EXCEPT !.remaining = @ - 1]
                                                        ELSE evals[i]
          BY <3>6 DEF tick
        <5>2. PICK r \in Evaluation : r = evals[i]
          BY <2>0, EvaluationType
        <5>3. [r EXCEPT !.remaining = @ - 1].stage = r.stage
          BY DEF Evaluation
        <5> QED
          BY <4>2, <5>1, <5>2, <5>3
      <4> QED
        BY <1>1, <4>1, <4>2 DEF Unsent
    <3> QED
      BY <1>1, <2>2, <3>1, <3>2, <3>3, <3>4, <3>5, <3>6
      DEF Next, browserStep, bindInput, bindOutput, bindImage, applicationEvaluates, loaded, clearCache
  <2> QED
    BY <2>0, <2>1, <2>3
<1>2. ASSUME IInv, [Next]_vars
      PROVE  [\A i \in DOMAIN evals' :
                evals'[i].stage = "sent" /\ ~(i \in DOMAIN evals /\ evals[i].stage = "sent")
                  => lastSend >= Delay - Lateness]_vars
  <2> SUFFICES ASSUME Next, NEW i \in DOMAIN evals', evals'[i].stage = "sent",
                      ~(i \in DOMAIN evals /\ evals[i].stage = "sent")
               PROVE  lastSend >= Delay - Lateness
    BY <1>2
  <2> QED
    BY <1>1, <1>2 DEF Unsent
<1> QED
  BY <1>2, Invariance, PTL DEF Spec, RequestsSpaced

-----------------------------------------------------------------------------
(* What the listening output shows.                                        *)

\* No callback runs and no input changes before the page is loaded.
LoadingIsQuiet ==
  loading => ~changed /\ \A i \in DOMAIN evals : evals[i].stage \notin Ended

\* The query's variables are the values of the inputs it listens to.
VariablesFollow == \A i \in bound : variables[i] = value[i]

\* The last evaluation asks for the values of the inputs.
LastAsksForValues ==
  changed /\ bound = Input /\ isReady(value) =>
    Len(evals) > 0 /\ evals[Len(evals)].text = value

\* The listener shows the answer to the latest evaluation that was answered.
ListenerShowsLatest ==
  calm => \A i \in DOMAIN evals :
    /\ evals[i].stage \in Ended => evals[i].stage = "answered"
    /\ evals[i].stage = "answered" /\ ~Overtaken(i) =>
         \A o \in Output : listener = o => shown[o] = Answer(evals[i].text)

DisplayInvariant ==
  /\ LoadingIsQuiet
  /\ VariablesFollow
  /\ LastAsksForValues
  /\ ListenerShowsLatest

\* Evaluations go on, but none of them ends.
Progress ==
  /\ Len(evals') = Len(evals)
  /\ \A j \in DOMAIN evals :
       /\ evals'[j].text = evals[j].text
       /\ evals'[j].stage = evals[j].stage \/ {evals'[j].stage, evals[j].stage} \cap Ended = {}

\* An evaluation for text is added.
Added(text) ==
  /\ Len(evals') = Len(evals) + 1
  /\ \A j \in DOMAIN evals : evals'[j] = evals[j]
  /\ evals'[Len(evals) + 1].text = text
  /\ evals'[Len(evals) + 1].stage \notin Ended

\* The indices of the evaluations.
LEMMA Indices ==
  ASSUME TypeOK
  PROVE  Len(evals) \in Nat /\ DOMAIN evals = 1 .. Len(evals)
  BY DEF TypeOK

LEMMA IndicesNext ==
  ASSUME TypeOK'
  PROVE  Len(evals') \in Nat /\ DOMAIN evals' = 1 .. Len(evals')
  BY DEF TypeOK

\* What is shown stays the latest answer when no evaluation ends.
LEMMA ShowsKept ==
  ASSUME TypeOK, TypeOK', LoadingIsQuiet, ListenerShowsLatest, Progress,
         UNCHANGED <<shown, calm>>, loading \/ listener' = listener
  PROVE  ListenerShowsLatest' /\ (loading => \A i \in DOMAIN evals' : evals'[i].stage \notin Ended)
<1>0. /\ Len(evals) \in Nat /\ DOMAIN evals = 1 .. Len(evals)
      /\ Len(evals') = Len(evals) /\ DOMAIN evals' = DOMAIN evals
  BY Indices, IndicesNext DEF Progress
<1>1. \A j \in DOMAIN evals : /\ evals'[j].text = evals[j].text
                              /\ \/ evals'[j].stage = evals[j].stage
                                 \/ evals'[j].stage \notin Ended /\ evals[j].stage \notin Ended
  BY DEF Progress
<1>2. loading => \A i \in DOMAIN evals' : evals'[i].stage \notin Ended
  BY <1>0, <1>1 DEF LoadingIsQuiet
<1>3. ASSUME calm', NEW i \in DOMAIN evals'
      PROVE  /\ evals'[i].stage \in Ended => evals'[i].stage = "answered"
             /\ evals'[i].stage = "answered" /\ ~Overtaken(i)' =>
                  \A o \in Output : listener' = o => shown'[o] = Answer(evals'[i].text)
  <2>1. "answered" \in Ended
    BY DEF Ended
  <2>2. evals'[i].stage \in Ended => evals'[i].stage = "answered"
    BY <1>0, <1>1, <1>3 DEF ListenerShowsLatest
  <2>3. ASSUME evals'[i].stage = "answered", ~Overtaken(i)', NEW o \in Output, listener' = o
        PROVE  shown'[o] = Answer(evals'[i].text)
    <3>1. evals[i].stage = "answered" /\ evals'[i].text = evals[i].text
      BY <1>0, <1>1, <1>3, <2>1, <2>3
    <3>2. ~Overtaken(i)
      BY <1>0, <1>1, <1>3, <2>1, <2>3 DEF Overtaken
    <3>3. listener = o
      BY <1>0, <1>3, <2>1, <2>3, <3>1 DEF LoadingIsQuiet
    <3> QED
      BY <1>0, <1>3, <3>1, <3>2, <3>3 DEF ListenerShowsLatest
  <2> QED
    BY <2>2, <2>3
<1>4. ListenerShowsLatest'
  BY <1>3 DEF ListenerShowsLatest
<1> QED
  BY <1>2, <1>4

\* ... also when one is added.
LEMMA ShowsAdded ==
  ASSUME TypeOK, TypeOK', LoadingIsQuiet, ListenerShowsLatest, NEW text, Added(text),
         UNCHANGED <<shown, calm>>, loading \/ listener' = listener
  PROVE  /\ ListenerShowsLatest'
         /\ loading => \A i \in DOMAIN evals' : evals'[i].stage \notin Ended
         /\ Len(evals') > 0 /\ evals'[Len(evals')].text = text
<1>0. /\ Len(evals) \in Nat /\ DOMAIN evals = 1 .. Len(evals)
      /\ Len(evals') = Len(evals) + 1 /\ DOMAIN evals' = 1 .. (Len(evals) + 1)
  BY Indices, IndicesNext DEF Added
<1>1. /\ \A j \in DOMAIN evals : evals'[j] = evals[j]
      /\ evals'[Len(evals) + 1].text = text
      /\ evals'[Len(evals) + 1].stage \notin Ended
  BY DEF Added
<1>2. loading => \A i \in DOMAIN evals' : evals'[i].stage \notin Ended
  BY <1>0, <1>1 DEF LoadingIsQuiet
<1>3. ASSUME calm', NEW i \in DOMAIN evals'
      PROVE  /\ evals'[i].stage \in Ended => evals'[i].stage = "answered"
             /\ evals'[i].stage = "answered" /\ ~Overtaken(i)' =>
                  \A o \in Output : listener' = o => shown'[o] = Answer(evals'[i].text)
  <2>1. "answered" \in Ended
    BY DEF Ended
  <2>2. evals'[i].stage \in Ended => i \in DOMAIN evals /\ evals'[i] = evals[i]
    BY <1>0, <1>1, <1>3
  <2>3. evals'[i].stage \in Ended => evals'[i].stage = "answered"
    BY <1>3, <2>2 DEF ListenerShowsLatest
  <2>4. ASSUME evals'[i].stage = "answered", ~Overtaken(i)', NEW o \in Output, listener' = o
        PROVE  shown'[o] = Answer(evals'[i].text)
    <3>1. i \in DOMAIN evals /\ evals'[i] = evals[i] /\ evals[i].stage = "answered"
      BY <2>1, <2>2, <2>4
    <3>2. ~Overtaken(i)
      <4>1. \A j \in (i + 1) .. Len(evals') : evals'[j].stage # "answered"
        BY <2>4 DEF Overtaken
      <4>2. \A j \in (i + 1) .. Len(evals) : j \in DOMAIN evals /\ j \in (i + 1) .. Len(evals')
        BY <1>0, <3>1
      <4> QED
        BY <1>1, <4>1, <4>2 DEF Overtaken
    <3>3. listener = o
      BY <2>1, <2>4, <3>1 DEF LoadingIsQuiet
    <3> QED
      BY <1>3, <3>1, <3>2, <3>3 DEF ListenerShowsLatest
  <2> QED
    BY <2>3, <2>4
<1>4. ListenerShowsLatest'
  BY <1>3 DEF ListenerShowsLatest
<1>5. Len(evals') > 0 /\ evals'[Len(evals')].text = text
  BY <1>0, <1>1
<1> QED
  BY <1>2, <1>4, <1>5

\* An answer that is neither garbled nor overtaken is shown by the listener.
LEMMA ShowsEnd ==
  ASSUME TypeOK, TypeOK', ListenerShowsLatest, NEW i \in DOMAIN evals, NEW stage \in Ended,
         End(i, stage), listener' = listener,
         calm' => /\ calm /\ stage = "answered" /\ ~Overtaken(i)
                  /\ handleCallback(evals[i], Answer(evals[i].text))
  PROVE  /\ ListenerShowsLatest' /\ Len(evals') = Len(evals)
         /\ \A j \in DOMAIN evals : evals'[j].text = evals[j].text
<1>0. /\ Len(evals) \in Nat /\ DOMAIN evals = 1 .. Len(evals)
      /\ Len(evals') = Len(evals) /\ DOMAIN evals' = DOMAIN evals
      /\ evals'[i].text = evals[i].text /\ evals'[i].stage = stage
      /\ \A j \in DOMAIN evals \ {i} : evals'[j] = evals[j]
  <2>1. PICK r \in Evaluation : r = evals[i]
    BY EvaluationType
  <2> DEFINE e == [r EXCEPT !.stage = stage, !.entry = Absent, !.remaining = 0]
  <2>2. e.stage = stage /\ e.text = r.text
    BY DEF Evaluation
  <2>3. evals' = [evals EXCEPT ![i] = e]
    BY <2>1 DEF End
  <2> HIDE DEF e
  <2>4. evals'[i] = e /\ DOMAIN evals' = DOMAIN evals /\ \A j \in DOMAIN evals \ {i} : evals'[j] = evals[j]
    BY <2>3
  <2>5. Len(evals) \in Nat /\ DOMAIN evals = 1 .. Len(evals) /\ Len(evals') = Len(evals)
    BY <2>3, Indices
  <2> QED
    BY <2>1, <2>2, <2>4, <2>5
<1>1. ASSUME calm', NEW j \in DOMAIN evals'
      PROVE  /\ evals'[j].stage \in Ended => evals'[j].stage = "answered"
             /\ evals'[j].stage = "answered" /\ ~Overtaken(j)' =>
                  \A o \in Output : listener' = o => shown'[o] = Answer(evals'[j].text)
  <2>1. /\ calm /\ evals'[i].stage = "answered" /\ ~Overtaken(i)
        /\ handleCallback(evals[i], Answer(evals[i].text))
    BY <1>0, <1>1
  <2>2. evals'[j].stage \in Ended => evals'[j].stage = "answered"
    BY <1>0, <1>1, <2>1 DEF ListenerShowsLatest
  <2>3. ASSUME evals'[j].stage = "answered", ~Overtaken(j)', NEW o \in Output, listener' = o
        PROVE  shown'[o] = Answer(evals'[j].text)
    <3>1. ~(j < i)
      BY <1>0, <1>1, <2>1, <2>3 DEF Overtaken
    <3>2. ~(i < j)
      BY <1>0, <1>1, <2>1, <2>3 DEF Overtaken
    <3>3. i = j
      BY <1>0, <1>1, <3>1, <3>2
    <3>4. shown'[o] = Answer(evals[i].text)
      BY <2>1, <2>3 DEF handleCallback
    <3> QED
      BY <1>0, <3>3, <3>4
  <2> QED
    BY <2>2, <2>3
<1>2. ListenerShowsLatest'
  BY <1>1 DEF ListenerShowsLatest
<1> QED
  BY <1>0, <1>2

LEMMA EvaluateAdds ==
  ASSUME TypeOK, NEW text \in Text, NEW callback \in Output \cup {NoOutput},
         evaluate(text, callback)
  PROVE  Added(text)
<1> DEFINE e == start(text, callback)
<1>0. Len(evals) < MaxEvaluations
  BY DEF evaluate
<1>1. e \in Evaluation /\ e.stage = "exists" /\ e.text = text
  <2>1. cache[toHashCode(text)] \in Shown \cup {Absent} /\ "exists" \in Stage
    BY HashType DEF TypeOK, Stage
  <2> QED
    BY <2>1 DEF start, Evaluation
<1> HIDE DEF e
<1>2. PICK f \in Evaluation : /\ evals' = Append(evals, f)
                              /\ f.stage \in {"exists", "sent", "delayed"} /\ f.text = text
  <2>1. CASE cached
    BY <1>1, <2>1 DEF evaluate, e
  <2>2. CASE ~cached
    <3>1. PICK g \in Evaluation : /\ g = requestDelayer(e).eval
                                  /\ g.stage \in {"sent", "delayed"} /\ g.text = text
      BY <1>1, DelayerType
    <3>2. LET f == [g EXCEPT !.entry = Absent]
          IN f \in Evaluation /\ f.stage = g.stage /\ f.text = g.text
      BY DEF Evaluation
    <3>3. evals' = Append(evals, [g EXCEPT !.entry = Absent])
      BY <2>2, <3>1 DEF evaluate, e
    <3> QED
      BY <3>1, <3>2, <3>3
  <2> QED
    BY <2>1, <2>2
<1>3. f.stage \notin Ended
  BY <1>2 DEF Ended
<1>4. evals \in Seq(Evaluation)
  BY DEF TypeOK
<1> QED
  BY <1>2, <1>3, <1>4 DEF Added

\* The steps of an evaluation that do not end it.
LEMMA ExistsProgress == ASSUME TypeOK, NEW i, existsCallback(i) PROVE Progress
<1>0. i \in DOMAIN evals /\ evals[i].stage = "exists"
  BY DEF existsCallback, At
<1>1. PICK r \in Evaluation : r = evals[i]
  BY <1>0, EvaluationType
<1>2. PICK e : /\ evals' = [evals EXCEPT ![i] = e] /\ e.text = r.text
               /\ e.stage \in {"get", "sent", "delayed"}
  <2>1. CASE evals[i].entry # Absent
    <3>1. LET e == [r EXCEPT !.stage = "get", !.entry = cache[toHashCode(evals[i].text)]]
          IN e.text = r.text /\ e.stage = "get"
      BY DEF Evaluation
    <3> QED
      BY <1>1, <2>1, <3>1 DEF existsCallback
  <2>2. CASE evals[i].entry = Absent
    BY <1>1, <2>2, DelayerType DEF existsCallback
  <2> QED
    BY <2>1, <2>2
<1>3. e.stage \notin Ended /\ evals[i].stage \notin Ended
  BY <1>0, <1>2 DEF Ended
<1> QED
  BY <1>0, <1>1, <1>2, <1>3 DEF Progress, TypeOK

LEMMA SendProgress == ASSUME TypeOK, NEW i, sendDelayed(i) PROVE Progress
<1>0. i \in DOMAIN evals /\ evals[i].stage = "delayed"
  BY DEF sendDelayed, At
<1>1. PICK r \in Evaluation : r = evals[i]
  BY <1>0, EvaluationType
<1>2. PICK e : evals' = [evals EXCEPT ![i] = e] /\ e.text = r.text /\ e.stage = "sent"
  <2>1. LET e == [r EXCEPT !.stage = "sent", !.remaining = 0]
        IN e.text = r.text /\ e.stage = "sent"
    BY DEF Evaluation
  <2> QED
    BY <1>1, <2>1 DEF sendDelayed
<1>3. e.stage \notin Ended /\ evals[i].stage \notin Ended
  BY <1>0, <1>2 DEF Ended
<1> QED
  BY <1>0, <1>1, <1>2, <1>3 DEF Progress, TypeOK

LEMMA TickProgress == ASSUME TypeOK, TypeOK', tick PROVE Progress
<1>1. DOMAIN evals' = DOMAIN evals
  BY DEF tick
<1>2. Len(evals') = Len(evals)
  BY <1>1, Indices, IndicesNext
<1>3. ASSUME NEW j \in DOMAIN evals
      PROVE  evals'[j].text = evals[j].text /\ evals'[j].stage = evals[j].stage
  <2>1. PICK r \in Evaluation : r = evals[j]
    BY EvaluationType
  <2>2. LET e == [r EXCEPT !.remaining = @ - 1] IN e.text = r.text /\ e.stage = r.stage
    BY DEF Evaluation
  <2>3. evals'[j] = IF evals[j].stage = "delayed" THEN [evals[j] EXCEPT !.remaining = @ - 1]
                                                  ELSE evals[j]
    BY DEF tick
  <2> QED
    BY <2>1, <2>2, <2>3
<1> QED
  BY <1>2, <1>3 DEF Progress

\* DisplayInvariant is kept while the inputs and the bindings are.
LEMMA DisplaySame ==
  ASSUME TypeOK, TypeOK', DisplayInvariant, ListenerShowsLatest', Len(evals') = Len(evals),
         \A j \in DOMAIN evals : evals'[j].text = evals[j].text,
         loading => \A i \in DOMAIN evals' : evals'[i].stage \notin Ended,
         UNCHANGED <<loading, bound, value, variables, changed>>
  PROVE  DisplayInvariant'
<1>1. Len(evals) \in Nat /\ DOMAIN evals = 1 .. Len(evals)
  BY Indices
<1>2. LoadingIsQuiet' /\ VariablesFollow'
  BY DEF DisplayInvariant, LoadingIsQuiet, VariablesFollow
<1>3. LastAsksForValues'
  BY <1>1 DEF DisplayInvariant, LastAsksForValues, isReady
<1> QED
  BY <1>2, <1>3 DEF DisplayInvariant

LEMMA DisplayProgress ==
  ASSUME TypeOK, TypeOK', DisplayInvariant, Progress,
         UNCHANGED <<setup, value, variables, shown, changed, calm>>
  PROVE  DisplayInvariant'
<1>1. ListenerShowsLatest' /\ (loading => \A i \in DOMAIN evals' : evals'[i].stage \notin Ended)
  BY ShowsKept DEF DisplayInvariant, setup
<1> QED
  BY <1>1, DisplaySame DEF Progress, setup

LEMMA DisplayEnd ==
  ASSUME TypeOK, TypeOK', DisplayInvariant, NEW i, NEW stage \in Ended,
         ~loading, i \in DOMAIN evals, End(i, stage),
         UNCHANGED <<setup, value, variables, changed>>,
         calm' => /\ calm /\ stage = "answered" /\ ~Overtaken(i)
                  /\ handleCallback(evals[i], Answer(evals[i].text))
  PROVE  DisplayInvariant'
<1>1. /\ ListenerShowsLatest' /\ Len(evals') = Len(evals)
      /\ \A j \in DOMAIN evals : evals'[j].text = evals[j].text
  BY ShowsEnd DEF DisplayInvariant, setup
<1> QED
  BY <1>1, DisplaySame DEF setup

\* Callbacks of the storage and of timers.
LEMMA DisplayBrowser ==
  ASSUME TypeOK, TypeOK', DisplayInvariant, NEW i, browserStep(i) PROVE DisplayInvariant'
<1>1. CASE existsCallback(i)
  BY <1>1, ExistsProgress, DisplayProgress DEF existsCallback
<1>2. CASE sendDelayed(i)
  BY <1>2, SendProgress, DisplayProgress DEF sendDelayed
<1>3. CASE getCallback(i)
  <2>0. ~loading /\ i \in DOMAIN evals /\ UNCHANGED <<setup, value, variables, changed>>
    BY <1>3 DEF getCallback, At
  <2>1. CASE evals[i].entry \in {Absent, Nothing}
    BY <1>3, <2>0, <2>1, DisplayEnd DEF getCallback, Ended
  <2>2. CASE evals[i].entry \notin {Absent, Nothing}
    <3>1. /\ End(i, "answered") /\ handleCallback(evals[i], evals[i].entry)
          /\ calm' = (calm /\ evals[i].entry = Answer(evals[i].text) /\ ~Overtaken(i))
      BY <1>3, <2>2 DEF getCallback
    <3>2. calm' => /\ calm /\ ~Overtaken(i)
                   /\ handleCallback(evals[i], Answer(evals[i].text))
      BY <3>1
    <3>3. "answered" \in Ended
      BY DEF Ended
    <3> QED
      BY <2>0, <3>1, <3>2, <3>3, DisplayEnd
  <2> QED
    BY <2>1, <2>2
<1> QED
  BY <1>1, <1>2, <1>3 DEF browserStep

\* Ends of requests.
LEMMA DisplayNetwork ==
  ASSUME TypeOK, TypeOK', DisplayInvariant, NEW i, networkStep(i) PROVE DisplayInvariant'
<1>0. ~loading /\ i \in DOMAIN evals /\ UNCHANGED <<setup, value, variables, changed>>
  BY DEF networkStep, answer, reportError, unreachable, success, At
<1>1. "answered" \in Ended /\ "reported" \in Ended /\ "silent" \in Ended
  BY DEF Ended
<1>2. CASE answer(i)
  <2>1. /\ End(i, "answered") /\ handleCallback(evals[i], Answer(evals[i].text))
        /\ calm' => calm /\ ~Overtaken(i)
    BY <1>2 DEF answer, success
  <2> QED
    BY <1>0, <1>1, <2>1, DisplayEnd
<1>3. CASE reportError(i) \/ unreachable(i)
  <2>1. calm' = FALSE /\ \E stage \in Ended : End(i, stage)
    BY <1>1, <1>3 DEF reportError, unreachable, success
  <2> QED
    BY <1>0, <2>1, DisplayEnd
<1> QED
  BY <1>2, <1>3 DEF networkStep

\* The script that binds the widgets: it changes no input, and nothing ends.
LEMMA DisplaySetup ==
  ASSUME TypeOK, TypeOK', DisplayInvariant,
         \/ \E i \in Input : bindInput(i)
         \/ \E o \in Output : bindOutput(o) \/ bindImage(o)
         \/ loaded
  PROVE  DisplayInvariant'
<1>0. LoadingIsQuiet /\ VariablesFollow /\ LastAsksForValues /\ ListenerShowsLatest
  BY DEF DisplayInvariant
<1>1. loading /\ ~changed /\ ~changed'
  BY <1>0 DEF bindInput, bindOutput, bindImage, loaded, LoadingIsQuiet
<1>2. LastAsksForValues'
  BY <1>1 DEF LastAsksForValues
<1>3. Progress \/ \E text \in Text : Added(text)
  <2>1. ASSUME NEW o \in Output, bindImage(o) PROVE \E text \in Text : Added(text)
    <3>1. PICK text \in Text : text = variables
      BY <2>1, ReadyText DEF bindImage, TypeOK
    <3>2. evaluate(text, o)
      BY <2>1, <3>1 DEF bindImage, evaluate, start
    <3> QED
      BY <3>2, EvaluateAdds
  <2>2. ASSUME evals' = evals PROVE Progress
    BY <2>2 DEF Progress
  <2> QED
    BY <2>1, <2>2 DEF bindInput, bindOutput, loaded
<1>4. shown' = shown /\ calm' = calm
  BY DEF bindInput, bindOutput, bindImage, loaded
<1>5. ListenerShowsLatest' /\ \A i \in DOMAIN evals' : evals'[i].stage \notin Ended
  BY <1>0, <1>1, <1>3, <1>4, ShowsKept, ShowsAdded
<1>6. LoadingIsQuiet'
  BY <1>1, <1>5 DEF LoadingIsQuiet
<1>7. VariablesFollow'
  BY <1>0 DEF VariablesFollow, TypeOK, bindInput, bindOutput, bindImage, loaded
<1> QED
  BY <1>2, <1>5, <1>6, <1>7 DEF DisplayInvariant

LEMMA DisplayApplication ==
  ASSUME TypeOK, TypeOK', DisplayInvariant, NEW o \in Output \cup {NoOutput},
         applicationEvaluates(o)
  PROVE  DisplayInvariant'
<1>0. /\ LoadingIsQuiet /\ VariablesFollow /\ LastAsksForValues /\ ListenerShowsLatest
      /\ UNCHANGED <<setup, value, variables, shown, changed, calm>>
  BY DEF DisplayInvariant, applicationEvaluates
<1>1. PICK text \in Text : text = variables
  BY ReadyText DEF applicationEvaluates, TypeOK
<1>2. Added(text)
  <2>1. evaluate(text, o)
    BY <1>1 DEF applicationEvaluates, evaluate, start
  <2> QED
    BY <2>1, EvaluateAdds
<1>3. /\ ListenerShowsLatest'
      /\ loading => \A i \in DOMAIN evals' : evals'[i].stage \notin Ended
      /\ Len(evals') > 0 /\ evals'[Len(evals')].text = variables
  BY <1>0, <1>1, <1>2, ShowsAdded DEF setup
<1>4. LoadingIsQuiet' /\ VariablesFollow'
  BY <1>0, <1>3 DEF LoadingIsQuiet, VariablesFollow, setup
<1>5. bound = Input => variables = value
  BY <1>0 DEF VariablesFollow, TypeOK
<1>6. LastAsksForValues'
  BY <1>0, <1>3, <1>5 DEF LastAsksForValues, setup
<1> QED
  BY <1>3, <1>4, <1>6 DEF DisplayInvariant

\* An input changes: when all inputs are bound and have values, the query is
\* evaluated for the values they have now.
LEMMA DisplaySetValue ==
  ASSUME TypeOK, TypeOK', DisplayInvariant, NEW i \in Input, NEW v \in Value, setValue(i, v)
  PROVE  DisplayInvariant'
<1>0. /\ LoadingIsQuiet /\ VariablesFollow /\ LastAsksForValues /\ ListenerShowsLatest
      /\ UNCHANGED <<setup, shown, calm>> /\ ~loading
      /\ value' = [value EXCEPT ![i] = v]
  BY DEF DisplayInvariant, setValue
<1>1. i \in bound => variables' = [variables EXCEPT ![i] = v]
  BY DEF setValue, valuechanged
<1>2. i \notin bound => variables' = variables
  BY DEF setValue
<1>3. VariablesFollow'
  <2>1. bound' = bound /\ bound \subseteq Input
    BY <1>0 DEF setup, TypeOK
  <2> QED
    BY <1>0, <1>1, <1>2, <2>1 DEF VariablesFollow, TypeOK
<1>4. LoadingIsQuiet'
  BY <1>0 DEF LoadingIsQuiet, setup
<1>5. bound' = Input => variables' = value'
  BY <1>3 DEF VariablesFollow, TypeOK
<1>6. CASE isReady(variables') /\ evaluate(variables', NoOutput)
  <2>1. PICK text \in Text : text = variables'
    BY <1>6, ReadyText DEF TypeOK
  <2>2. Added(text)
    <3>1. evaluate(text, NoOutput)
      BY <1>6, <2>1 DEF evaluate, start
    <3> QED
      BY <3>1, EvaluateAdds
  <2>3. /\ ListenerShowsLatest'
        /\ Len(evals') > 0 /\ evals'[Len(evals')].text = variables'
    BY <1>0, <2>1, <2>2, ShowsAdded DEF setup
  <2>4. LastAsksForValues'
    BY <1>5, <2>3 DEF LastAsksForValues
  <2> QED
    BY <1>3, <1>4, <2>3, <2>4 DEF DisplayInvariant
<1>7. CASE evals' = evals /\ (i \in bound => ~isReady(variables'))
  <2>1. Progress
    BY <1>7 DEF Progress
  <2>2. ListenerShowsLatest'
    BY <1>0, <2>1, ShowsKept DEF setup
  <2>3. bound' = Input => i \in bound
    BY <1>0 DEF setup
  <2>4. LastAsksForValues'
    BY <1>5, <1>7, <2>3 DEF LastAsksForValues
  <2> QED
    BY <1>3, <1>4, <2>2, <2>4 DEF DisplayInvariant
<1> QED
  BY <1>6, <1>7 DEF setValue, valuechanged

LEMMA DisplayStep == ASSUME IInv, IInv', DisplayInvariant, [Next]_vars PROVE DisplayInvariant'
<1>0. TypeOK /\ TypeOK'
  BY DEF IInv
<1>1. ASSUME evals' = evals, UNCHANGED <<setup, value, variables, shown, changed, calm>>
      PROVE  DisplayInvariant'
  <2>1. Progress
    BY <1>1 DEF Progress
  <2> QED
    BY <1>0, <1>1, <2>1, DisplayProgress
<1>2. CASE tick
  BY <1>0, <1>2, TickProgress, DisplayProgress DEF tick
<1>3. CASE clearCache \/ UNCHANGED vars
  BY <1>1, <1>3 DEF clearCache, vars
<1> QED
  BY <1>0, <1>2, <1>3, DisplayBrowser, DisplayNetwork, DisplaySetup, DisplayApplication,
     DisplaySetValue
  DEF Next

\* Once all evaluations have been answered, none of them lost, garbled or
\* overtaken, the listening output shows the answer for the values of the inputs:
\* the last evaluation asked for them, and the listener shows the latest answer.
THEOREM DisplayCorrect == Spec => []DisplayFollowsInputs
<1>1. Init => DisplayInvariant
  <2> SUFFICES ASSUME Init PROVE DisplayInvariant
    OBVIOUS
  <2>1. evals = <<>> /\ DOMAIN evals = {} /\ ~changed /\ bound = {}
    BY DEF Init
  <2> QED
    BY <2>1 DEF DisplayInvariant, LoadingIsQuiet, VariablesFollow, LastAsksForValues,
                ListenerShowsLatest
<1>2. ASSUME IInv, DisplayInvariant PROVE DisplayFollowsInputs
  <2> SUFFICES ASSUME ~loading, changed, calm, bound = Input,
                      \A i \in Input : value[i] # Undefined,
                      \A i \in DOMAIN evals : evals[i].stage \in Ended,
                      NEW o \in Output, listener = o
               PROVE  shown[o] = Answer(value)
    BY DEF DisplayFollowsInputs
  <2>1. Len(evals) > 0 /\ evals[Len(evals)].text = value
    BY <1>2 DEF DisplayInvariant, LastAsksForValues, isReady
  <2>2. Len(evals) \in Nat /\ DOMAIN evals = 1 .. Len(evals)
    BY <1>2, Indices DEF IInv
  <2>3. Len(evals) \in DOMAIN evals /\ ~Overtaken(Len(evals))
    BY <2>1, <2>2 DEF Overtaken
  <2>4. evals[Len(evals)].stage = "answered"
    BY <1>2, <2>3 DEF DisplayInvariant, ListenerShowsLatest
  <2> QED
    BY <1>2, <2>1, <2>3, <2>4 DEF DisplayInvariant, ListenerShowsLatest
<1> QED
  BY <1>1, <1>2, DisplayStep, Invariance, PTL DEF Spec
=============================================================================
