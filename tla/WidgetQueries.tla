--------------------------- MODULE WidgetQueries ---------------------------
(***************************************************************************)
(* The widgets of the raswct toolkit and the query that connects them      *)
(* (applications/raswct/src): input widgets set the variables of a         *)
(* WCPSQuery, each change evaluates it, and its answers are shown by the   *)
(* output widgets that listen to its event "evaluated".                    *)
(*                                                                         *)
(* Scripts run to completion, so an action is one callback of the browser: *)
(* a widget event, a callback of the cache's storage, a timer or an answer *)
(* of the network.  The answer to a query is the query's text itself.  The *)
(* cache knows a query by its hash code of 32 bits, so that two queries    *)
(* may have one entry.                                                     *)
(* The storage (Lawnchair on IndexedDB) executes its operations in the     *)
(* order they were asked for and calls back later.                         *)
(***************************************************************************)
EXTENDS Integers, Sequences

CONSTANTS
  Input,           \* input widgets, each for one variable of the query
  Output,          \* output widgets
  Value,           \* values of input widgets
  Initial,         \* the values that the input widgets are created with
  Empty,           \* the texts of queries with an empty answer
  HashCode,        \* the numbers of 32 bits
  stringToHashCode,  \* the hash code of each text, not injective
  Delay,           \* requestDelay, in ticks of the clock
  Lateness,        \* by how much a busy browser delays a timer
  MaxEvaluations,  \* bound on the evaluations of a behaviour
  Undefined,       \* a variable or a widget without a value
  Nothing,         \* the empty answer, and null in the cache
  Garbled,         \* {}, what is left of binary data in the cache
  Absent,          \* no entry in the cache
  NoOutput         \* no callback, no listener

Text == [Input -> Value]

ASSUME WidgetsAssumption ==
  /\ Undefined \notin Value /\ NoOutput \notin Output
  /\ Absent \notin Text \cup {Nothing, Garbled}
  /\ Initial \in [Input -> Value \cup {Undefined}]
  /\ Empty \subseteq Text
  /\ stringToHashCode \in [Text -> HashCode]
  /\ Delay \in Nat /\ Lateness \in Nat /\ Lateness < Delay
  /\ MaxEvaluations \in Nat

VARIABLES
  loading,     \* the script that binds the widgets has not ended
  cached,      \* property cached of the query
  binary,      \* property binaryFormat of the query
  value,       \* the values of the input widgets
  variables,   \* the variables of the query
  bound,       \* the inputs that the query listens to
  listener,    \* the output that listens to "evaluated" as internalListenerName
  callbacks,   \* the outputs of persistent callbacks
  shown,       \* what the outputs show
  evals,       \* the evaluations of the query, in order
  cache,       \* the entries of the CacheEngine
  age,         \* the time since RjRequestTime, Delay when it is longer ago
  lastSend,    \* the time since the last request was sent, likewise
  changed,     \* an input has changed since the page was loaded
  calm         \* history: no answer has been lost, garbled, overtaken or
               \* mistaken for that of another query so far

setup == <<loading, cached, binary, bound, listener>>
vars == <<setup, value, variables, callbacks, shown, evals, cache, age, lastSend, changed, calm>>

\* toHashCode of a transport: method, address and format are the same for all
\* evaluations of a query, the parameters are its text.
toHashCode(text) == stringToHashCode[text]

Answer(text) == IF text \in Empty THEN Nothing ELSE text
Shown == Text \cup {Nothing, Garbled}
Ended == {"answered", "reported", "silent"}
Stage == {"exists", "get", "delayed", "sent"} \cup Ended

Evaluation ==
  [text : Text,                          \* the text that transport() has expanded
   callback : Output \cup {NoOutput},
   stage : Stage,
   entry : Shown \cup {Absent},          \* what the storage has read for it
   remaining : Int]                      \* the time until its timer should fire

Init ==
  /\ loading = TRUE
  /\ cached \in BOOLEAN
  /\ binary \in BOOLEAN
  /\ value = Initial
  /\ variables = [i \in Input |-> Undefined]
  /\ bound = {}
  /\ listener = NoOutput
  /\ callbacks = {}
  /\ shown = [o \in Output |-> Nothing]
  /\ evals = <<>>
  /\ cache = [key \in HashCode |-> Absent]
  /\ age = Delay
  /\ lastSend = Delay
  /\ changed = FALSE
  /\ calm = TRUE

-----------------------------------------------------------------------------
(* Executable                                                              *)

isReady(vs) == \A i \in Input : vs[i] # Undefined

\* evaluate: the text is expanded now; without the cache evaluateRaw is next.
\* The stage is "exists" until the storage calls back.
start(text, callback) ==
  [text |-> text, callback |-> callback, stage |-> "exists",
   entry |-> cache[toHashCode(text)], remaining |-> 0]

\* Mutant: RjRequestTime becomes the time of arrival of a delayed request.
requestDelayer_arrival(e) ==
  IF age >= Delay
    THEN [eval |-> [e EXCEPT !.stage = "sent"], age |-> 0]
    ELSE [eval |-> [e EXCEPT !.stage = "delayed", !.remaining = Delay - age], age |-> 0]

\* requestDelayer: sends the request, or starts a timer for the time when
\* requestDelay has passed since RjRequestTime, which it advances to then.
requestDelayer(e) ==
  IF age >= Delay
    THEN [eval |-> [e EXCEPT !.stage = "sent"], age |-> 0]
    ELSE [eval |-> [e EXCEPT !.stage = "delayed", !.remaining = Delay - age],
          age |-> age - Delay]

SentNow(e) == lastSend' = IF e.stage = "sent" THEN 0 ELSE lastSend

evaluate(vs, callback) ==
  LET e == start(vs, callback)
      d == requestDelayer(e)
  IN /\ Len(evals) < MaxEvaluations
     /\ IF cached
          THEN /\ evals' = Append(evals, e)
               /\ UNCHANGED <<age, lastSend>>
          ELSE /\ evals' = Append(evals, [d.eval EXCEPT !.entry = Absent])
               /\ age' = d.age
               /\ SentNow(d.eval)

\* handleCallback: the callback or the persistent callbacks, and the listener.
handleCallback(e, response) ==
  shown' = [o \in Output |->
              IF \/ o = e.callback
                 \/ e.callback = NoOutput /\ o \in callbacks
                 \/ o = listener
                THEN response ELSE shown[o]]

\* The evaluation ends; nothing is left of what the storage has read.
End(i, stage) ==
  evals' = [evals EXCEPT ![i] = [@ EXCEPT !.stage = stage, !.entry = Absent, !.remaining = 0]]

\* Callbacks wait until the script that loads the page has ended.
At(i, stage) == ~loading /\ i \in DOMAIN evals /\ evals[i].stage = stage

Overtaken(i) == \E j \in i + 1 .. Len(evals) : evals[j].stage = "answered"

\* Mutant: only an entry of the cache is handled.
existsCallback_hit(i) ==
  /\ At(i, "exists")
  /\ evals[i].entry # Absent
  /\ evals' = [evals EXCEPT ![i].stage = "get", ![i].entry = cache[toHashCode(evals[i].text)]]
  /\ UNCHANGED <<setup, value, variables, callbacks, shown, cache, age, lastSend, changed, calm>>

\* CacheEngine.exists calls back.
existsCallback(i) ==
  LET d == requestDelayer(evals[i])
  IN /\ At(i, "exists")
     /\ IF evals[i].entry # Absent
          THEN /\ evals' = [evals EXCEPT ![i] =
                              [@ EXCEPT !.stage = "get", !.entry = cache[toHashCode(evals[i].text)]]]
               /\ UNCHANGED <<age, lastSend>>
          ELSE /\ evals' = [evals EXCEPT ![i] = d.eval]
               /\ age' = d.age
               /\ SentNow(d.eval)
     /\ UNCHANGED <<setup, value, variables, callbacks, shown, cache, changed, calm>>

\* Mutant: the value is not checked.
getCallback_unchecked(i) ==
  LET e == evals[i]
  IN /\ At(i, "get")
     /\ End(i, "answered")
     /\ handleCallback(e, e.entry)
     /\ calm' = (calm /\ e.entry = Answer(e.text) /\ ~Overtaken(i))
     /\ UNCHANGED <<setup, value, variables, callbacks, cache, age, lastSend, changed>>

\* CacheEngine.get calls back.  The value null is nobody's answer.
getCallback(i) ==
  LET e == evals[i]
  IN /\ At(i, "get")
     /\ IF e.entry \in {Absent, Nothing}
          THEN End(i, "silent") /\ calm' = FALSE /\ UNCHANGED shown
          ELSE /\ End(i, "answered")
               /\ handleCallback(e, e.entry)
               /\ calm' = (calm /\ e.entry = Answer(e.text) /\ ~Overtaken(i))
     /\ UNCHANGED <<setup, value, variables, callbacks, cache, age, lastSend, changed>>

\* The timer of requestDelayer fires.  Timers fire in the order of their times.
sendDelayed(i) ==
  /\ At(i, "delayed")
  /\ evals[i].remaining <= 0
  /\ \A j \in DOMAIN evals :
       evals[j].stage = "delayed" => evals[i].remaining <= evals[j].remaining
  /\ evals' = [evals EXCEPT ![i] = [@ EXCEPT !.stage = "sent", !.remaining = 0]]
  /\ lastSend' = 0
  /\ UNCHANGED <<setup, value, variables, callbacks, shown, cache, age, changed, calm>>

\* CacheEngine.set: JSON.stringify makes {} of an ArrayBuffer and null of "".
set(key, response) ==
  cache' = IF cached THEN [cache EXCEPT ![key] = IF binary THEN Garbled ELSE response]
                     ELSE cache

\* Mutant: the key is computed from the query when the answer arrives.
Key_current(i) == toHashCode(IF isReady(variables) THEN variables ELSE evals[i].text)

\* The key of the answer is that of the transport of its request.
Key(i) == toHashCode(evals[i].text)

\* The service has answered: the answer is stored, then handled.
success(i, response) ==
  /\ At(i, "sent")
  /\ set(Key(i), response)
  /\ End(i, "answered")
  /\ handleCallback(evals[i], response)
  /\ UNCHANGED <<setup, value, variables, callbacks, age, lastSend, changed>>

answer(i) ==
  /\ success(i, Answer(evals[i].text))
  /\ calm' = (calm /\ ~Overtaken(i))

\* Status 404 or 500: the error is reported, nobody is called.
reportError(i) ==
  /\ At(i, "sent")
  /\ End(i, "reported")
  /\ calm' = FALSE
  /\ UNCHANGED <<setup, value, variables, callbacks, shown, cache, age, lastSend, changed>>

\* The service was not reached.  onreadystatechange of stringAjax takes this
\* for an empty answer; binaryAjax listens to onload only.
unreachable(i) ==
  /\ At(i, "sent")
  /\ calm' = FALSE
  /\ IF binary
       THEN /\ End(i, "silent")
            /\ UNCHANGED <<setup, value, variables, callbacks, shown, cache, age, lastSend, changed>>
       ELSE success(i, Nothing)

-----------------------------------------------------------------------------
(* Widgets and the application                                             *)

\* queryToInputWidget, when the page is loaded.
bindInput(i) ==
  /\ loading
  /\ variables' = [variables EXCEPT ![i] = value[i]]
  /\ bound' = bound \cup {i}
  /\ UNCHANGED <<loading, cached, binary, listener, value, callbacks, shown, evals, cache,
                 age, lastSend, changed, calm>>

\* TextWidgetToQuery and DiagramToQuery: all binders register under one name.
bindOutput(o) ==
  /\ loading
  /\ listener' = o
  /\ UNCHANGED <<loading, cached, binary, bound, value, variables, callbacks, shown, evals,
                 cache, age, lastSend, changed, calm>>

\* ImageWidgetToQuery evaluates the query first; expand() throws an error when
\* a variable is not defined yet.
bindImage(o) ==
  /\ loading
  /\ isReady(variables)
  /\ evaluate(variables, o)
  /\ listener' = o
  /\ UNCHANGED <<loading, cached, binary, bound, value, variables, callbacks, shown, cache,
                 changed, calm>>

\* The script ends.
loaded ==
  /\ loading
  /\ loading' = FALSE
  /\ UNCHANGED <<cached, binary, bound, listener, value, variables, callbacks, shown, evals,
                 cache, age, lastSend, changed, calm>>

\* Mutant: the query is evaluated before the variable is set.
valuechanged_late(i, v) ==
  /\ variables' = [variables EXCEPT ![i] = v]
  /\ IF isReady(variables) THEN evaluate(variables, NoOutput) ELSE UNCHANGED <<evals, age, lastSend>>

\* The listener of queryToInputWidget.
valuechanged(i, v) ==
  /\ variables' = [variables EXCEPT ![i] = v]
  /\ IF isReady(variables') THEN evaluate(variables', NoOutput)
                            ELSE UNCHANGED <<evals, age, lastSend>>

\* The user changes a slider or a knob.
setValue(i, v) ==
  /\ ~loading
  /\ Len(evals) < MaxEvaluations
  /\ value' = [value EXCEPT ![i] = v]
  /\ changed' = TRUE
  /\ IF i \in bound THEN valuechanged(i, v)
                    ELSE UNCHANGED <<variables, evals, age, lastSend>>
  /\ UNCHANGED <<setup, callbacks, shown, cache, calm>>

\* The application evaluates the query itself: without a callback, or with a
\* persistent one.
applicationEvaluates(callback) ==
  /\ isReady(variables)
  /\ evaluate(variables, callback)
  /\ callbacks' = callbacks \cup ({callback} \ {NoOutput})
  /\ UNCHANGED <<setup, value, variables, shown, cache, changed, calm>>

\* The application empties the cache.
clearCache ==
  /\ ~loading
  /\ cache' = [key \in HashCode |-> Absent]
  /\ UNCHANGED <<setup, value, variables, callbacks, shown, evals, age, lastSend, changed, calm>>

\* Time passes, while no timer is too late.
tick ==
  /\ ~loading
  /\ \A i \in DOMAIN evals : evals[i].stage = "delayed" => evals[i].remaining > -Lateness
  /\ age' = IF age < Delay THEN age + 1 ELSE Delay
  /\ lastSend' = IF lastSend < Delay THEN lastSend + 1 ELSE Delay
  /\ evals' = [i \in DOMAIN evals |->
                 IF evals[i].stage = "delayed"
                   THEN [evals[i] EXCEPT !.remaining = @ - 1] ELSE evals[i]]
  /\ UNCHANGED <<setup, value, variables, callbacks, shown, cache, changed, calm>>

-----------------------------------------------------------------------------
\* A callback of the storage or of a timer.
browserStep(i) == existsCallback(i) \/ getCallback(i) \/ sendDelayed(i)

\* The end of a request.
networkStep(i) == answer(i) \/ reportError(i) \/ unreachable(i)

Next ==
  \/ \E i \in 1 .. MaxEvaluations : browserStep(i) \/ networkStep(i)
  \/ \E i \in Input : bindInput(i) \/ \E v \in Value : setValue(i, v)
  \/ \E o \in Output : bindOutput(o) \/ bindImage(o)
  \/ \E o \in Output \cup {NoOutput} : applicationEvaluates(o)
  \/ loaded
  \/ clearCache
  \/ tick

Spec == Init /\ [][Next]_vars

\* The browser executes its callbacks, time passes, and every request ends:
\* with an answer, or when the connection is given up.
FairSpec ==
  /\ Spec
  /\ WF_vars(loaded) /\ WF_vars(tick)
  /\ \A i \in 1 .. MaxEvaluations :
       WF_vars(browserStep(i) \/ networkStep(i))

-----------------------------------------------------------------------------
(* Properties                                                              *)

TypeOK ==
  /\ loading \in BOOLEAN /\ cached \in BOOLEAN /\ binary \in BOOLEAN
  /\ value \in [Input -> Value \cup {Undefined}]
  /\ variables \in [Input -> Value \cup {Undefined}]
  /\ bound \subseteq Input
  /\ listener \in Output \cup {NoOutput}
  /\ callbacks \subseteq Output
  /\ shown \in [Output -> Shown]
  /\ evals \in Seq(Evaluation) /\ Len(evals) <= MaxEvaluations
  /\ cache \in [HashCode -> Shown \cup {Absent}]
  /\ age \in Int /\ age <= Delay /\ lastSend \in 0 .. Delay
  /\ changed \in BOOLEAN /\ calm \in BOOLEAN

\* An entry of the cache is the answer to a query with its hash code, what
\* JSON has left of it, or nothing: never an answer stored under the key of
\* another query, although the variables change while requests are on their
\* way.  Queries with the same hash code do get each other's answers.
CacheHoldsOwnAnswers ==
  \A key \in HashCode :
    cache[key] \in {Absent, Nothing, Garbled}
                     \cup {Answer(text) : text \in {t \in Text : toHashCode(t) = key}}

\* The service gets no two requests within requestDelay, but for the lateness
\* of a timer, in whatever order evaluations, storage and timers take turns.
RequestsSpaced ==
  [][\A i \in DOMAIN evals' :
       evals'[i].stage = "sent" /\ ~(i \in DOMAIN evals /\ evals[i].stage = "sent")
         => lastSend >= Delay - Lateness]_vars

\* Once all answers are there, the listening output shows the answer for the
\* values of the inputs, provided none was lost, garbled or overtaken, and none
\* came from the cache for another query with the same hash code.
DisplayFollowsInputs ==
  /\ ~loading /\ changed /\ calm /\ bound = Input
  /\ \A i \in Input : value[i] # Undefined
  /\ \A i \in DOMAIN evals : evals[i].stage \in Ended
  => \A o \in Output : listener = o => shown[o] = Answer(value)

\* Every evaluation ends: again and again there is none under way.
EvaluationsEnd == []<>(\A i \in DOMAIN evals : evals[i].stage \in Ended)
=============================================================================
