----------------------------- MODULE DeskProofs -----------------------------
(***************************************************************************)
(* Proofs about the desk.  For any rows, calls and provider accounts, and   *)
(* whatever throws: a process hands out no connection that failed, an       *)
(* account at the provider stays in somebody's hand, and one that runs, runs *)
(* because a row or a call will have it so, or says so.  For any number of   *)
(* changes and of broken streams: a page never settles on data older than  *)
(* a change it heard of.  For any number of deals and copies: the history   *)
(* page and the results recorded are the broker's.                          *)
(***************************************************************************)
EXTENDS Desk, WellFoundedInduction, FiniteSetTheorems, TLAPS

(* The sessions of a login.                                                *)

Connecting == {"connect", "sweep"}
\* Steps at which a call works on an account of the provider that it knows.
Linked == Opening \cup {"connection", "waiting", "read", "information"}

\* What is true of a call's data at each of its steps, when n accounts exist.  One that made an
\* account still carries it, and will store it.
CallKnown(k, n) ==
  /\ k.at <= n
  /\ k.step # "none" => k.kind # "none" /\ k.row \in Rows
  /\ k.step \in Linked \cup {"lookup", "createAccount"} => k.kind \in Connecting
  /\ k.step \in {"close", "undeploy", "start", "ask"} => k.kind \notin Connecting
  /\ k.step \in Linked => k.at > 0
  /\ k.step = "store" /\ k.saw = "DEPLOYED" /\ k.kind \in Connecting => k.at > 0
  /\ k.kind \notin Connecting => k.saw # "CREATED"
  /\ k.cached => k.step \in Opening
  /\ k.created => /\ k.kind \in Connecting /\ k.at > 0
                  /\ k.step \notin {"none", "lookup", "createAccount"}
                  /\ k.kind = "sweep" => k.step \in {"deploy", "waitConnected", "information", "store"} /\ ~k.cached

\* CacheIsSound, and that who waits, waits for a call.
Opens(c) == call[c].step \in Opening /\ call[c].cached
CacheKnown ==
  /\ \A e \in DOMAIN cache : cache[e] \in Calls => Opens(cache[e]) /\ Entry(cache[e]) = e
  /\ \A c \in Calls : call[c].step = "waiting" => call[c].on \in Calls /\ Opens(call[c].on)

\* One call at most is about to make the first account, unless one looked in vain; and an account
\* is in the hand of a row, or of the call that made it.
InHand(t) ==
  \/ t \in stranded \/ doubled
  \/ \E r \in Rows : row[r].at = t
  \/ \E c \in Calls : call[c].at = t /\ call[c].created
Creating(c) == call[c].step = "createAccount"
HandKnown ==
  /\ made > 1 => doubled
  /\ \A c \in Calls : Creating(c) => made = 0 \/ doubled
  /\ \A c, d \in Calls : Creating(c) /\ Creating(d) => c = d \/ doubled
  /\ \A t \in 1..made : InHand(t)

CallsKnown == \A c \in Calls : CallKnown(call[c], made)
RowsKnown == \A r \in Rows : row[r].at <= made

SessionsInvariant == SessionsType /\ CallsKnown /\ RowsKnown /\ CacheKnown /\ HandKnown

LEMMA SessionsKeep == SessionsInvariant => SessionsType /\ CacheIsSound /\ TerminalsInHand
BY DEF SessionsInvariant, CacheKnown, CacheIsSound, HandKnown, TerminalsInHand, InHand, Opens

-----------------------------------------------------------------------------
(* The data of a call.                                                       *)

\* d is k with a new step, account, answer, mark of the cache, call waited for, and mark of a creator.
Becomes(d, k, step, at, saw, cached, on, created) ==
  /\ d \in CallType
  /\ d.step = step /\ d.kind = k.kind /\ d.row = k.row /\ d.at = at /\ d.saw = saw
  /\ d.cached = cached /\ d.on = on /\ d.created = created /\ d.was = k.was

Saws == {"none", "CREATED", "UNKNOWN"} \cup DeploymentState

LEMMA FieldType ==
  ASSUME NEW k \in CallType, NEW step \in Steps, NEW at \in 0..MaxTerminals, NEW saw \in Saws,
         NEW on \in Calls \cup {NoCall}, NEW b \in BOOLEAN
  PROVE  /\ [k EXCEPT !.step = step] \in CallType
         /\ [k EXCEPT !.at = at] \in CallType
         /\ [k EXCEPT !.saw = saw] \in CallType
         /\ [k EXCEPT !.cached = b] \in CallType
         /\ [k EXCEPT !.on = on] \in CallType
         /\ [k EXCEPT !.created = b] \in CallType
<1>1. [k EXCEPT !.step = step] \in CallType
  BY DEF CallType
<1>2. [k EXCEPT !.at = at] \in CallType
  BY DEF CallType
<1>3. [k EXCEPT !.saw = saw] \in CallType
  BY DEF CallType, Saws
<1>4. [k EXCEPT !.cached = b] \in CallType
  BY DEF CallType
<1>5. [k EXCEPT !.on = on] \in CallType
  BY DEF CallType
<1>6. [k EXCEPT !.created = b] \in CallType
  BY DEF CallType
<1> QED
  BY <1>1, <1>2, <1>3, <1>4, <1>5, <1>6

\* The updates the actions make.
LEMMA Updates ==
  ASSUME NEW k \in CallType, NEW step \in Steps, NEW at \in 0..MaxTerminals, NEW saw \in Saws,
         NEW on \in Calls \cup {NoCall}, NEW cached \in BOOLEAN
  PROVE  /\ Becomes([k EXCEPT !.step = step], k, step, k.at, k.saw, k.cached, k.on, k.created)
         /\ Becomes([k EXCEPT !.step = step, !.saw = saw], k, step, k.at, saw, k.cached, k.on, k.created)
         /\ Becomes([k EXCEPT !.step = step, !.cached = cached], k, step, k.at, k.saw, cached, k.on, k.created)
         /\ Becomes([k EXCEPT !.step = step, !.on = on], k, step, k.at, k.saw, k.cached, on, k.created)
         /\ Becomes([k EXCEPT !.step = step, !.at = at, !.saw = saw], k, step, at, saw, k.cached, k.on, k.created)
         /\ Becomes([k EXCEPT !.step = step, !.at = at, !.saw = saw, !.created = TRUE],
                    k, step, at, saw, k.cached, k.on, TRUE)
         /\ Becomes([k EXCEPT !.step = step, !.on = on, !.cached = cached],
                    k, step, k.at, k.saw, cached, on, k.created)
         /\ Becomes([k EXCEPT !.step = step, !.on = on, !.cached = cached, !.saw = saw],
                    k, step, k.at, saw, cached, on, k.created)
<1>1. PICK k1 \in CallType : k1 = [k EXCEPT !.step = step]
  BY FieldType
<1>2. Becomes(k1, k, step, k.at, k.saw, k.cached, k.on, k.created)
  BY <1>1 DEF CallType, Becomes
<1>3. PICK k2 \in CallType : k2 = [k1 EXCEPT !.saw = saw]
  BY FieldType
<1>4. Becomes(k2, k, step, k.at, saw, k.cached, k.on, k.created)
  BY <1>2, <1>3 DEF CallType, Becomes
<1>5. PICK k3 \in CallType : k3 = [k1 EXCEPT !.cached = cached]
  BY FieldType
<1>6. Becomes(k3, k, step, k.at, k.saw, cached, k.on, k.created)
  BY <1>2, <1>5 DEF CallType, Becomes
<1>7. PICK k4 \in CallType : k4 = [k1 EXCEPT !.on = on]
  BY FieldType
<1>8. Becomes(k4, k, step, k.at, k.saw, k.cached, on, k.created)
  BY <1>2, <1>7 DEF CallType, Becomes
<1>9. PICK k5 \in CallType : k5 = [k1 EXCEPT !.at = at]
  BY FieldType
<1>10. Becomes(k5, k, step, at, k.saw, k.cached, k.on, k.created)
  BY <1>2, <1>9 DEF CallType, Becomes
<1>11. PICK k6 \in CallType : k6 = [k5 EXCEPT !.saw = saw]
  BY FieldType
<1>12. Becomes(k6, k, step, at, saw, k.cached, k.on, k.created)
  BY <1>10, <1>11 DEF CallType, Becomes
<1>13. PICK k7 \in CallType : k7 = [k6 EXCEPT !.created = TRUE]
  BY FieldType
<1>14. Becomes(k7, k, step, at, saw, k.cached, k.on, TRUE)
  BY <1>12, <1>13 DEF CallType, Becomes
<1>15. PICK k8 \in CallType : k8 = [k4 EXCEPT !.cached = cached]
  BY FieldType
<1>16. Becomes(k8, k, step, k.at, k.saw, cached, on, k.created)
  BY <1>8, <1>15 DEF CallType, Becomes
<1>17. PICK k9 \in CallType : k9 = [k8 EXCEPT !.saw = saw]
  BY FieldType
<1>18. Becomes(k9, k, step, k.at, saw, cached, on, k.created)
  BY <1>16, <1>17 DEF CallType, Becomes
<1>19. Becomes([k EXCEPT !.step = step], k, step, k.at, k.saw, k.cached, k.on, k.created)
  BY <1>1, <1>2
<1>20. Becomes([k EXCEPT !.step = step, !.saw = saw], k, step, k.at, saw, k.cached, k.on, k.created)
  BY <1>1, <1>3, <1>4
<1>21. Becomes([k EXCEPT !.step = step, !.cached = cached], k, step, k.at, k.saw, cached, k.on, k.created)
  BY <1>1, <1>5, <1>6
<1>22. Becomes([k EXCEPT !.step = step, !.on = on], k, step, k.at, k.saw, k.cached, on, k.created)
  BY <1>1, <1>7, <1>8
<1>23. Becomes([k EXCEPT !.step = step, !.at = at, !.saw = saw], k, step, at, saw, k.cached, k.on, k.created)
  BY <1>1, <1>9, <1>11, <1>12
<1>24. Becomes([k EXCEPT !.step = step, !.at = at, !.saw = saw, !.created = TRUE],
               k, step, at, saw, k.cached, k.on, TRUE)
  BY <1>1, <1>9, <1>11, <1>13, <1>14
<1>25. Becomes([k EXCEPT !.step = step, !.on = on, !.cached = cached],
               k, step, k.at, k.saw, cached, on, k.created)
  BY <1>1, <1>7, <1>15, <1>16
<1>26. Becomes([k EXCEPT !.step = step, !.on = on, !.cached = cached, !.saw = saw],
               k, step, k.at, saw, cached, on, k.created)
  BY <1>1, <1>7, <1>15, <1>17, <1>18
<1> QED
  BY <1>19, <1>20, <1>21, <1>22, <1>23, <1>24, <1>25, <1>26

LEMMA NoneType == NoneInFlight \in CallType
BY SessionsAssumption DEF NoneInFlight, CallType, Steps, Opening, DeploymentState

LEMMA BeginData ==
  ASSUME NEW kind, NEW r, NEW step, NEW at, NEW was, NEW d,
         d = [NoneInFlight EXCEPT !.kind = kind, !.row = r, !.step = step, !.at = at, !.was = was]
  PROVE  d = [step |-> step, kind |-> kind, row |-> r, at |-> at, saw |-> "none", cached |-> FALSE,
              on |-> NoCall, created |-> FALSE, was |-> was]
BY DEF NoneInFlight

LEMMA KnownLonger ==
  ASSUME NEW k \in CallType, NEW m \in Nat, NEW n \in Nat, m <= n, CallKnown(k, m)
  PROVE  CallKnown(k, n)
BY DEF CallKnown, CallType
-----------------------------------------------------------------------------
(* Steps that touch one call.                                                *)

LEMMA OneCall ==
  ASSUME SessionsType, CallsKnown, NEW c \in Calls, NEW d \in CallType, call' = [call EXCEPT ![c] = d],
         made' \in 0..MaxTerminals, made <= made', CallKnown(d, made')
  PROVE  /\ call' \in [Calls -> CallType] /\ CallsKnown'
         /\ call'[c] = d /\ \A b \in Calls \ {c} : call'[b] = call[b]
<1>1. /\ call' \in [Calls -> CallType] /\ call'[c] = d /\ \A b \in Calls \ {c} : call'[b] = call[b]
      /\ call \in [Calls -> CallType] /\ made \in Nat /\ made' \in Nat
  BY SessionsAssumption DEF SessionsType
<1>2. \A b \in Calls \ {c} : CallKnown(call'[b], made')
  BY <1>1, KnownLonger DEF CallsKnown
<1> QED
  BY <1>1, <1>2 DEF CallsKnown

\* The cache gains no promise.
CacheLoses ==
  /\ DOMAIN cache' = DOMAIN cache
  /\ \A e \in DOMAIN cache : cache'[e] = cache[e] \/ cache'[e] \notin Calls

\* One whose promise nobody holds leaves the cache and those who wait as they are.
LEMMA CacheKept ==
  ASSUME CacheKnown, NEW c \in Calls, ~Opens(c), CacheLoses,
         \A b \in Calls \ {c} : call'[b] = call[b],
         call'[c].step = "waiting" => call'[c].on \in Calls /\ Opens(call'[c].on)
  PROVE  CacheKnown'
<1>1. \A b \in Calls : Opens(b) => call'[b] = call[b]
  OBVIOUS
<1>2. \A b \in Calls : Opens(b) => Opens(b)' /\ Entry(b)' = Entry(b)
  BY <1>1 DEF Opens, Entry
<1>3. ASSUME NEW e \in DOMAIN cache', cache'[e] \in Calls
      PROVE  (Opens(cache[e]) /\ Entry(cache[e]) = e)'
  <2>1. PICK b \in Calls : b = cache[e] /\ b = cache'[e]
    BY <1>3 DEF CacheLoses
  <2>2. Opens(b) /\ Entry(b) = e
    BY <1>3, <2>1 DEF CacheKnown, CacheLoses
  <2>3. Opens(b)' /\ Entry(b)' = e
    BY <1>2, <2>2
  <2> QED
    BY <2>1, <2>3 DEF Opens, Entry
<1>4. ASSUME NEW b \in Calls, call'[b].step = "waiting"
      PROVE  (call[b].on \in Calls /\ Opens(call[b].on))'
  <2>1. PICK o : o = call'[b].on
    OBVIOUS
  <2>2. o \in Calls /\ Opens(o)
    BY <1>4, <2>1 DEF CacheKnown
  <2>3. Opens(o)'
    BY <1>2, <2>2
  <2> QED
    BY <2>1, <2>2, <2>3 DEF Opens
<1> QED
  BY <1>3, <1>4 DEF CacheKnown

\* One that goes on opening does, too.
LEMMA CacheOpening ==
  ASSUME CacheKnown, NEW c \in Calls, CacheLoses,
         \A b \in Calls \ {c} : call'[b] = call[b],
         call'[c].step \in Opening, call'[c].cached = call[c].cached, call'[c].at = call[c].at
  PROVE  CacheKnown'
<1>1. \A b \in Calls : Opens(b) => Opens(b)' /\ Entry(b)' = Entry(b)
  BY DEF Opens, Entry
<1>2. ASSUME NEW e \in DOMAIN cache', cache'[e] \in Calls
      PROVE  (Opens(cache[e]) /\ Entry(cache[e]) = e)'
  <2>1. PICK b \in Calls : b = cache[e] /\ b = cache'[e]
    BY <1>2 DEF CacheLoses
  <2>2. Opens(b) /\ Entry(b) = e
    BY <1>2, <2>1 DEF CacheKnown, CacheLoses
  <2>3. Opens(b)' /\ Entry(b)' = e
    BY <1>1, <2>2
  <2> QED
    BY <2>1, <2>3 DEF Opens, Entry
<1>3. ASSUME NEW b \in Calls, call'[b].step = "waiting"
      PROVE  (call[b].on \in Calls /\ Opens(call[b].on))'
  <2>1. PICK o : o = call'[b].on
    OBVIOUS
  <2>2. o \in Calls /\ Opens(o)
    BY <1>3, <2>1 DEF CacheKnown, Opening
  <2>3. Opens(o)'
    BY <1>1, <2>2
  <2> QED
    BY <2>1, <2>2, <2>3 DEF Opens
<1> QED
  BY <1>2, <1>3 DEF CacheKnown

\* As does one that neither makes an account nor lets go of one it made, as far as the accounts
\* are concerned.
LEMMA HandKept ==
  ASSUME HandKnown, NEW c \in Calls,
         \A b \in Calls \ {c} : call'[b] = call[b],
         made' = made, doubled => doubled', stranded \subseteq stranded',
         \A r \in Rows : row'[r].at = row[r].at,
         call'[c].step = "createAccount"
           => doubled' \/ (made = 0 /\ \A b \in Calls \ {c} : call[b].step # "createAccount"),
         call[c].created => call'[c].created /\ call'[c].at = call[c].at
  PROVE  HandKnown'
<1>1. \A b \in Calls : call'[b].step = "createAccount" => made' = 0 \/ doubled'
  BY DEF HandKnown, Creating
<1>2. \A a, b \in Calls : call'[a].step = "createAccount" /\ call'[b].step = "createAccount" => a = b \/ doubled'
  BY DEF HandKnown, Creating
<1>3. ASSUME NEW t \in 1..made
      PROVE  InHand(t)'
  <2>1. InHand(t)
    BY DEF HandKnown
  <2>2. CASE t \in stranded \/ doubled \/ \E r \in Rows : row[r].at = t
    BY <2>2 DEF InHand
  <2>3. ASSUME NEW b \in Calls, call[b].at = t, call[b].created
        PROVE  call'[b].at = t /\ call'[b].created
    BY <2>3
  <2> QED
    BY <2>1, <2>2, <2>3 DEF InHand
<1> QED
  BY <1>1, <1>2, <1>3 DEF HandKnown, Creating

\* A step that does none of this keeps the invariant, its types apart.
LEMMA Moves ==
  ASSUME SessionsInvariant, NEW c \in Calls, NEW d \in CallType, call' = [call EXCEPT ![c] = d],
         CallKnown(d, made),
         Opens(c) => d.step \in Opening /\ d.cached = call[c].cached /\ d.at = call[c].at,
         d.step \notin {"waiting", "createAccount"},
         call[c].created => d.created /\ d.at = call[c].at,
         UNCHANGED <<made, doubled>>, CacheLoses, stranded \subseteq stranded',
         \A r \in Rows : row'[r].at = row[r].at
  PROVE  call' \in [Calls -> CallType] /\ CallsKnown' /\ RowsKnown' /\ CacheKnown' /\ HandKnown'
<1>1. SessionsType /\ CallsKnown /\ CacheKnown /\ HandKnown /\ RowsKnown /\ made \in 0..MaxTerminals
  BY DEF SessionsInvariant, SessionsType
<1>2. /\ call' \in [Calls -> CallType] /\ CallsKnown'
      /\ call'[c] = d /\ \A b \in Calls \ {c} : call'[b] = call[b]
  <2>1. made' \in 0..MaxTerminals /\ made <= made' /\ CallKnown(d, made')
    BY <1>1, SessionsAssumption
  <2> QED
    BY <1>1, <2>1, OneCall
<1>3. CacheKnown'
  <2>1. CASE Opens(c)
    BY <1>1, <1>2, <2>1, CacheOpening
  <2>2. CASE ~Opens(c)
    BY <1>1, <1>2, <2>2, CacheKept
  <2> QED
    BY <2>1, <2>2
<1>4. HandKnown'
  BY <1>1, <1>2, HandKept
<1>5. RowsKnown'
  BY <1>1 DEF RowsKnown
<1> QED
  BY <1>2, <1>3, <1>4, <1>5

\* What the provider is told to do with an account there is keeps the accounts that are.
TerminalType ==
  /\ terminal \in [Terminals -> {"none", "CREATED"} \cup DeploymentState]
  /\ made \in 0..MaxTerminals /\ \A t \in Terminals : terminal[t] = "none" <=> t > made

LEMMA OrderType ==
  ASSUME TerminalType, NEW t \in 0..MaxTerminals, t <= made, NEW state \in DeploymentState, Order(t, state),
         UNCHANGED made
  PROVE  TerminalType'
<1>1. "none" \notin DeploymentState
  BY DEF DeploymentState
<1>2. PICK s \in DeploymentState \cup {terminal[t]} : terminal' = [terminal EXCEPT ![t] = s]
  BY DEF Order
<1>3. CASE t = 0
  <2>1. terminal' = terminal
    BY <1>2, <1>3 DEF TerminalType, Terminals
  <2> QED
    BY <2>1 DEF TerminalType
<1>4. CASE t # 0
  <2>1. t \in Terminals /\ terminal[t] # "none"
    BY <1>4, SessionsAssumption DEF TerminalType, Terminals
  <2>2. terminal[t] \in {"none", "CREATED"} \cup DeploymentState
    BY <2>1 DEF TerminalType
  <2> QED
    BY <1>1, <1>2, <2>1, <2>2 DEF TerminalType, Terminals
<1> QED
  BY <1>3, <1>4

\* What is left of the types.
RestType ==
  /\ row \in [Rows -> RowType]
  /\ cache \in [{"web", "worker"} \X Terminals -> {"none", "open"} \cup Calls]
  /\ requests \in 0..MaxRequests /\ throws \in 0..MaxThrows
  /\ doubled \in BOOLEAN /\ stranded \subseteq Terminals /\ loose \subseteq Rows

LEMMA TypeParts == SessionsType <=> TerminalType /\ RestType /\ call \in [Calls -> CallType]
BY DEF SessionsType, TerminalType, RestType
-----------------------------------------------------------------------------
(* The invariant holds at first and at every step.                           *)

LEMMA SessionsStart == SessionsInit => SessionsInvariant
<1> SUFFICES ASSUME SessionsInit PROVE SessionsInvariant
  OBVIOUS
<1>1. PICK connected \in {{}, {CHOOSE r \in Rows : TRUE}} :
        /\ row = [r \in Rows |->
             IF r \in connected THEN [enabled |-> TRUE, status |-> "CONNECTED", at |-> 1, shown |-> "none"]
             ELSE [enabled |-> TRUE, status |-> "DISCONNECTED", at |-> 0, shown |-> "none"]]
        /\ made = IF connected = {} THEN 0 ELSE 1
        /\ terminal = [t \in Terminals |-> IF t <= made THEN "DEPLOYED" ELSE "none"]
  BY DEF SessionsInit
<1>2. /\ cache = [e \in {"web", "worker"} \X Terminals |-> "none"]
      /\ call = [c \in Calls |-> NoneInFlight]
      /\ requests = 0 /\ throws = 0 /\ doubled = FALSE /\ stranded = {} /\ loose = {}
  BY DEF SessionsInit
<1>3. MaxTerminals \in Nat \ {0} /\ MaxRequests \in Nat /\ MaxThrows \in Nat
  BY SessionsAssumption
<1>4. connected \subseteq Rows /\ made \in {0, 1} /\ (made = 1 => \E r \in connected : row[r].at = 1)
  <2>1. (CHOOSE r \in Rows : TRUE) \in Rows
    BY SessionsAssumption
  <2> QED
    BY <1>1, <2>1
<1>5. TerminalType
  BY <1>1, <1>3, <1>4 DEF TerminalType, Terminals, DeploymentState
<1>6. RestType
  <2>1. row \in [Rows -> RowType]
    <3>1. /\ [enabled |-> TRUE, status |-> "CONNECTED", at |-> 1, shown |-> "none"] \in RowType
          /\ [enabled |-> TRUE, status |-> "DISCONNECTED", at |-> 0, shown |-> "none"] \in RowType
      BY <1>3 DEF RowType
    <3> QED
      BY <1>1, <3>1
  <2>2. cache \in [{"web", "worker"} \X Terminals -> {"none", "open"} \cup Calls]
    BY <1>2
  <2>3. requests \in 0..MaxRequests /\ throws \in 0..MaxThrows
    BY <1>2, <1>3
  <2>4. doubled \in BOOLEAN /\ stranded \subseteq Terminals /\ loose \subseteq Rows
    BY <1>2
  <2> QED
    BY <2>1, <2>2, <2>3, <2>4 DEF RestType
<1>7. CallsKnown
  BY <1>2, <1>3, <1>4, SessionsAssumption DEF CallsKnown, CallKnown, NoneInFlight, Linked, Opening, Connecting
<1>8. RowsKnown
  BY <1>1, <1>4 DEF RowsKnown
<1>9. CacheKnown
  BY <1>2, SessionsAssumption DEF CacheKnown, NoneInFlight, Calls
<1>10. HandKnown
  <2>1. \A c \in Calls : ~Creating(c)
    BY <1>2 DEF Creating, NoneInFlight
  <2>2. \A t \in 1..made : InHand(t)
    BY <1>4 DEF InHand
  <2> QED
    BY <1>4, <2>1, <2>2 DEF HandKnown
<1> QED
  BY <1>2, <1>5, <1>6, <1>7, <1>8, <1>9, <1>10, NoneType, TypeParts DEF SessionsInvariant

\* How calls begin.
Starts == {<<"connect", "lookup">>, <<"disconnect", "close">>, <<"disable", "store">>, <<"disable", "close">>,
           <<"enable", "store">>, <<"enable", "start">>, <<"view", "ask">>, <<"sweep", "connection">>}

LEMMA BeginKeeps ==
  ASSUME SessionsInvariant, NEW c \in Calls, NEW kind, NEW r \in Rows, NEW step, Begin(c, kind, r, step),
         <<kind, step>> \in Starts, kind = "sweep" => row[r].at # 0,
         row' \in [Rows -> RowType], \A q \in Rows : row'[q].at = row[q].at,
         requests' \in 0..MaxRequests
  PROVE  SessionsInvariant'
<1>1. SessionsType /\ RowsKnown /\ call \in [Calls -> CallType] /\ row[r] \in RowType
  BY DEF SessionsInvariant, SessionsType
<1>2. PICK at \in 0..MaxTerminals : at = row[r].at
  BY <1>1 DEF RowType
<1>3. PICK was \in {"DISCONNECTED", "CONNECTED", "CONNECTING", "ERROR"} : was = row[r].status
  BY <1>1 DEF RowType
<1>4. PICK d : d = [NoneInFlight EXCEPT !.kind = kind, !.row = r, !.step = step, !.at = at, !.was = was]
  OBVIOUS
<1>5. d = [step |-> step, kind |-> kind, row |-> r, at |-> at, saw |-> "none", cached |-> FALSE,
           on |-> NoCall, created |-> FALSE, was |-> was]
  BY <1>4 DEF NoneInFlight
<1>6. /\ d.step = step /\ d.kind = kind /\ d.row = r /\ d.at = at /\ d.saw = "none" /\ ~d.cached /\ ~d.created
      /\ d \in CallType
  <2>1. kind \in {"connect", "disconnect", "disable", "enable", "view", "sweep"} /\ step \in Steps
    BY DEF Starts, Steps
  <2> QED
    BY <1>5, <2>1 DEF CallType
<1>7. call[c].step = "none" /\ call' = [call EXCEPT ![c] = d] /\ UNCHANGED <<terminal, made, cache, throws, shistory>>
  BY <1>2, <1>3, <1>4 DEF Begin
<1>8. CallKnown(d, made)
  <2>1. at <= made /\ (kind = "sweep" => at > 0)
    BY <1>1, <1>2 DEF RowsKnown
  <2>2. <<kind, step>> \in Starts
    OBVIOUS
  <2> QED
    BY <1>6, <2>1, <2>2 DEF CallKnown, Linked, Opening, Connecting, Starts
<1>9. call' \in [Calls -> CallType] /\ CallsKnown' /\ RowsKnown' /\ CacheKnown' /\ HandKnown'
  <2>1. ~Opens(c)
    BY <1>7 DEF Opens, Opening
  <2>2. ~call[c].created
    BY <1>7 DEF SessionsInvariant, CallsKnown, CallKnown
  <2>3. d.step \notin {"waiting", "createAccount"}
    BY <1>6 DEF Starts
  <2>4. UNCHANGED <<made, doubled, stranded>> /\ CacheLoses
    BY <1>7 DEF shistory, CacheLoses
  <2> QED
    BY <1>6, <1>7, <1>8, <2>1, <2>2, <2>3, <2>4, Moves
<1>10. TerminalType' /\ RestType'
  BY <1>1, <1>7, TypeParts DEF TerminalType, RestType, shistory
<1> QED
  BY <1>9, <1>10 DEF SessionsInvariant, SessionsType, TerminalType, RestType

LEMMA AskKeeps ==
  ASSUME SessionsInvariant, NEW c \in Calls, NEW r \in Rows,
         Connect(c, r) \/ Disconnect(c, r) \/ SetEnabled(c, r) \/ View(c, r) \/ EnsureProviderSession(c, r)
  PROVE  SessionsInvariant'
<1>1. row \in [Rows -> RowType] /\ requests \in 0..MaxRequests /\ MaxRequests \in Nat
  BY SessionsAssumption DEF SessionsInvariant, SessionsType
<1>2. ASSUME NEW kind, NEW step, Ask(c, kind, r, step)
      PROVE  Begin(c, kind, r, step) /\ requests' \in 0..MaxRequests
  BY <1>1, <1>2 DEF Ask
<1>3. CASE Connect(c, r)
  <2>1. row' = [row EXCEPT ![r].status = "CONNECTING"] /\ Begin(c, "connect", r, "lookup")
        /\ requests' \in 0..MaxRequests
    BY <1>2, <1>3 DEF Connect
  <2>2. PICK s \in RowType : s = [row[r] EXCEPT !.status = "CONNECTING"]
    BY <1>1 DEF RowType
  <2>3. s.at = row[r].at
    BY <1>1, <2>2 DEF RowType
  <2>4. row' = [row EXCEPT ![r] = s]
    BY <2>1, <2>2
  <2>5. row' \in [Rows -> RowType] /\ \A q \in Rows : row'[q].at = row[q].at
    BY <1>1, <2>3, <2>4
  <2>6. <<"connect", "lookup">> \in Starts
    BY DEF Starts
  <2> QED
    BY <2>1, <2>5, <2>6, BeginKeeps
<1>4. CASE Disconnect(c, r)
  <2>1. row' = row /\ Begin(c, "disconnect", r, "close") /\ requests' \in 0..MaxRequests
    BY <1>2, <1>4 DEF Disconnect
  <2>2. <<"disconnect", "close">> \in Starts
    BY DEF Starts
  <2> QED
    BY <1>1, <2>1, <2>2, BeginKeeps
<1>5. CASE SetEnabled(c, r)
  <2>1. PICK kind \in {"disable", "enable"} :
          Ask(c, kind, r, IF row[r].at = 0 THEN "store" ELSE IF kind = "enable" THEN "start" ELSE "close")
    BY <1>5 DEF SetEnabled
  <2>2. PICK step : /\ step = IF row[r].at = 0 THEN "store" ELSE IF kind = "enable" THEN "start" ELSE "close"
                    /\ Ask(c, kind, r, step)
    BY <2>1
  <2>3. <<kind, step>> \in Starts /\ kind # "sweep"
    BY <2>2 DEF Starts
  <2>4. row' = row /\ Begin(c, kind, r, step) /\ requests' \in 0..MaxRequests
    BY <1>2, <1>5, <2>2 DEF SetEnabled
  <2> QED
    BY <1>1, <2>3, <2>4, BeginKeeps
<1>6. CASE View(c, r)
  <2>1. row' = row /\ Begin(c, "view", r, "ask") /\ requests' \in 0..MaxRequests
    BY <1>2, <1>6 DEF View
  <2>2. <<"view", "ask">> \in Starts
    BY DEF Starts
  <2> QED
    BY <1>1, <2>1, <2>2, BeginKeeps
<1>7. CASE EnsureProviderSession(c, r)
  <2>1. row' = row /\ Begin(c, "sweep", r, "connection") /\ requests' \in 0..MaxRequests /\ row[r].at # 0
    BY <1>1, <1>7 DEF EnsureProviderSession
  <2>2. <<"sweep", "connection">> \in Starts
    BY DEF Starts
  <2> QED
    BY <1>1, <2>1, <2>2, BeginKeeps
<1> QED
  BY <1>3, <1>4, <1>5, <1>6, <1>7
\* What is known of a call by its step.
LEMMA OfCall ==
  ASSUME SessionsInvariant, NEW c \in Calls
  PROVE  /\ call \in [Calls -> CallType] /\ call[c] \in CallType /\ CallKnown(call[c], made)
         /\ SessionsType /\ TerminalType /\ RestType
         /\ call[c].at \in 0..MaxTerminals /\ call[c].at <= made
         /\ call[c].kind \in {"none", "connect", "sweep", "disconnect", "disable", "enable", "view"}
         /\ call[c].saw \in Saws /\ call[c].cached \in BOOLEAN /\ call[c].created \in BOOLEAN
         /\ call[c].on \in Calls \cup {NoCall}
         /\ call[c].at # 0 => call[c].at \in Terminals /\ terminal[call[c].at] \in Saws
<1>1. /\ call \in [Calls -> CallType] /\ call[c] \in CallType /\ CallKnown(call[c], made) /\ SessionsType
  BY DEF SessionsInvariant, SessionsType, CallsKnown
<1>2. TerminalType /\ RestType
  BY <1>1, TypeParts
<1>3. /\ call[c].at \in 0..MaxTerminals /\ call[c].at <= made
      /\ call[c].kind \in {"none", "connect", "sweep", "disconnect", "disable", "enable", "view"}
      /\ call[c].saw \in Saws /\ call[c].cached \in BOOLEAN /\ call[c].created \in BOOLEAN
      /\ call[c].on \in Calls \cup {NoCall}
  BY <1>1 DEF CallType, CallKnown, Saws
<1>4. call[c].at # 0 => call[c].at \in Terminals /\ terminal[call[c].at] \in Saws
  BY <1>2, <1>3, SessionsAssumption DEF TerminalType, Terminals, Saws
<1> QED
  BY <1>1, <1>2, <1>3, <1>4

LEMMA SameCache == UNCHANGED cache => CacheLoses
BY DEF CacheLoses

\* Call c becomes d, and the rest of the calls stay.
Turns(c, d) == d \in CallType /\ call' = [call EXCEPT ![c] = d]

\* The updates of the actions, as what the call becomes.
LEMMA Goes ==
  ASSUME SessionsInvariant, NEW c \in Calls, NEW step \in Steps, Goto(c, step)
  PROVE  \E d \in CallType :
           Turns(c, d) /\ Becomes(d, call[c], step, call[c].at, call[c].saw, call[c].cached, call[c].on, call[c].created)
<1>1. PICK k \in CallType : k = call[c]
  BY OfCall
<1>2. k.at \in 0..MaxTerminals /\ k.saw \in Saws /\ k.cached \in BOOLEAN /\ k.on \in Calls \cup {NoCall}
  BY <1>1, OfCall
<1>3. Becomes([k EXCEPT !.step = step], k, step, k.at, k.saw, k.cached, k.on, k.created)
  BY <1>2, Updates
<1>4. [k EXCEPT !.step = step] \in CallType
  BY <1>3 DEF Becomes
<1>5. call' = [call EXCEPT ![c] = [k EXCEPT !.step = step]]
  BY <1>1 DEF Goto
<1> QED
  BY <1>1, <1>3, <1>4, <1>5 DEF Turns

LEMMA Answers ==
  ASSUME SessionsInvariant, NEW c \in Calls, NEW step \in Steps, NEW saw \in Saws,
         call' = [call EXCEPT ![c].step = step, ![c].saw = saw]
  PROVE  \E d \in CallType :
           Turns(c, d) /\ Becomes(d, call[c], step, call[c].at, saw, call[c].cached, call[c].on, call[c].created)
<1>1. PICK k \in CallType : k = call[c]
  BY OfCall
<1>2. k.at \in 0..MaxTerminals /\ k.cached \in BOOLEAN /\ k.on \in Calls \cup {NoCall}
  BY <1>1, OfCall
<1>3. Becomes([k EXCEPT !.step = step, !.saw = saw], k, step, k.at, saw, k.cached, k.on, k.created)
  BY <1>2, Updates
<1>4. [k EXCEPT !.step = step, !.saw = saw] \in CallType
  BY <1>3 DEF Becomes
<1>5. call' = [call EXCEPT ![c] = [k EXCEPT !.step = step, !.saw = saw]]
  BY <1>1, OfCall
<1> QED
  BY <1>1, <1>3, <1>4, <1>5 DEF Turns

LEMMA Finds ==
  ASSUME SessionsInvariant, NEW c \in Calls, NEW at \in 0..MaxTerminals, NEW saw \in Saws,
         call' = [call EXCEPT ![c].step = "deploy", ![c].at = at, ![c].saw = saw]
  PROVE  \E d \in CallType :
           Turns(c, d) /\ Becomes(d, call[c], "deploy", at, saw, call[c].cached, call[c].on, call[c].created)
<1>1. PICK k \in CallType : k = call[c]
  BY OfCall
<1>2. k.cached \in BOOLEAN /\ k.on \in Calls \cup {NoCall} /\ "deploy" \in Steps
  BY <1>1, OfCall DEF Steps, Opening
<1>3. Becomes([k EXCEPT !.step = "deploy", !.at = at, !.saw = saw], k, "deploy", at, saw, k.cached, k.on, k.created)
  BY <1>2, Updates
<1>4. [k EXCEPT !.step = "deploy", !.at = at, !.saw = saw] \in CallType
  BY <1>3 DEF Becomes
<1>5. call' = [call EXCEPT ![c] = [k EXCEPT !.step = "deploy", !.at = at, !.saw = saw]]
  BY <1>1, OfCall
<1> QED
  BY <1>1, <1>3, <1>4, <1>5 DEF Turns

LEMMA Creates ==
  ASSUME SessionsInvariant, NEW c \in Calls, NEW at \in 0..MaxTerminals,
         call' = [call EXCEPT ![c].step = "deploy", ![c].at = at, ![c].saw = "CREATED", ![c].created = TRUE]
  PROVE  \E d \in CallType :
           Turns(c, d) /\ Becomes(d, call[c], "deploy", at, "CREATED", call[c].cached, call[c].on, TRUE)
<1>1. PICK k \in CallType : k = call[c]
  BY OfCall
<1>2. k.cached \in BOOLEAN /\ k.on \in Calls \cup {NoCall} /\ "deploy" \in Steps /\ "CREATED" \in Saws
  BY <1>1, OfCall DEF Steps, Opening, Saws
<1>3. Becomes([k EXCEPT !.step = "deploy", !.at = at, !.saw = "CREATED", !.created = TRUE],
              k, "deploy", at, "CREATED", k.cached, k.on, TRUE)
  BY <1>2, Updates
<1>4. [k EXCEPT !.step = "deploy", !.at = at, !.saw = "CREATED", !.created = TRUE] \in CallType
  BY <1>3 DEF Becomes
<1>5. call' = [call EXCEPT ![c] = [k EXCEPT !.step = "deploy", !.at = at, !.saw = "CREATED", !.created = TRUE]]
  BY <1>1, OfCall
<1> QED
  BY <1>1, <1>3, <1>4, <1>5 DEF Turns

-----------------------------------------------------------------------------
(* A call that stays with its account goes on, and the cache loses at most   *)
(* an entry.                                                                 *)

GoesOn(k, d) ==
  /\ d.at = k.at /\ d.kind = k.kind /\ d.row = k.row /\ d.cached = k.cached /\ d.created = k.created
  /\ k.step # "none" /\ d.step \notin {"none", "waiting", "lookup", "createAccount"}
  /\ k.cached => k.step \in Opening /\ d.step \in Opening
  /\ d.step \in Linked => k.kind \in Connecting /\ k.at > 0
  /\ d.step \in {"close", "undeploy", "start", "ask"} => k.kind \notin Connecting
  /\ d.step = "store" /\ d.saw = "DEPLOYED" /\ k.kind \in Connecting => k.at > 0
  /\ k.kind \notin Connecting => d.saw # "CREATED"
  /\ k.created /\ k.kind = "sweep" => d.step \in {"deploy", "waitConnected", "information", "store"}

RestStays ==
  /\ UNCHANGED <<row, made, doubled, stranded, requests>> /\ TerminalType' /\ CacheLoses
  /\ cache' \in [{"web", "worker"} \X Terminals -> {"none", "open"} \cup Calls]
  /\ throws' \in 0..MaxThrows /\ loose' \subseteq Rows

LEMMA GotoKeeps ==
  ASSUME SessionsInvariant, NEW c \in Calls, NEW d \in CallType, Turns(c, d), GoesOn(call[c], d), RestStays
  PROVE  SessionsInvariant'
<1>1. SessionsType /\ CallKnown(call[c], made) /\ call[c] \in CallType
  BY OfCall
<1>2. CallKnown(d, made)
  BY <1>1 DEF CallKnown, GoesOn
<1>3. Opens(c) => d.step \in Opening /\ d.cached = call[c].cached /\ d.at = call[c].at
  BY DEF Opens, GoesOn
<1>4. d.step \notin {"waiting", "createAccount"} /\ (call[c].created => d.created /\ d.at = call[c].at)
  BY DEF GoesOn
<1>5. /\ UNCHANGED <<made, doubled>> /\ stranded \subseteq stranded'
      /\ \A r \in Rows : row'[r].at = row[r].at
      /\ CacheLoses /\ call' = [call EXCEPT ![c] = d]
  BY DEF RestStays, Turns
<1>6. call' \in [Calls -> CallType] /\ CallsKnown' /\ RowsKnown' /\ CacheKnown' /\ HandKnown'
  BY <1>2, <1>3, <1>4, <1>5, Moves
<1>7. RestType' /\ TerminalType'
  BY <1>1, TypeParts DEF RestType, RestStays
<1> QED
  BY <1>6, <1>7 DEF SessionsInvariant, SessionsType, TerminalType, RestType

LEMMA RestStaysIf ==
  ASSUME SessionsInvariant, UNCHANGED <<row, made, cache, doubled, stranded, requests>>, TerminalType',
         throws' \in 0..MaxThrows, loose' \subseteq Rows
  PROVE  RestStays
BY SameCache, TypeParts DEF SessionsInvariant, RestStays, RestType

LEMMA AllStays ==
  ASSUME SessionsInvariant, UNCHANGED <<row, terminal, made, cache, requests, shistory>>, throws' \in 0..MaxThrows
  PROVE  RestStays
<1>1. TerminalType /\ loose \subseteq Rows
  BY TypeParts DEF SessionsInvariant, RestType
<1>2. TerminalType' /\ loose' \subseteq Rows /\ UNCHANGED <<row, made, cache, doubled, stranded, requests>>
  BY <1>1 DEF TerminalType, shistory
<1> QED
  BY <1>2, RestStaysIf

LEMMA GetAccountKeeps ==
  ASSUME SessionsInvariant, NEW c \in Calls, GetAccount(c)
  PROVE  SessionsInvariant'
<1>1. call[c].step = "getAccount" /\ call[c].kind \in Connecting /\ call[c].at > 0
  BY OfCall DEF GetAccount, CallKnown, Linked, Opening
<1>2. PICK saw \in Saws : saw = terminal[call[c].at]
  BY <1>1, OfCall
<1>3. "deploy" \in Steps
  BY DEF Steps, Opening
<1>4. call' = [call EXCEPT ![c].step = "deploy", ![c].saw = saw]
  BY <1>2 DEF GetAccount
<1>5. PICK d \in CallType :
        Turns(c, d) /\ Becomes(d, call[c], "deploy", call[c].at, saw, call[c].cached, call[c].on, call[c].created)
  BY <1>3, <1>4, Answers
<1>6. CallKnown(call[c], made)
  BY OfCall
<1>7. GoesOn(call[c], d)
  BY <1>1, <1>5, <1>6 DEF GoesOn, Becomes, CallKnown, Opening, Connecting
<1>8. RestStays
  <2>1. throws \in 0..MaxThrows
    BY OfCall DEF RestType
  <2> QED
    BY <2>1, AllStays DEF GetAccount, sbounds
<1> QED
  BY <1>5, <1>7, <1>8, GotoKeeps

LEMMA DeployKeeps ==
  ASSUME SessionsInvariant, NEW c \in Calls, Deploy(c)
  PROVE  SessionsInvariant'
<1>1. call[c].step = "deploy" /\ call[c].kind \in Connecting /\ call[c].at > 0 /\ call[c].row \in Rows
  BY OfCall DEF Deploy, CallKnown, Linked, Opening
<1>2. "waitConnected" \in Steps /\ Goto(c, "waitConnected")
  BY DEF Steps, Opening, Deploy
<1>3. PICK d \in CallType :
        /\ Turns(c, d)
        /\ Becomes(d, call[c], "waitConnected", call[c].at, call[c].saw, call[c].cached, call[c].on, call[c].created)
  BY <1>2, Goes
<1>4. CallKnown(call[c], made)
  BY OfCall
<1>5. GoesOn(call[c], d)
  BY <1>1, <1>3, <1>4 DEF GoesOn, Becomes, CallKnown, Opening, Connecting
<1>6. UNCHANGED <<row, made, cache, requests, throws, doubled, stranded>>
  BY DEF Deploy, sbounds
<1>7. TerminalType' /\ loose' \subseteq Rows
  <2>1. TerminalType /\ loose \subseteq Rows
    BY OfCall DEF RestType
  <2>2. CASE call[c].saw # "DEPLOYED"
    <3>1. Order(call[c].at, "DEPLOYING") /\ "DEPLOYING" \in DeploymentState
      BY <2>2 DEF Deploy, DeploymentState
    <3>2. TerminalType'
      BY <1>6, <2>1, <3>1, OfCall, OrderType
    <3>3. loose' \subseteq Rows
      BY <1>1, <2>1, <2>2 DEF Deploy, StartedBehind
    <3> QED
      BY <3>2, <3>3
  <2>3. CASE call[c].saw = "DEPLOYED"
    BY <1>6, <2>1, <2>3 DEF Deploy, TerminalType
  <2> QED
    BY <2>2, <2>3
<1>8. RestStays
  <2>1. throws' \in 0..MaxThrows
    BY <1>6, OfCall DEF RestType
  <2> QED
    BY <1>6, <1>7, <2>1, RestStaysIf
<1> QED
  BY <1>3, <1>5, <1>8, GotoKeeps

\* A call ends with an answer.
LEMMA FinishKeeps ==
  ASSUME SessionsInvariant, NEW c \in Calls, NEW saw \in Saws \ {"CREATED"}, Finish(c, saw),
         call[c].step # "none", ~call[c].cached,
         saw = "DEPLOYED" /\ call[c].kind \in Connecting => call[c].at > 0,
         UNCHANGED <<row, terminal, made, cache, requests, shistory>>, throws' \in 0..MaxThrows
  PROVE  SessionsInvariant'
<1>1. "store" \in Steps /\ "store" \notin Linked
  BY DEF Steps, Opening, Linked
<1>2. call' = [call EXCEPT ![c].step = "store", ![c].saw = saw]
  BY DEF Finish
<1>3. PICK d \in CallType :
        Turns(c, d) /\ Becomes(d, call[c], "store", call[c].at, saw, call[c].cached, call[c].on, call[c].created)
  BY <1>1, <1>2, Answers
<1>4. GoesOn(call[c], d)
  BY <1>1, <1>3 DEF GoesOn, Becomes
<1> QED
  BY <1>3, <1>4, AllStays, GotoKeeps

\* A call turns to its next step.
LEMMA StepKeeps ==
  ASSUME SessionsInvariant, NEW c \in Calls, NEW step \in {"undeploy", "store", "ask", "information", "connection"},
         Goto(c, step), call[c].step # "none", ~call[c].cached,
         step \in {"undeploy", "store", "ask"} => call[c].kind \notin Connecting,
         step \in {"information", "connection"} => call[c].kind \in Connecting /\ call[c].at > 0,
         step = "connection" => call[c].kind = "connect", RestStays
  PROVE  SessionsInvariant'
<1>1. step \in Steps
  BY DEF Steps
<1>2. PICK d \in CallType :
        /\ Turns(c, d)
        /\ Becomes(d, call[c], step, call[c].at, call[c].saw, call[c].cached, call[c].on, call[c].created)
  BY <1>1, Goes
<1>3. CallKnown(call[c], made)
  BY OfCall
<1>4. step \in Linked => step \in {"information", "connection"}
  BY DEF Linked, Opening
<1>5. GoesOn(call[c], d)
  BY <1>2, <1>3, <1>4 DEF GoesOn, Becomes, CallKnown, Connecting
<1> QED
  BY <1>2, <1>5, GotoKeeps
LEMMA InformationKeeps ==
  ASSUME SessionsInvariant, NEW c \in Calls, Information(c)
  PROVE  SessionsInvariant'
<1>1. /\ call[c].step = "information" /\ call[c].kind \in Connecting /\ call[c].at > 0 /\ ~call[c].cached
      /\ throws \in 0..MaxThrows
  BY OfCall DEF Information, CallKnown, Linked, Opening, RestType
<1>2. UNCHANGED <<row, terminal, made, cache, requests, shistory>> /\ throws' \in 0..MaxThrows
  BY <1>1 DEF Information, sbounds
<1>3. CASE terminal[call[c].at] = "DEPLOYED" /\ call[c].kind = "connect"
  <2>1. Goto(c, "connection") /\ RestStays
    BY <1>2, <1>3, AllStays DEF Information
  <2> QED
    BY <1>1, <1>3, <2>1, StepKeeps
<1>4. CASE ~(terminal[call[c].at] = "DEPLOYED" /\ call[c].kind = "connect")
  <2>1. PICK saw \in Saws \ {"CREATED"} : saw = IF terminal[call[c].at] = "DEPLOYED" THEN "DEPLOYED" ELSE "UNKNOWN"
    BY DEF Saws, DeploymentState
  <2>2. Finish(c, saw)
    BY <1>4, <2>1 DEF Information
  <2> QED
    BY <1>1, <1>2, <2>2, FinishKeeps
<1> QED
  BY <1>3, <1>4

\* A step with another of the cache, that holds no promise.
LEMMA CacheSet ==
  ASSUME SessionsInvariant, NEW e, NEW v \in {"none", "open"}, cache' = [cache EXCEPT ![e] = v]
  PROVE  CacheLoses /\ cache' \in [{"web", "worker"} \X Terminals -> {"none", "open"} \cup Calls]
<1>1. cache \in [{"web", "worker"} \X Terminals -> {"none", "open"} \cup Calls]
  BY DEF SessionsInvariant, SessionsType
<1>2. v \notin Calls
  BY SessionsAssumption DEF Calls
<1> QED
  BY <1>1, <1>2 DEF CacheLoses

LEMMA CloseKeeps ==
  ASSUME SessionsInvariant, NEW c \in Calls, Close(c)
  PROVE  SessionsInvariant'
<1>1. call[c].step = "close" /\ call[c].kind \notin Connecting /\ ~call[c].cached
  BY OfCall DEF Close, CallKnown, Opening
<1>2. UNCHANGED <<row, terminal, made, requests, throws, doubled, stranded, loose>>
  BY DEF Close, sbounds, shistory
<1>3. TerminalType' /\ throws' \in 0..MaxThrows /\ loose' \subseteq Rows
  BY <1>2, OfCall DEF TerminalType, RestType
<1>4. CacheLoses /\ cache' \in [{"web", "worker"} \X Terminals -> {"none", "open"} \cup Calls]
  <2>1. PICK e : e = Entry(c)
    OBVIOUS
  <2>2. cache' = [cache EXCEPT ![e] = "none"]
    BY <2>1 DEF Close
  <2> QED
    BY <2>2, CacheSet
<1>5. RestStays
  BY <1>2, <1>3, <1>4 DEF RestStays
<1>6. PICK step \in {"undeploy", "store"} : Goto(c, step)
  BY DEF Close
<1> QED
  BY <1>1, <1>5, <1>6, StepKeeps

LEMMA UndeployKeeps ==
  ASSUME SessionsInvariant, NEW c \in Calls, Undeploy(c)
  PROVE  SessionsInvariant'
<1>1. call[c].step = "undeploy" /\ call[c].kind \notin Connecting /\ ~call[c].cached
  BY OfCall DEF Undeploy, CallKnown, Opening
<1>2. UNCHANGED <<row, made, cache, requests, throws, doubled, stranded>>
  BY DEF Undeploy, sbounds
<1>3. TerminalType'
  <2>1. Order(call[c].at, "UNDEPLOYING") /\ "UNDEPLOYING" \in DeploymentState
    BY DEF Undeploy, DeploymentState
  <2> QED
    BY <1>2, <2>1, OfCall, OrderType
<1>4. throws' \in 0..MaxThrows /\ loose' \subseteq Rows
  BY <1>2, OfCall DEF RestType, Undeploy
<1>5. RestStays /\ Goto(c, "ask")
  BY <1>2, <1>3, <1>4, RestStaysIf DEF Undeploy
<1> QED
  BY <1>1, <1>5, StepKeeps

LEMMA StartKeeps ==
  ASSUME SessionsInvariant, NEW c \in Calls, Start(c)
  PROVE  SessionsInvariant'
<1>1. call[c].step = "start" /\ call[c].kind \notin Connecting /\ ~call[c].cached /\ call[c].row \in Rows
  BY OfCall DEF Start, CallKnown, Opening
<1>2. UNCHANGED <<row, made, cache, requests, throws, doubled, stranded>>
  BY DEF Start, sbounds
<1>3. TerminalType'
  <2>1. Order(call[c].at, "DEPLOYING") /\ "DEPLOYING" \in DeploymentState
    BY DEF Start, DeploymentState
  <2> QED
    BY <1>2, <2>1, OfCall, OrderType
<1>4. throws' \in 0..MaxThrows /\ loose' \subseteq Rows
  BY <1>1, <1>2, OfCall DEF RestType, Start, StartedBehind
<1>5. RestStays /\ Goto(c, "ask")
  BY <1>2, <1>3, <1>4, RestStaysIf DEF Start
<1> QED
  BY <1>1, <1>5, StepKeeps

LEMMA AskedKeeps ==
  ASSUME SessionsInvariant, NEW c \in Calls, GetDeploymentState(c)
  PROVE  SessionsInvariant'
<1>1. call[c].step = "ask" /\ call[c].kind \notin Connecting /\ ~call[c].cached /\ throws \in 0..MaxThrows
  BY OfCall DEF GetDeploymentState, CallKnown, Opening, RestType
<1>2. UNCHANGED <<row, terminal, made, cache, requests, shistory>> /\ throws' \in 0..MaxThrows
  BY <1>1 DEF GetDeploymentState, sbounds
<1>3. PICK saw \in Saws \ {"CREATED"} : Finish(c, saw)
  BY DEF GetDeploymentState, Saws, DeploymentState
<1> QED
  BY <1>1, <1>2, <1>3, FinishKeeps

-----------------------------------------------------------------------------
(* Looking for the account, and making it.                                   *)

LEMMA LookupKeeps ==
  ASSUME SessionsInvariant, NEW c \in Calls, Lookup(c) \/ LookupThrows(c)
  PROVE  SessionsInvariant'
<1>1. /\ call[c].step = "lookup" /\ call[c].kind \in Connecting /\ call[c].row \in Rows
      /\ ~call[c].cached /\ ~call[c].created
      /\ CallKnown(call[c], made) /\ doubled \in BOOLEAN /\ made \in 0..MaxTerminals
  BY OfCall DEF Lookup, LookupThrows, CallKnown, Opening, RestType, TerminalType
<1>2. UNCHANGED <<row, terminal, made, cache, requests, stranded, loose>>
  BY DEF Lookup, LookupThrows, sbounds
<1>3. /\ doubled' \in BOOLEAN /\ (doubled => doubled')
      /\ throws' \in 0..MaxThrows
  <2>1. throws \in 0..MaxThrows /\ MaxThrows \in Nat
    BY OfCall, SessionsAssumption DEF RestType
  <2>2. throws' \in 0..MaxThrows
    <3>1. throws' = throws \/ (throws < MaxThrows /\ throws' = throws + 1)
      BY DEF Lookup, LookupThrows, sbounds
    <3> QED
      BY <2>1, <3>1
  <2>3. doubled' \in BOOLEAN
    BY DEF Lookup, LookupThrows
  <2>4. doubled => doubled'
    BY DEF Lookup, LookupThrows
  <2> QED
    BY <2>2, <2>3, <2>4
<1>4. RestType' /\ TerminalType'
  <2>1. RestType /\ TerminalType
    BY OfCall
  <2> QED
    BY <1>2, <1>3, <2>1 DEF RestType, TerminalType
<1>5. CacheLoses /\ ~Opens(c)
  BY <1>1, <1>2, SameCache DEF Opens, Opening
<1>6. SessionsType /\ CallsKnown /\ CacheKnown /\ HandKnown /\ RowsKnown
  BY DEF SessionsInvariant
<1>7. ASSUME NEW d \in CallType, call' = [call EXCEPT ![c] = d], CallKnown(d, made), d.step # "waiting",
             d.step = "createAccount" => doubled' \/ (made = 0 /\ \A b \in Calls \ {c} : call[b].step # "createAccount")
      PROVE  SessionsInvariant'
  <2>1. made' \in 0..MaxTerminals /\ made <= made' /\ CallKnown(d, made')
    BY <1>1, <1>2, <1>7
  <2>2. /\ call' \in [Calls -> CallType] /\ CallsKnown'
        /\ call'[c] = d /\ \A b \in Calls \ {c} : call'[b] = call[b]
    BY <1>6, <1>7, <2>1, OneCall
  <2>3. CacheKnown'
    BY <1>5, <1>6, <1>7, <2>2, CacheKept
  <2>4. /\ made' = made /\ (doubled => doubled') /\ stranded \subseteq stranded'
        /\ \A r \in Rows : row'[r].at = row[r].at
        /\ (call'[c].step = "createAccount"
              => doubled' \/ (made = 0 /\ \A b \in Calls \ {c} : call[b].step # "createAccount"))
        /\ ~call[c].created
    BY <1>1, <1>2, <1>3, <1>7, <2>2
  <2>5. HandKnown'
    BY <1>6, <2>2, <2>4, HandKept
  <2>6. RowsKnown'
    BY <1>2, <1>6 DEF RowsKnown
  <2> QED
    BY <1>4, <2>2, <2>3, <2>5, <2>6 DEF SessionsInvariant, SessionsType, TerminalType, RestType
<1>8. ASSUME Goto(c, "createAccount"),
             doubled' \/ (made = 0 /\ \A b \in Calls \ {c} : call[b].step # "createAccount")
      PROVE  SessionsInvariant'
  <2>1. "createAccount" \in Steps
    BY DEF Steps
  <2>2. PICK d \in CallType :
          /\ Turns(c, d)
          /\ Becomes(d, call[c], "createAccount", call[c].at, call[c].saw, call[c].cached, call[c].on, call[c].created)
    BY <1>8, <2>1, Goes
  <2>3. CallKnown(d, made) /\ d.step # "waiting"
    BY <1>1, <2>2 DEF CallKnown, Becomes, Linked, Opening, Connecting
  <2> QED
    BY <1>7, <1>8, <2>2, <2>3 DEF Turns
<1>9. CASE Lookup(c) /\ made = 0
  <2>1. Goto(c, "createAccount")
    BY <1>9 DEF Lookup
  <2>2. doubled' = (doubled \/ \E d \in Calls \ {c} : call[d].step = "createAccount")
    BY <1>9 DEF Lookup
  <2> QED
    BY <1>8, <1>9, <2>1, <2>2
<1>10. CASE Lookup(c) /\ made # 0
  <2>1. PICK t \in 1..made : call' = [call EXCEPT ![c].step = "deploy", ![c].at = t, ![c].saw = terminal[t]]
    BY <1>10 DEF Lookup
  <2>2. PICK saw \in Saws : saw = terminal[t]
    BY <1>1, <2>1, OfCall, SessionsAssumption DEF TerminalType, Terminals, Saws
  <2>3. t \in 0..MaxTerminals /\ t <= made /\ t > 0
    BY <1>1, <2>1, SessionsAssumption
  <2>4. call' = [call EXCEPT ![c].step = "deploy", ![c].at = t, ![c].saw = saw]
    BY <2>1, <2>2
  <2>5. PICK d \in CallType :
          Turns(c, d) /\ Becomes(d, call[c], "deploy", t, saw, call[c].cached, call[c].on, call[c].created)
    BY <2>3, <2>4, Finds
  <2>6. CallKnown(d, made) /\ d.step = "deploy"
    BY <1>1, <2>3, <2>5 DEF CallKnown, Becomes, Linked, Opening, Connecting
  <2> QED
    BY <1>7, <2>5, <2>6 DEF Turns
<1>11. CASE LookupThrows(c)
  BY <1>8, <1>11 DEF LookupThrows
<1> QED
  BY <1>9, <1>10, <1>11

LEMMA CreateAccountKeeps ==
  ASSUME SessionsInvariant, NEW c \in Calls, CreateAccount(c)
  PROVE  SessionsInvariant'
<1>1. /\ call[c].step = "createAccount" /\ call[c].kind \in Connecting /\ call[c].row \in Rows
      /\ ~call[c].cached /\ ~call[c].created
      /\ made \in 0..MaxTerminals /\ made < MaxTerminals /\ MaxTerminals \in Nat
  BY OfCall, SessionsAssumption DEF CreateAccount, CallKnown, Opening, TerminalType
<1>2. /\ made' = made + 1 /\ terminal' = [terminal EXCEPT ![made + 1] = "CREATED"]
      /\ UNCHANGED <<row, cache, requests, throws, doubled, stranded, loose>>
  BY DEF CreateAccount, sbounds, shistory
<1>3. PICK n \in 1..MaxTerminals : n = made + 1
  BY <1>1
<1>4. made' = n /\ made' \in 0..MaxTerminals /\ made <= made' /\ terminal' = [terminal EXCEPT ![n] = "CREATED"]
  BY <1>1, <1>2, <1>3
<1>5. TerminalType'
  <2>1. TerminalType
    BY OfCall
  <2> QED
    BY <1>1, <1>3, <1>4, <2>1 DEF TerminalType, Terminals
<1>6. RestType'
  <2>1. RestType
    BY OfCall
  <2> QED
    BY <1>2, <2>1 DEF RestType
<1>7. PICK d \in CallType :
        Turns(c, d) /\ Becomes(d, call[c], "deploy", n, "CREATED", call[c].cached, call[c].on, TRUE)
  <2>1. call' = [call EXCEPT ![c].step = "deploy", ![c].at = n, ![c].saw = "CREATED", ![c].created = TRUE]
    BY <1>3 DEF CreateAccount
  <2>2. n \in 0..MaxTerminals
    BY <1>3
  <2> QED
    BY <2>1, <2>2, Creates
<1>8. CallKnown(d, made')
  BY <1>1, <1>3, <1>4, <1>7 DEF CallKnown, Becomes, Linked, Opening, Connecting
<1>9. SessionsType /\ CallsKnown /\ CacheKnown /\ HandKnown /\ RowsKnown
  BY DEF SessionsInvariant
<1>10. /\ call' \in [Calls -> CallType] /\ CallsKnown'
       /\ call'[c] = d /\ \A b \in Calls \ {c} : call'[b] = call[b]
  <2>1. call' = [call EXCEPT ![c] = d]
    BY <1>7 DEF Turns
  <2> QED
    BY <1>4, <1>8, <1>9, <2>1, OneCall
<1>11. CacheKnown'
  <2>1. CacheLoses /\ ~Opens(c)
    BY <1>1, <1>2, SameCache DEF Opens, Opening
  <2>2. d.step = "deploy"
    BY <1>7 DEF Becomes
  <2> QED
    BY <1>9, <1>10, <2>1, <2>2, CacheKept
<1>12. HandKnown'
  <2>1. made' > 1 => doubled'
    BY <1>1, <1>2, <1>9 DEF HandKnown, Creating
  <2>2. d.step = "deploy" /\ d.at = n /\ d.created
    BY <1>7 DEF Becomes
  <2>3. \A b \in Calls : Creating(b)' => Creating(b) /\ b # c
    BY <1>10, <2>2 DEF Creating
  <2>4. \A b \in Calls : Creating(b)' => doubled'
    BY <1>1, <1>2, <1>9, <2>3 DEF HandKnown, Creating
  <2>5. ASSUME NEW t \in 1..made'
        PROVE  InHand(t)'
    <3>1. CASE t = n
      BY <1>10, <2>2, <3>1 DEF InHand
    <3>2. CASE t # n
      <4>1. t \in 1..made
        BY <1>1, <1>2, <1>3, <3>2
      <4>2. InHand(t)
        BY <1>9, <4>1 DEF HandKnown
      <4>3. \A b \in Calls : call[b].created => call'[b] = call[b]
        BY <1>1, <1>10
      <4>4. CASE t \in stranded \/ doubled
        BY <1>2, <4>4 DEF InHand
      <4>5. CASE \E r \in Rows : row[r].at = t
        BY <1>2, <4>5 DEF InHand
      <4>6. CASE \E b \in Calls : call[b].at = t /\ call[b].created
        BY <4>3, <4>6 DEF InHand
      <4> QED
        BY <4>2, <4>4, <4>5, <4>6 DEF InHand
    <3> QED
      BY <3>1, <3>2
  <2> QED
    BY <2>1, <2>4, <2>5 DEF HandKnown
<1>13. RowsKnown'
  <2>1. \A r \in Rows : row'[r].at \in 0..MaxTerminals /\ row[r].at <= made /\ row'[r].at = row[r].at
    BY <1>2, <1>6, <1>9 DEF RowsKnown, RestType, RowType
  <2> QED
    BY <1>1, <1>4, <2>1 DEF RowsKnown
<1> QED
  BY <1>5, <1>6, <1>10, <1>11, <1>12, <1>13 DEF SessionsInvariant, SessionsType, TerminalType, RestType
-----------------------------------------------------------------------------
(* Connections: opened, waited for, refused.                                 *)

\* Some calls stop working on their connections: each d in who that let go of it keeps the
\* account it works on, and what it made.
LetsGo(k, d, n) ==
  /\ CallKnown(d, n) /\ d.at = k.at /\ d.created = k.created /\ ~d.cached
  /\ d.step \notin {"waiting", "createAccount"}

\* Those who share a promise are settled together, and it leaves the cache.
LEMMA AllLetGo ==
  ASSUME SessionsInvariant, NEW c \in Calls, Opens(c),
         call' \in [Calls -> CallType],
         \A b \in Sharing(c) : LetsGo(call[b], call'[b], made),
         \A b \in Calls \ Sharing(c) : call'[b] = call[b],
         CacheLoses, Entry(c) \in DOMAIN cache => cache'[Entry(c)] # c,
         UNCHANGED <<row, made, terminal, doubled, stranded, requests, loose>>,
         cache' \in [{"web", "worker"} \X Terminals -> {"none", "open"} \cup Calls],
         throws' \in 0..MaxThrows
  PROVE  SessionsInvariant'
<1>1. SessionsType /\ CallsKnown /\ CacheKnown /\ HandKnown /\ RowsKnown /\ call \in [Calls -> CallType]
  BY DEF SessionsInvariant, SessionsType
<1>2. Sharing(c) \subseteq Calls /\ c \in Sharing(c)
  BY DEF Sharing
<1>3. CallsKnown'
  BY <1>1, <1>2 DEF CallsKnown, LetsGo
<1>4. \A b \in Calls : Opens(b) /\ b # c => b \notin Sharing(c)
  BY DEF Opens, Opening, Sharing
<1>5. \A b \in Calls : Opens(b) /\ b # c => Opens(b)' /\ Entry(b)' = Entry(b)
  <2>1. ASSUME NEW b \in Calls, Opens(b), b # c
        PROVE  call'[b] = call[b]
    BY <1>4, <2>1
  <2> QED
    BY <2>1 DEF Opens, Entry
<1>6. CacheKnown'
  <2>1. ASSUME NEW e \in DOMAIN cache', cache'[e] \in Calls
        PROVE  (Opens(cache[e]) /\ Entry(cache[e]) = e)'
    <3>1. PICK b \in Calls : b = cache[e] /\ b = cache'[e] /\ e \in DOMAIN cache
      BY <2>1 DEF CacheLoses
    <3>2. Opens(b) /\ Entry(b) = e
      BY <1>1, <3>1 DEF CacheKnown
    <3>3. b # c
      BY <3>1, <3>2
    <3>4. Opens(b)' /\ Entry(b)' = e
      BY <1>5, <3>2, <3>3
    <3> QED
      BY <3>1, <3>4 DEF Opens, Entry
  <2>2. ASSUME NEW b \in Calls, call'[b].step = "waiting"
        PROVE  (call[b].on \in Calls /\ Opens(call[b].on))'
    <3>1. b \notin Sharing(c)
      BY <2>2 DEF LetsGo
    <3>2. call'[b] = call[b]
      BY <3>1
    <3>3. PICK o : o = call[b].on
      OBVIOUS
    <3>4. o \in Calls /\ Opens(o) /\ o # c
      BY <1>1, <2>2, <3>1, <3>2, <3>3 DEF CacheKnown, Sharing
    <3>5. Opens(o)'
      BY <1>5, <3>4
    <3> QED
      BY <3>2, <3>3, <3>4, <3>5 DEF Opens
  <2> QED
    BY <2>1, <2>2 DEF CacheKnown
<1>7. HandKnown'
  <2>1. \A b \in Calls : call'[b].step = "createAccount" => call[b].step = "createAccount"
    BY DEF LetsGo
  <2>2. \A b \in Calls : call'[b].at = call[b].at /\ call'[b].created = call[b].created
    BY DEF LetsGo
  <2>3. \A t \in 1..made : InHand(t) => InHand(t)'
    BY <2>2 DEF InHand
  <2> QED
    BY <1>1, <2>1, <2>3 DEF HandKnown, Creating
<1>8. RowsKnown'
  BY <1>1 DEF RowsKnown
<1>9. TerminalType' /\ RestType'
  <2>1. TerminalType /\ RestType
    BY <1>1, TypeParts
  <2> QED
    BY <2>1 DEF TerminalType, RestType
<1> QED
  BY <1>3, <1>6, <1>7, <1>8, <1>9 DEF SessionsInvariant, SessionsType, TerminalType, RestType

\* What the calls that share it are.
LEMMA OfSharing ==
  ASSUME SessionsInvariant, NEW c \in Calls, Opens(c), NEW b \in Sharing(c)
  PROVE  /\ b \in Calls /\ call[b] \in CallType /\ CallKnown(call[b], made)
         /\ call[b].step \in Linked /\ call[b].at > 0 /\ call[b].kind \in Connecting /\ call[b].row \in Rows
         /\ ~(call[b].created /\ call[b].kind = "sweep")
<1>1. b \in Calls /\ call[b].step \in Opening \cup {"waiting"} /\ (call[b].cached \/ call[b].step = "waiting")
  BY DEF Sharing, Opens
<1>2. call[b] \in CallType /\ CallKnown(call[b], made)
  BY <1>1, OfCall
<1> QED
  BY <1>1, <1>2 DEF CallKnown, Linked, Opening

LEMMA RefusedLetsGo ==
  ASSUME NEW k \in CallType, NEW n \in Nat, CallKnown(k, n), k.step \in Linked, ~(k.created /\ k.kind = "sweep")
  PROVE  Refused(k) \in CallType /\ LetsGo(k, Refused(k), n)
<1>1. k.at \in 0..MaxTerminals /\ NoCall \in Calls \cup {NoCall} /\ FALSE \in BOOLEAN
  BY DEF CallType
<1>2. /\ "lookup" \in Steps /\ "store" \in Steps /\ "none" \in Saws /\ "UNKNOWN" \in Saws
  BY DEF Steps, Saws
<1>3. k.kind \in Connecting /\ k.at > 0 /\ k.step # "none" /\ k.row \in Rows
  BY DEF CallKnown, Linked, Opening
<1>4. CASE k.kind = "sweep"
  <2>1. PICK d : d = [k EXCEPT !.step = "lookup", !.on = NoCall, !.cached = FALSE, !.saw = "none"]
    OBVIOUS
  <2>2. Becomes(d, k, "lookup", k.at, "none", FALSE, NoCall, k.created)
    BY <1>1, <1>2, <2>1, Updates
  <2>3. d \in CallType /\ LetsGo(k, d, n)
    BY <1>3, <1>4, <2>2 DEF Becomes, LetsGo, CallKnown, Linked, Opening, Connecting
  <2> QED
    BY <1>4, <2>1, <2>3 DEF Refused
<1>5. CASE k.kind # "sweep"
  <2>1. PICK d : d = [k EXCEPT !.step = "store", !.on = NoCall, !.cached = FALSE, !.saw = "UNKNOWN"]
    OBVIOUS
  <2>2. Becomes(d, k, "store", k.at, "UNKNOWN", FALSE, NoCall, k.created)
    BY <1>1, <1>2, <2>1, Updates
  <2>3. d \in CallType /\ LetsGo(k, d, n)
    BY <1>3, <1>5, <2>2 DEF Becomes, LetsGo, CallKnown, Linked, Opening, Connecting
  <2> QED
    BY <1>5, <2>1, <2>3 DEF Refused
<1> QED
  BY <1>4, <1>5

LEMMA EntryIn ==
  ASSUME SessionsInvariant, NEW c \in Calls, call[c].at > 0
  PROVE  Entry(c) \in DOMAIN cache /\ cache \in [{"web", "worker"} \X Terminals -> {"none", "open"} \cup Calls]
<1>1. call[c].at \in Terminals /\ RestType
  BY OfCall
<1>2. PICK t \in Terminals : t = call[c].at
  BY <1>1
<1>3. PICK p \in {"web", "worker"} : p = Process(c)
  BY DEF Process
<1>4. Entry(c) = <<p, t>>
  BY <1>2, <1>3 DEF Entry
<1>5. cache \in [{"web", "worker"} \X Terminals -> {"none", "open"} \cup Calls]
  BY <1>1 DEF RestType
<1> QED
  BY <1>4, <1>5

LEMMA OpeningFailsKeeps ==
  ASSUME SessionsInvariant, NEW c \in Calls, Opens(c), OpeningFails(c), throws' \in 0..MaxThrows
  PROVE  SessionsInvariant'
<1>1. /\ call' = [d \in Calls |-> IF d \in Sharing(c) THEN Refused(call[d]) ELSE call[d]]
      /\ cache' = [cache EXCEPT ![Entry(c)] = "none"]
      /\ UNCHANGED <<row, terminal, made, requests, doubled, stranded, loose>>
  BY DEF OpeningFails, shistory
<1>2. made \in Nat /\ call \in [Calls -> CallType] /\ Sharing(c) \subseteq Calls
  BY OfCall, SessionsAssumption DEF TerminalType, Sharing
<1>3. \A b \in Sharing(c) : Refused(call[b]) \in CallType /\ LetsGo(call[b], Refused(call[b]), made)
  BY <1>2, OfSharing, RefusedLetsGo
<1>4. \A b \in Sharing(c) : call'[b] = Refused(call[b])
  BY <1>1, <1>2
<1>5. \A b \in Calls \ Sharing(c) : call'[b] = call[b]
  BY <1>1
<1>6. call' \in [Calls -> CallType]
  BY <1>1, <1>2, <1>3
<1>7. \A b \in Sharing(c) : LetsGo(call[b], call'[b], made)
  BY <1>3, <1>4
<1>8. PICK e : e = Entry(c)
  OBVIOUS
<1>9. CacheLoses /\ cache' \in [{"web", "worker"} \X Terminals -> {"none", "open"} \cup Calls]
  BY <1>1, <1>8, CacheSet
<1>10. Entry(c) \in DOMAIN cache => cache'[Entry(c)] # c
  <2>1. "none" \notin Calls
    BY SessionsAssumption DEF Calls
  <2> QED
    BY <1>1, <2>1
<1> QED
  BY <1>1, <1>5, <1>6, <1>7, <1>9, <1>10, AllLetGo

LEMMA ConnectFailsKeeps ==
  ASSUME SessionsInvariant, NEW c \in Calls, call[c].step \in Opening, ~call[c].cached, ConnectFails(c),
         throws' \in 0..MaxThrows
  PROVE  SessionsInvariant'
<1>1. "UNKNOWN" \in Saws \ {"CREATED"} /\ call[c].step # "none" /\ Finish(c, "UNKNOWN")
  BY DEF Saws, Opening, ConnectFails
<1>2. UNCHANGED <<row, terminal, made, cache, requests, shistory>>
  BY DEF ConnectFails
<1> QED
  BY <1>1, <1>2, FinishKeeps

\* An opening that fails.
LEMMA FailsKeeps ==
  ASSUME SessionsInvariant, NEW c \in Calls, call[c].step \in Opening,
         IF call[c].cached THEN OpeningFails(c) ELSE ConnectFails(c), throws' \in 0..MaxThrows
  PROVE  SessionsInvariant'
<1>1. CASE call[c].cached
  BY <1>1, OpeningFailsKeeps DEF Opens
<1>2. CASE ~call[c].cached
  BY <1>2, ConnectFailsKeeps
<1> QED
  BY <1>1, <1>2

LEMMA WaitConnectedKeeps ==
  ASSUME SessionsInvariant, NEW c \in Calls, WaitConnected(c)
  PROVE  SessionsInvariant'
<1>1. /\ call[c].step = "waitConnected" /\ call[c].kind \in Connecting /\ call[c].at > 0
      /\ throws' \in 0..MaxThrows
  BY OfCall DEF WaitConnected, CallKnown, Linked, Opening, RestType, sbounds
<1>2. UNCHANGED <<row, terminal, made, requests, doubled, stranded, loose>>
  BY DEF WaitConnected, sbounds, shistory
<1>3. PICK e : e = Entry(c)
  OBVIOUS
<1>4. e \in DOMAIN cache /\ cache \in [{"web", "worker"} \X Terminals -> {"none", "open"} \cup Calls]
  BY <1>1, <1>3, EntryIn
<1>5. "open" \notin Calls
  BY SessionsAssumption DEF Calls
<1>6. CASE call[c].cached
  <2>1. Opens(c) /\ Sharing(c) \subseteq Calls /\ made \in Nat /\ call \in [Calls -> CallType]
    BY <1>1, <1>6, OfCall, SessionsAssumption DEF Opens, Opening, Sharing, TerminalType
  <2>2. /\ call' = [d \in Calls |->
             IF d \in Sharing(c) THEN [call[d] EXCEPT !.step = "read", !.on = NoCall, !.cached = FALSE] ELSE call[d]]
        /\ cache' = [cache EXCEPT ![e] = IF @ = c THEN "open" ELSE @]
    BY <1>3, <1>6 DEF WaitConnected
  <2>3. ASSUME NEW b \in Sharing(c)
        PROVE  call'[b] \in CallType /\ LetsGo(call[b], call'[b], made)
    <3>1. PICK k \in CallType : k = call[b]
      BY <2>3, OfSharing, <2>1
    <3>2. /\ CallKnown(k, made) /\ k.step \in Linked /\ k.at > 0 /\ k.kind \in Connecting /\ k.row \in Rows
          /\ ~(k.created /\ k.kind = "sweep")
      BY <2>1, <2>3, <3>1, OfSharing
    <3>3. PICK d : d = [k EXCEPT !.step = "read", !.on = NoCall, !.cached = FALSE]
      OBVIOUS
    <3>4. k.at \in 0..MaxTerminals /\ k.saw \in Saws /\ "read" \in Steps
      BY DEF CallType, Saws, Steps
    <3>5. Becomes(d, k, "read", k.at, k.saw, FALSE, NoCall, k.created)
      BY <3>3, <3>4, Updates
    <3>6. d \in CallType /\ LetsGo(k, d, made)
      BY <3>2, <3>5 DEF Becomes, LetsGo, CallKnown, Linked, Opening, Connecting
    <3>7. call'[b] = d
      BY <2>1, <2>2, <2>3, <3>1, <3>3
    <3> QED
      BY <3>1, <3>6, <3>7
  <2>4. \A b \in Calls \ Sharing(c) : call'[b] = call[b]
    BY <2>2
  <2>5. call' \in [Calls -> CallType]
    <3>1. \A b \in Calls : call'[b] \in CallType
      BY <2>1, <2>3, <2>4
    <3> QED
      BY <2>2, <3>1
  <2>6. CacheLoses /\ cache'[e] # c
    BY <1>4, <1>5, <2>2 DEF CacheLoses
  <2>7. cache' \in [{"web", "worker"} \X Terminals -> {"none", "open"} \cup Calls]
    BY <1>4, <2>2
  <2> QED
    BY <1>1, <1>2, <1>3, <2>1, <2>3, <2>4, <2>5, <2>6, <2>7, AllLetGo
<1>7. CASE ~call[c].cached
  <2>1. Goto(c, "information") /\ cache' = [cache EXCEPT ![e] = "open"]
    BY <1>3, <1>7 DEF WaitConnected
  <2>2. CacheLoses /\ cache' \in [{"web", "worker"} \X Terminals -> {"none", "open"} \cup Calls]
    BY <2>1, CacheSet
  <2>3. TerminalType' /\ loose' \subseteq Rows
    BY <1>2, OfCall DEF TerminalType, RestType
  <2>4. RestStays
    BY <1>1, <1>2, <2>2, <2>3 DEF RestStays
  <2> QED
    BY <1>1, <1>7, <2>1, <2>4, StepKeeps
<1> QED
  BY <1>6, <1>7

\* A read that is refused.
LEMMA RefusedKeeps ==
  ASSUME SessionsInvariant, NEW c \in Calls, call[c].step = "read", call' = [call EXCEPT ![c] = Refused(@)],
         UNCHANGED <<row, terminal, made, cache, requests, shistory>>, throws' \in 0..MaxThrows
  PROVE  SessionsInvariant'
<1>1. PICK k \in CallType : k = call[c]
  BY OfCall
<1>2. /\ CallKnown(k, made) /\ made \in Nat /\ k.step \in Linked /\ ~k.cached
      /\ ~(k.created /\ k.kind = "sweep")
  BY <1>1, OfCall, SessionsAssumption DEF CallKnown, Linked, Opening, TerminalType
<1>3. PICK d : d = Refused(k)
  OBVIOUS
<1>4. d \in CallType /\ LetsGo(k, d, made)
  BY <1>2, <1>3, RefusedLetsGo
<1>5. call' = [call EXCEPT ![c] = d]
  BY <1>1, <1>3
<1>6. ~Opens(c) /\ d.step \notin {"waiting", "createAccount"} /\ CallKnown(d, made)
      /\ (call[c].created => d.created /\ d.at = call[c].at)
  BY <1>1, <1>2, <1>4 DEF Opens, LetsGo
<1>7. UNCHANGED <<made, doubled, stranded, row, requests, loose>> /\ CacheLoses
  BY SameCache DEF shistory
<1>8. call' \in [Calls -> CallType] /\ CallsKnown' /\ RowsKnown' /\ CacheKnown' /\ HandKnown'
  <2>1. /\ Opens(c) => d.step \in Opening /\ d.cached = call[c].cached /\ d.at = call[c].at
        /\ UNCHANGED <<made, doubled>> /\ stranded \subseteq stranded'
        /\ \A r \in Rows : row'[r].at = row[r].at
    BY <1>6, <1>7
  <2> QED
    BY <1>4, <1>5, <1>6, <1>7, <2>1, Moves
<1>9. TerminalType' /\ RestType'
  <2>1. TerminalType /\ RestType
    BY OfCall
  <2> QED
    BY <1>7, <2>1 DEF TerminalType, RestType
<1> QED
  BY <1>8, <1>9 DEF SessionsInvariant, SessionsType, TerminalType, RestType

LEMMA ReadKeeps ==
  ASSUME SessionsInvariant, NEW c \in Calls, Read(c)
  PROVE  SessionsInvariant'
<1>1. /\ call[c].step = "read" /\ call[c].at > 0 /\ ~call[c].cached /\ throws \in 0..MaxThrows
  BY OfCall DEF Read, CallKnown, Linked, Opening, RestType
<1>2. UNCHANGED <<row, terminal, made, cache, requests, shistory>> /\ throws' \in 0..MaxThrows
  BY <1>1 DEF Read, sbounds
<1>3. CASE terminal[call[c].at] = "DEPLOYED"
  <2>1. Finish(c, "DEPLOYED") /\ "DEPLOYED" \in Saws \ {"CREATED"}
    BY <1>3 DEF Read, Saws, DeploymentState
  <2> QED
    BY <1>1, <1>2, <2>1, FinishKeeps
<1>4. CASE terminal[call[c].at] # "DEPLOYED"
  BY <1>1, <1>2, <1>4, RefusedKeeps DEF Read
<1> QED
  BY <1>3, <1>4
LEMMA TimesOutKeeps ==
  ASSUME SessionsInvariant, NEW c \in Calls, TimesOut(c)
  PROVE  SessionsInvariant'
<1>1. throws' \in 0..MaxThrows
  BY OfCall DEF TimesOut, RestType
<1>2. call[c].step \in Opening /\ (IF call[c].cached THEN OpeningFails(c) ELSE ConnectFails(c))
  BY DEF TimesOut, Opening
<1> QED
  BY <1>1, <1>2, FailsKeeps

LEMMA ConnectionKeeps ==
  ASSUME SessionsInvariant, NEW c \in Calls, Connection(c)
  PROVE  SessionsInvariant'
<1>1. PICK k \in CallType : k = call[c]
  BY OfCall
<1>2. /\ k.step = "connection" /\ CallKnown(k, made) /\ k.kind \in Connecting /\ k.at > 0 /\ ~k.cached /\ ~Opens(c)
      /\ k.row \in Rows /\ ~(k.created /\ k.kind = "sweep")
  BY <1>1, OfCall DEF Connection, CallKnown, Linked, Opening, Opens
<1>3. k.at \in 0..MaxTerminals /\ k.saw \in Saws /\ k.on \in Calls \cup {NoCall} /\ k.cached \in BOOLEAN
  BY <1>1, OfCall
<1>4. UNCHANGED <<row, terminal, made, requests, throws, doubled, stranded, loose>>
  BY DEF Connection, sbounds, shistory
<1>5. PICK e : e = Entry(c) /\ e \in DOMAIN cache
  BY <1>1, <1>2, EntryIn
<1>6. /\ SessionsType /\ CallsKnown /\ CacheKnown /\ HandKnown /\ RowsKnown /\ call \in [Calls -> CallType]
      /\ cache \in [{"web", "worker"} \X Terminals -> {"none", "open"} \cup Calls] /\ made \in 0..MaxTerminals
  BY DEF SessionsInvariant, SessionsType
<1>7. PICK v \in {"none", "open"} \cup Calls : v = cache[e]
  BY <1>5, <1>6
<1>8. "none" \notin Calls /\ "open" \notin Calls
  BY SessionsAssumption DEF Calls
<1>9. TerminalType'
  BY <1>4, OfCall DEF TerminalType
<1>10. ASSUME NEW d \in CallType, call' = [call EXCEPT ![c] = d], CallKnown(d, made), d.step # "createAccount",
              d.created = k.created, d.at = k.at,
              cache' \in [{"web", "worker"} \X Terminals -> {"none", "open"} \cup Calls],
              call'[c] = d /\ (\A b \in Calls \ {c} : call'[b] = call[b]) => CacheKnown'
       PROVE  SessionsInvariant'
  <2>1. made' \in 0..MaxTerminals /\ made <= made' /\ CallKnown(d, made')
    BY <1>4, <1>6, <1>10, SessionsAssumption
  <2>2. /\ call' \in [Calls -> CallType] /\ CallsKnown'
        /\ call'[c] = d /\ \A b \in Calls \ {c} : call'[b] = call[b]
    BY <1>6, <1>10, <2>1, OneCall
  <2>3. /\ made' = made /\ (doubled => doubled') /\ stranded \subseteq stranded'
        /\ \A r \in Rows : row'[r].at = row[r].at
        /\ (call'[c].step = "createAccount"
              => doubled' \/ (made = 0 /\ \A b \in Calls \ {c} : call[b].step # "createAccount"))
        /\ (call[c].created => call'[c].created /\ call'[c].at = call[c].at)
    BY <1>1, <1>4, <1>10, <2>2
  <2>4. HandKnown'
    BY <1>6, <2>2, <2>3, HandKept
  <2>5. RowsKnown'
    BY <1>4, <1>6 DEF RowsKnown
  <2>6. RestType'
    <3>1. RestType
      BY OfCall
    <3> QED
      BY <1>4, <1>10, <3>1 DEF RestType
  <2> QED
    BY <1>9, <1>10, <2>2, <2>4, <2>5, <2>6 DEF SessionsInvariant, SessionsType, TerminalType, RestType
<1>11. CASE v = "none"
  <2>1. cache' = [cache EXCEPT ![e] = c] /\ call' = [call EXCEPT ![c].step = "getAccount", ![c].cached = TRUE]
    BY <1>5, <1>7, <1>11 DEF Connection
  <2>2. PICK d : d = [k EXCEPT !.step = "getAccount", !.cached = TRUE]
    OBVIOUS
  <2>3. "getAccount" \in Steps /\ TRUE \in BOOLEAN
    BY DEF Steps, Opening
  <2>4. Becomes(d, k, "getAccount", k.at, k.saw, TRUE, k.on, k.created)
    BY <1>3, <2>2, <2>3, Updates
  <2>5. d \in CallType /\ d.step = "getAccount" /\ d.at = k.at /\ d.created = k.created /\ d.cached
    BY <2>4 DEF Becomes
  <2>6. call' = [call EXCEPT ![c] = d]
    BY <1>1, <1>6, <2>1, <2>2
  <2>7. CallKnown(d, made)
    BY <1>2, <2>4 DEF CallKnown, Becomes, Linked, Opening, Connecting
  <2>8. ASSUME call'[c] = d, \A b \in Calls \ {c} : call'[b] = call[b]
        PROVE  CacheKnown'
    <3>1. \A b \in Calls : Opens(b) => Opens(b)' /\ Entry(b)' = Entry(b)
      <4>1. \A b \in Calls : Opens(b) => call'[b] = call[b]
        BY <1>2, <2>8
      <4> QED
        BY <4>1 DEF Opens, Entry
    <3>2. Opens(c)' /\ Entry(c)' = e
      BY <1>1, <1>5, <2>5, <2>8 DEF Opens, Opening, Entry
    <3>3. ASSUME NEW x \in DOMAIN cache', cache'[x] \in Calls
          PROVE  (Opens(cache[x]) /\ Entry(cache[x]) = x)'
      <4>1. CASE x = e
        <5>1. cache'[x] = c
          BY <1>5, <2>1, <4>1
        <5> QED
          BY <3>2, <4>1, <5>1 DEF Opens, Entry
      <4>2. CASE x # e
        <5>1. PICK b \in Calls : b = cache'[x] /\ b = cache[x] /\ x \in DOMAIN cache
          BY <2>1, <3>3, <4>2
        <5>2. Opens(b) /\ Entry(b) = x
          BY <1>6, <5>1 DEF CacheKnown
        <5>3. Opens(b)' /\ Entry(b)' = x
          BY <3>1, <5>2
        <5> QED
          BY <5>1, <5>3 DEF Opens, Entry
      <4> QED
        BY <4>1, <4>2
    <3>4. ASSUME NEW b \in Calls, call'[b].step = "waiting"
          PROVE  (call[b].on \in Calls /\ Opens(call[b].on))'
      <4>1. PICK o : o = call'[b].on
        OBVIOUS
      <4>2. o \in Calls /\ Opens(o)
        BY <1>6, <2>5, <2>8, <3>4, <4>1 DEF CacheKnown
      <4>3. Opens(o)'
        BY <3>1, <4>2
      <4> QED
        BY <4>1, <4>2, <4>3 DEF Opens
    <3> QED
      BY <3>3, <3>4 DEF CacheKnown
  <2>9. cache' \in [{"web", "worker"} \X Terminals -> {"none", "open"} \cup Calls]
    BY <1>6, <2>1
  <2> QED
    BY <1>10, <2>5, <2>6, <2>7, <2>8, <2>9
<1>12. CASE v # "none"
  <2>1. PICK to \in {"read", "waiting"} : to = IF v = "open" THEN "read" ELSE "waiting"
    OBVIOUS
  <2>2. PICK o \in Calls \cup {NoCall} : o = IF v = "open" THEN NoCall ELSE v
    BY <1>7, <1>12
  <2>3. cache' = cache /\ call' = [call EXCEPT ![c].step = to, ![c].on = o]
    BY <1>5, <1>7, <1>12, <2>1, <2>2 DEF Connection
  <2>4. PICK d : d = [k EXCEPT !.step = to, !.on = o]
    OBVIOUS
  <2>5. to \in Steps
    BY <2>1 DEF Steps
  <2>6. Becomes(d, k, to, k.at, k.saw, k.cached, o, k.created)
    BY <1>3, <2>4, <2>5, Updates
  <2>7. d \in CallType /\ d.step = to /\ d.at = k.at /\ d.created = k.created /\ d.on = o
    BY <2>6 DEF Becomes
  <2>8. call' = [call EXCEPT ![c] = d]
    BY <1>1, <1>6, <2>3, <2>4
  <2>9. CallKnown(d, made)
    BY <1>2, <2>1, <2>6 DEF CallKnown, Becomes, Linked, Opening, Connecting
  <2>10. ASSUME call'[c] = d, \A b \in Calls \ {c} : call'[b] = call[b]
         PROVE  CacheKnown'
    <3>1. ASSUME call'[c].step = "waiting"
          PROVE  call'[c].on \in Calls /\ Opens(call'[c].on)
      <4>1. o = v /\ v \in Calls /\ call'[c].on = o
        BY <1>7, <1>12, <2>1, <2>2, <2>7, <2>10, <3>1
      <4>2. Opens(v)
        BY <1>5, <1>6, <1>7, <4>1 DEF CacheKnown
      <4> QED
        BY <4>1, <4>2
    <3> QED
      BY <1>2, <1>6, <2>3, <2>10, <3>1, CacheKept, SameCache
  <2> QED
    BY <1>6, <1>10, <2>1, <2>3, <2>7, <2>8, <2>9, <2>10
<1> QED
  BY <1>11, <1>12

LEMMA NoneKnown == ASSUME NEW n \in Nat PROVE CallKnown(NoneInFlight, n) /\ NoneInFlight.step = "none"
BY DEF CallKnown, NoneInFlight, Linked, Opening, Connecting

LEMMA StoreKeeps ==
  ASSUME SessionsInvariant, NEW c \in Calls, Store(c)
  PROVE  SessionsInvariant'
<1>1. PICK k \in CallType : k = call[c]
  BY OfCall
<1>2. /\ k.step = "store" /\ CallKnown(k, made) /\ k.row \in Rows /\ k.kind # "none" /\ ~Opens(c)
      /\ SessionsType /\ CallsKnown /\ CacheKnown /\ HandKnown /\ RowsKnown /\ RestType /\ TerminalType
  BY <1>1, OfCall DEF Store, CallKnown, Opens, Opening, SessionsInvariant
<1>3. PICK r \in Rows : r = k.row
  BY <1>2
<1>4. PICK new : new = After(c)
  OBVIOUS
<1>5. /\ row' = [row EXCEPT ![r] = new] /\ call' = [call EXCEPT ![c] = NoneInFlight]
      /\ stranded' = stranded \cup
           (IF k.created /\ k.kind \in {"connect", "sweep"} /\ k.saw # "DEPLOYED" THEN {k.at} ELSE {})
      /\ UNCHANGED <<terminal, made, cache, requests, throws, doubled>>
  BY <1>1, <1>3, <1>4 DEF Store, sbounds
<1>6. made \in 0..MaxTerminals /\ MaxTerminals \in Nat /\ row \in [Rows -> RowType]
  BY <1>2, SessionsAssumption DEF TerminalType, RestType
<1>7. PICK old \in RowType : old = row[r]
  BY <1>6
<1>8. old.at \in 0..MaxTerminals /\ old.at <= made
  BY <1>2, <1>7 DEF RowsKnown, RowType
<1>9. /\ new \in RowType
      /\ new.at = IF k.kind \in Connecting /\ k.saw = "DEPLOYED" THEN k.at ELSE old.at
  <2>1. k.at \in 0..MaxTerminals /\ k.saw \in Saws
    BY DEF CallType, Saws
  <2>2. CASE k.kind = "connect" /\ k.saw = "DEPLOYED"
    <3>1. new = [old EXCEPT !.status = "CONNECTED", !.at = k.at]
      BY <1>1, <1>3, <1>4, <1>7, <2>2 DEF After
    <3> QED
      BY <2>1, <2>2, <3>1 DEF RowType, Connecting
  <2>3. CASE k.kind \in Connecting /\ k.saw # "DEPLOYED"
    <3>1. new = [old EXCEPT !.status = "ERROR"]
      BY <1>1, <1>3, <1>4, <1>7, <2>3 DEF After, Connecting
    <3> QED
      BY <2>3, <3>1 DEF RowType
  <2>4. CASE k.kind = "sweep" /\ k.saw = "DEPLOYED"
    <3>1. PICK s : s = IF k.was = "ERROR" THEN "CONNECTED" ELSE old.status
      OBVIOUS
    <3>2. s \in {"DISCONNECTED", "CONNECTED", "CONNECTING", "ERROR"}
      BY <3>1 DEF RowType
    <3>3. new = [old EXCEPT !.at = k.at, !.status = s]
      BY <1>1, <1>3, <1>4, <1>7, <2>4, <3>1 DEF After, RowType
    <3> QED
      BY <2>1, <2>4, <3>2, <3>3 DEF RowType, Connecting
  <2>5. CASE k.kind \notin Connecting
    <3>1. k.saw \in {"none", "UNKNOWN"} \cup DeploymentState /\ k.kind \in {"disconnect", "disable", "enable", "view"}
      BY <1>2, <2>1, <2>5 DEF CallKnown, CallType, Saws, Connecting
    <3>2. CASE k.kind = "disconnect"
      <4>1. new = [old EXCEPT !.status = "DISCONNECTED"]
        BY <1>1, <1>3, <1>4, <1>7, <3>2 DEF After
      <4> QED
        BY <2>5, <4>1 DEF RowType
    <3>3. CASE k.kind = "disable"
      <4>1. new = [old EXCEPT !.enabled = FALSE, !.status = "DISCONNECTED", !.shown = k.saw]
        BY <1>1, <1>3, <1>4, <1>7, <3>3 DEF After
      <4> QED
        BY <2>5, <3>1, <4>1 DEF RowType
    <3>4. CASE k.kind = "enable"
      <4>1. new = [old EXCEPT !.enabled = TRUE, !.shown = k.saw]
        BY <1>1, <1>3, <1>4, <1>7, <3>4 DEF After
      <4> QED
        BY <2>5, <3>1, <4>1 DEF RowType
    <3>5. CASE k.kind = "view"
      <4>1. new = [old EXCEPT !.shown = k.saw]
        BY <1>1, <1>3, <1>4, <1>7, <3>5 DEF After
      <4> QED
        BY <2>5, <3>1, <4>1 DEF RowType
    <3> QED
      BY <3>1, <3>2, <3>3, <3>4, <3>5
  <2> QED
    BY <2>2, <2>3, <2>4, <2>5 DEF Connecting
<1>10. /\ k.at \in 0..MaxTerminals /\ k.at <= made /\ (k.created => k.at > 0 /\ k.kind \in Connecting)
       /\ (k.kind \in Connecting /\ k.saw = "DEPLOYED" => k.at > 0)
  BY <1>2 DEF CallKnown, CallType
<1>11. /\ call' \in [Calls -> CallType] /\ CallsKnown'
       /\ call'[c] = NoneInFlight /\ \A b \in Calls \ {c} : call'[b] = call[b]
  <2>1. made' \in 0..MaxTerminals /\ made <= made' /\ CallKnown(NoneInFlight, made')
    BY <1>5, <1>6, NoneKnown
  <2> QED
    BY <1>2, <1>5, <2>1, NoneType, OneCall
<1>12. CacheKnown'
  <2>1. call'[c].step # "waiting"
    BY <1>6, <1>11, NoneKnown
  <2> QED
    BY <1>2, <1>5, <1>11, <2>1, CacheKept, SameCache
<1>13. \A q \in Rows : row'[q] = IF q = r THEN new ELSE row[q]
  BY <1>5, <1>6
<1>14. RowsKnown'
  BY <1>2, <1>5, <1>8, <1>9, <1>10, <1>13 DEF RowsKnown
<1>15. HandKnown'
  <2>1. \A b \in Calls : Creating(b)' => Creating(b)
    <3>1. call'[c].step = "none"
      BY <1>6, <1>11, NoneKnown
    <3> QED
      BY <1>11, <3>1 DEF Creating
  <2>2. ASSUME NEW t \in 1..made
        PROVE  InHand(t)'
    <3>1. InHand(t)
      BY <1>2 DEF HandKnown
    <3>2. CASE t \in stranded \/ doubled
      BY <1>5, <3>2 DEF InHand
    <3>3. ASSUME NEW q \in Rows, row[q].at = t
          PROVE  InHand(t)'
      <4>1. CASE q # r \/ new.at = t
        BY <1>7, <1>13, <3>3, <4>1 DEF InHand
      <4>2. CASE q = r /\ new.at # t
        <5>1. new.at = k.at /\ k.at > 0 /\ k.at # t
          BY <1>7, <1>9, <1>10, <3>3, <4>2
        <5>2. made > 1
          BY <1>6, <1>10, <5>1
        <5>3. doubled
          BY <1>2, <5>2 DEF HandKnown
        <5> QED
          BY <1>5, <5>3 DEF InHand
      <4> QED
        BY <4>1, <4>2
    <3>4. ASSUME NEW b \in Calls, call[b].at = t, call[b].created
          PROVE  InHand(t)'
      <4>1. CASE b # c
        BY <1>11, <3>4, <4>1 DEF InHand
      <4>2. CASE b = c
        <5>1. k.created /\ k.at = t /\ k.kind \in Connecting
          BY <1>1, <1>10, <3>4, <4>2
        <5>2. CASE k.saw = "DEPLOYED"
          <6>1. row'[r].at = t
            BY <1>9, <1>13, <5>1, <5>2
          <6> QED
            BY <6>1 DEF InHand
        <5>3. CASE k.saw # "DEPLOYED"
          <6>1. t \in stranded'
            BY <1>5, <5>1, <5>3 DEF Connecting
          <6> QED
            BY <6>1 DEF InHand
        <5> QED
          BY <5>2, <5>3
      <4> QED
        BY <4>1, <4>2
    <3> QED
      BY <3>1, <3>2, <3>3, <3>4 DEF InHand
  <2> QED
    BY <1>2, <1>5, <2>1, <2>2 DEF HandKnown
<1>16. TerminalType'
  BY <1>2, <1>5 DEF TerminalType
<1>17. RestType'
  <2>1. row' \in [Rows -> RowType]
    BY <1>5, <1>6, <1>9
  <2>2. stranded' \subseteq Terminals
    <3>1. k.created => k.at \in Terminals
      BY <1>10 DEF Terminals
    <3>2. stranded \subseteq Terminals
      BY <1>2 DEF RestType
    <3>3. CASE k.created /\ k.kind \in {"connect", "sweep"} /\ k.saw # "DEPLOYED"
      BY <1>5, <3>1, <3>2, <3>3
    <3>4. CASE ~(k.created /\ k.kind \in {"connect", "sweep"} /\ k.saw # "DEPLOYED")
      BY <1>5, <3>2, <3>4
    <3> QED
      BY <3>3, <3>4
  <2>3. loose' \subseteq Rows
    BY <1>2, <1>1 DEF Store, RestType
  <2> QED
    BY <1>2, <1>5, <2>1, <2>2, <2>3 DEF RestType
<1> QED
  BY <1>11, <1>12, <1>14, <1>15, <1>16, <1>17 DEF SessionsInvariant, SessionsType, TerminalType, RestType
LEMMA ThrowKeeps ==
  ASSUME SessionsInvariant, NEW c \in Calls, Throw(c)
  PROVE  SessionsInvariant'
<1>1. throws' \in 0..MaxThrows
  <2>1. throws \in 0..MaxThrows /\ MaxThrows \in Nat
    BY OfCall, SessionsAssumption DEF RestType
  <2>2. throws < MaxThrows /\ throws' = throws + 1
    BY DEF Throw
  <2> QED
    BY <2>1, <2>2
<1>2. "UNKNOWN" \in Saws \ {"CREATED"} /\ CallKnown(call[c], made)
  BY OfCall DEF Saws
<1>3. call[c].cached => call[c].step \in Opening
  BY <1>2 DEF CallKnown
<1>4. CASE call[c].step \in Opening /\ IF call[c].cached THEN OpeningFails(c) ELSE ConnectFails(c)
  BY <1>1, <1>4, FailsKeeps
<1>5. CASE /\ call[c].step \in {"createAccount", "information", "ask"} /\ Finish(c, "UNKNOWN")
           /\ UNCHANGED <<row, terminal, made, cache, requests, shistory>>
  <2>1. call[c].step # "none" /\ ~call[c].cached
    BY <1>3, <1>5 DEF Opening
  <2> QED
    BY <1>1, <1>2, <1>5, <2>1, FinishKeeps
<1>6. CASE /\ call[c].step = "read" /\ call' = [call EXCEPT ![c] = Refused(@)]
           /\ UNCHANGED <<row, terminal, made, cache, requests, shistory>>
  BY <1>1, <1>6, RefusedKeeps
<1>7. CASE /\ call[c].step = "undeploy" /\ Goto(c, "ask")
           /\ UNCHANGED <<row, terminal, made, cache, requests, shistory>>
  <2>1. call[c].step # "none" /\ ~call[c].cached /\ call[c].kind \notin Connecting
    BY <1>2, <1>3, <1>7 DEF Opening, CallKnown
  <2>2. RestStays
    BY <1>1, <1>7, AllStays
  <2> QED
    BY <1>7, <2>1, <2>2, StepKeeps
<1>8. CASE /\ call[c].step = "start" /\ call' = [call EXCEPT ![c] = NoneInFlight]
           /\ UNCHANGED <<terminal, loose>> \/ (Order(call[c].at, "DEPLOYING") /\ loose' = loose \cup {call[c].row})
           /\ UNCHANGED <<row, made, cache, requests, doubled, stranded>>
  <2>1. ~call[c].created /\ ~Opens(c) /\ call[c].row \in Rows
    BY <1>2, <1>8 DEF Opens, Opening, CallKnown
  <2>2. made \in Nat /\ CallKnown(NoneInFlight, made) /\ NoneInFlight.step = "none"
    BY OfCall, NoneKnown, SessionsAssumption DEF TerminalType
  <2>3. /\ Opens(c) => NoneInFlight.step \in Opening /\ NoneInFlight.cached = call[c].cached
                         /\ NoneInFlight.at = call[c].at
        /\ NoneInFlight.step \notin {"waiting", "createAccount"}
        /\ call[c].created => NoneInFlight.created /\ NoneInFlight.at = call[c].at
        /\ UNCHANGED <<made, doubled>> /\ CacheLoses /\ stranded \subseteq stranded'
        /\ \A r \in Rows : row'[r].at = row[r].at
    BY <1>8, <2>1, <2>2, SameCache
  <2>4. call' \in [Calls -> CallType] /\ CallsKnown' /\ RowsKnown' /\ CacheKnown' /\ HandKnown'
    BY <1>8, <2>2, <2>3, NoneType, Moves
  <2>5. TerminalType'
    <3>1. TerminalType
      BY OfCall
    <3>2. CASE UNCHANGED terminal
      BY <1>8, <3>1, <3>2 DEF TerminalType
    <3>3. CASE Order(call[c].at, "DEPLOYING")
      <4>1. "DEPLOYING" \in DeploymentState
        BY DEF DeploymentState
      <4> QED
        BY <1>8, <3>1, <3>3, <4>1, OfCall, OrderType
    <3> QED
      BY <1>8, <3>2, <3>3
  <2>6. RestType'
    <3>1. RestType
      BY OfCall
    <3>2. loose' \subseteq Rows
      BY <1>8, <2>1, <3>1 DEF RestType
    <3> QED
      BY <1>1, <1>8, <3>1, <3>2 DEF RestType
  <2> QED
    BY <2>4, <2>5, <2>6 DEF SessionsInvariant, SessionsType, TerminalType, RestType
<1> QED
  BY <1>4, <1>5, <1>6, <1>7, <1>8 DEF Throw

LEMMA SettleKeeps ==
  ASSUME SessionsInvariant, NEW t \in Terminals, Settle(t)
  PROVE  SessionsInvariant'
<1>1. UNCHANGED <<row, made, cache, call, requests, throws, doubled, stranded, loose>>
  BY DEF Settle, sbounds, shistory
<1>2. SessionsType /\ TerminalType /\ RestType /\ CallsKnown /\ CacheKnown /\ HandKnown /\ RowsKnown
      /\ call \in [Calls -> CallType]
  BY TypeParts DEF SessionsInvariant
<1>3. TerminalType'
  <2>1. PICK s \in DeploymentState : terminal' = [terminal EXCEPT ![t] = s]
    BY DEF Settle, DeploymentState
  <2>2. terminal[t] # "none" /\ s # "none"
    BY DEF Settle, DeploymentState
  <2> QED
    BY <1>1, <1>2, <2>1, <2>2 DEF TerminalType
<1>4. RestType' /\ call' \in [Calls -> CallType]
  BY <1>1, <1>2 DEF RestType
<1>5. CallsKnown' /\ RowsKnown' /\ CacheKnown' /\ HandKnown'
  BY <1>1, <1>2 DEF CallsKnown, RowsKnown, CacheKnown, HandKnown, InHand, Creating, Opens, Entry
<1> QED
  BY <1>3, <1>4, <1>5 DEF SessionsInvariant, SessionsType, TerminalType, RestType

LEMMA SessionsStep == SessionsInvariant /\ [SessionsNext]_svars => SessionsInvariant'
<1> SUFFICES ASSUME SessionsInvariant, [SessionsNext]_svars PROVE SessionsInvariant'
  OBVIOUS
<1>1. ASSUME NEW c \in Calls, NEW r \in Rows,
             Connect(c, r) \/ Disconnect(c, r) \/ SetEnabled(c, r) \/ View(c, r) \/ EnsureProviderSession(c, r)
      PROVE  SessionsInvariant'
  BY <1>1, AskKeeps
<1>2. ASSUME NEW c \in Calls, SessionStep(c)
      PROVE  SessionsInvariant'
  BY <1>2, ConnectionKeeps, GetAccountKeeps, DeployKeeps, WaitConnectedKeeps, TimesOutKeeps, ReadKeeps, LookupKeeps,
     CreateAccountKeeps, InformationKeeps, CloseKeeps, UndeployKeeps, StartKeeps, AskedKeeps, StoreKeeps
     DEF SessionStep
<1>3. ASSUME NEW c \in Calls, LookupThrows(c) \/ Throw(c)
      PROVE  SessionsInvariant'
  BY <1>3, LookupKeeps, ThrowKeeps
<1>4. ASSUME NEW t \in Terminals, Settle(t)
      PROVE  SessionsInvariant'
  BY <1>4, SettleKeeps
<1>5. CASE UNCHANGED svars
  <2>1. UNCHANGED <<row, terminal, made, cache, call, requests, throws, doubled, stranded, loose>>
    BY <1>5 DEF svars
  <2> QED
    BY <2>1 DEF SessionsInvariant, SessionsType, CallsKnown, RowsKnown, CacheKnown, HandKnown, InHand, Creating,
       Opens, Entry
<1> QED
  BY <1>1, <1>2, <1>3, <1>4, <1>5 DEF SessionsNext

-----------------------------------------------------------------------------
(* An account that runs, runs for a reason: some row is switched on or says  *)
(* so, a call is under way that will have it so, or a start is excused.      *)

Said == {"DEPLOYED", "DEPLOYING", "UNKNOWN"}

\* What a call read of its row when it began is true for good.
CallReads(c) ==
  LET k == call[c]
  IN k.step # "none" =>
       /\ k.kind = "sweep" => row[k.row].at # 0 /\ k.was \in {"CONNECTED", "ERROR"}
       /\ k.kind \notin Connecting /\ k.at # 0 => row[k.row].at # 0
       /\ k.kind \in {"disconnect", "view"} \/ k.step \in {"close", "undeploy", "start", "ask"} => k.at # 0
       /\ k.step = "start" => k.kind = "enable"
       /\ k.kind = "view" => k.step \in {"ask", "store"}
ReadsKnown ==
  /\ \A c \in Calls : CallReads(c)
  /\ \A r \in Rows : row[r].status = "CONNECTED" => row[r].at # 0

\* Calls that matter to what a row will say: one about to store that its account is stopped, one
\* about to switch it on, one about to name its account, one about to show it disconnected.
SilentOn(c, r) ==
  /\ row[r].at # 0 /\ call[c].row = r
  /\ call[c].step = "store" /\ call[c].kind \in {"disable", "view"} /\ call[c].saw \notin Said
  /\ call[c].kind = "disable" => call[c].at = row[r].at
Enabling(c, r) ==
  call[c].row = r /\ call[c].kind = "enable" /\ call[c].step \in {"ask", "store"} /\ call[c].at # 0
FirstConnect(c, r) == call[c].row = r /\ call[c].kind = "connect" /\ call[c].step # "none" /\ call[c].at # 0
Disconnecting(c, r) == call[c].row = r /\ call[c].kind = "disconnect" /\ call[c].step # "none"

Heard(r) == \A c \in Calls : ~SilentOn(c, r)
Shows(r) ==
  \/ row[r].enabled \/ row[r].shown \in Said
  \/ \E c \in Calls : Enabling(c, r)
  \/ row[r].status # "DISCONNECTED" /\ \A c \in Calls : ~Disconnecting(c, r)
Reason(r) ==
  \/ r \in loose
  \/ row[r].at # 0 /\ Heard(r) /\ Shows(r)
  \/ row[r].at = 0 /\ \E c \in Calls : FirstConnect(c, r)

Running(t) == terminal[t] \notin {"none", "UNDEPLOYING", "UNDEPLOYED"}
RunsForAReason == ~doubled /\ (\E t \in Terminals : Running(t)) => \E r \in Rows : Reason(r)

ReasonInvariant == SessionsInvariant /\ ReadsKnown /\ RunsForAReason

\* Unless a login was looked up in vain it has one account.
LEMMA OneTerminal ==
  ASSUME SessionsInvariant, ~doubled
  PROVE  /\ made \in {0, 1}
         /\ \A t \in Terminals : terminal[t] # "none" => t = 1
         /\ \A c \in Calls : call[c].at \in {0, 1}
         /\ \A r \in Rows : row[r].at \in {0, 1} /\ row[r].at <= made
<1>1. made \in {0, 1} /\ TerminalType
  BY TypeParts, SessionsAssumption DEF SessionsInvariant, HandKnown, TerminalType
<1>2. \A t \in Terminals : terminal[t] # "none" => t = 1
  BY <1>1 DEF TerminalType, Terminals
<1>3. ASSUME NEW c \in Calls PROVE call[c].at \in {0, 1}
  BY <1>1, OfCall, SessionsAssumption
<1>4. ASSUME NEW r \in Rows PROVE row[r].at \in {0, 1} /\ row[r].at <= made
  BY <1>1, SessionsAssumption DEF SessionsInvariant, SessionsType, RowType, RowsKnown
<1> QED
  BY <1>1, <1>2, <1>3, <1>4

LEMMA ReasonSuffices == ReasonInvariant => DisabledIsStoppedOrSaid
<1> SUFFICES ASSUME ReasonInvariant, NEW t \in Terminals, ~doubled,
                    NEW r0 \in Rows, row[r0].at = t,
                    \A r \in Rows : Off(r) \/ NeverConnected(r),
                    terminal[t] \notin {"UNDEPLOYING", "UNDEPLOYED"}
             PROVE  \E r \in Rows : row[r].at = t /\ row[r].shown \in Said
  BY DEF DisabledIsStoppedOrSaid, Said
<1>1. t = 1 /\ terminal[t] # "none"
  <2>1. t \in Nat /\ t >= 1 /\ t <= made /\ made \in {0, 1}
    BY OneTerminal, SessionsAssumption DEF ReasonInvariant, Terminals
  <2>2. TerminalType
    BY TypeParts DEF ReasonInvariant, SessionsInvariant
  <2> QED
    BY <2>1, <2>2 DEF TerminalType
<1>2. PICK r \in Rows : Reason(r)
  BY <1>1 DEF ReasonInvariant, RunsForAReason, Running
<1>3. r \notin loose /\ row[r].status = "DISCONNECTED" /\ (\A c \in Calls : call[c].row # r)
      /\ (row[r].at # 0 => ~row[r].enabled)
  BY DEF Off, NeverConnected, Quiet
<1>4. row[r].at # 0 /\ row[r].shown \in Said
  BY <1>2, <1>3 DEF Reason, Shows, Enabling, FirstConnect
<1>5. row[r].at = t
  BY <1>1, <1>4, OneTerminal DEF ReasonInvariant
<1> QED
  BY <1>4, <1>5

LEMMA ReasonStart == SessionsInit => ReasonInvariant
<1> SUFFICES ASSUME SessionsInit PROVE ReasonInvariant
  OBVIOUS
<1>1. PICK connected \in {{}, {CHOOSE r \in Rows : TRUE}} :
        /\ row = [r \in Rows |->
             IF r \in connected THEN [enabled |-> TRUE, status |-> "CONNECTED", at |-> 1, shown |-> "none"]
             ELSE [enabled |-> TRUE, status |-> "DISCONNECTED", at |-> 0, shown |-> "none"]]
        /\ made = IF connected = {} THEN 0 ELSE 1
        /\ terminal = [t \in Terminals |-> IF t <= made THEN "DEPLOYED" ELSE "none"]
  BY DEF SessionsInit
<1>2. call = [c \in Calls |-> NoneInFlight] /\ connected \subseteq Rows
  BY <1>1, SessionsAssumption DEF SessionsInit
<1>3. ReadsKnown
  BY <1>1, <1>2 DEF ReadsKnown, CallReads, NoneInFlight
<1>4. RunsForAReason
  <2>1. CASE connected = {}
    <3>1. \A t \in Terminals : ~(t <= 0)
      BY SessionsAssumption DEF Terminals
    <3> QED
      BY <1>1, <2>1, <3>1 DEF RunsForAReason, Running
  <2>2. CASE connected # {}
    <3>1. PICK r \in Rows : r \in connected
      BY <1>2, <2>2
    <3>2. row[r].at # 0 /\ row[r].enabled /\ \A c \in Calls : call[c].step = "none"
      BY <1>1, <1>2, <3>1 DEF NoneInFlight
    <3> QED
      BY <3>2 DEF RunsForAReason, Reason, Heard, SilentOn, Shows
  <2> QED
    BY <2>1, <2>2
<1> QED
  BY <1>3, <1>4, SessionsStart DEF ReasonInvariant

-----------------------------------------------------------------------------
(* Steps that leave the reasons of a row as they are.                        *)

LEMMA ReasonKept ==
  ASSUME NEW r \in Rows, Reason(r), loose \subseteq loose',
         row'[r].at = row[r].at, row'[r].enabled = row[r].enabled, row'[r].shown = row[r].shown,
         row[r].status # "DISCONNECTED" => row'[r].status # "DISCONNECTED",
         \A b \in Calls : SilentOn(b, r)' => SilentOn(b, r),
         \A b \in Calls : Enabling(b, r) => Enabling(b, r)',
         \A b \in Calls : FirstConnect(b, r) => FirstConnect(b, r)',
         \A b \in Calls : Disconnecting(b, r)' => Disconnecting(b, r) \/ row[r].enabled
  PROVE  Reason(r)'
<1>1. CASE r \in loose
  BY <1>1 DEF Reason
<1>2. CASE row[r].at # 0 /\ Heard(r) /\ Shows(r)
  <2>1. Heard(r)'
    BY <1>2 DEF Heard
  <2>2. Shows(r)'
    BY <1>2 DEF Shows
  <2> QED
    BY <1>2, <2>1, <2>2 DEF Reason
<1>3. CASE row[r].at = 0 /\ \E c \in Calls : FirstConnect(c, r)
  BY <1>3 DEF Reason
<1> QED
  BY <1>1, <1>2, <1>3 DEF Reason

\* A call in flight goes on: it stays one of its row, and with the account it knows.
Continues(k, d) ==
  /\ k.step # "none" /\ d.step # "none"
  /\ d.kind = k.kind /\ d.row = k.row /\ d.was = k.was
  /\ k.at # 0 => d.at # 0
  /\ k.kind \notin Connecting =>
       /\ d.at = k.at
       /\ k.step \in {"ask", "store"} => d.step \in {"ask", "store"}
       /\ d.step \in {"close", "undeploy", "ask"} => k.step \in {"close", "undeploy", "start", "ask"}
  /\ d.step # "start"
  /\ k.kind \in Connecting => d.step \notin {"close", "undeploy", "ask"}
Goings == \A b \in Calls : call'[b] = call[b] \/ Continues(call[b], call'[b])

LEMMA ReadsGo ==
  ASSUME SessionsInvariant, ReadsKnown, UNCHANGED row, Goings
  PROVE  ReadsKnown'
<1>1. ASSUME NEW b \in Calls PROVE CallReads(b)'
  <2>1. CallReads(b) /\ (call'[b] = call[b] \/ Continues(call[b], call'[b]))
    BY DEF ReadsKnown, Goings
  <2>2. CASE call'[b] = call[b]
    BY <2>1, <2>2 DEF CallReads
  <2>3. CASE Continues(call[b], call'[b])
    BY <2>1, <2>3 DEF CallReads, Continues, Connecting
  <2> QED
    BY <2>1, <2>2, <2>3
<1> QED
  BY <1>1 DEF ReadsKnown

LEMMA ReasonGoes ==
  ASSUME NEW r \in Rows, Reason(r), UNCHANGED row, loose \subseteq loose', Goings,
         \A b \in Calls : SilentOn(b, r)' => SilentOn(b, r)
  PROVE  Reason(r)'
<1>1. ASSUME NEW b \in Calls
      PROVE  /\ Enabling(b, r) => Enabling(b, r)'
             /\ FirstConnect(b, r) => FirstConnect(b, r)'
             /\ Disconnecting(b, r)' => Disconnecting(b, r)
  <2>1. call'[b] = call[b] \/ Continues(call[b], call'[b])
    BY DEF Goings
  <2>2. CASE call'[b] = call[b]
    BY <2>2 DEF Enabling, FirstConnect, Disconnecting
  <2>3. CASE Continues(call[b], call'[b])
    BY <2>3 DEF Continues, Enabling, FirstConnect, Disconnecting, Connecting
  <2> QED
    BY <2>1, <2>2, <2>3
<1> QED
  BY <1>1, ReasonKept

\* Nothing is started, and no call comes to hide that it runs.
LEMMA StaysReasoned ==
  ASSUME ReasonInvariant, UNCHANGED row, loose \subseteq loose', doubled => doubled', Goings,
         \A t \in Terminals : Running(t)' => Running(t),
         ~doubled /\ (\E t \in Terminals : Running(t)) =>
           \A r \in Rows, b \in Calls : SilentOn(b, r)' => SilentOn(b, r)
  PROVE  ReadsKnown' /\ RunsForAReason'
<1>1. ReadsKnown'
  BY ReadsGo DEF ReasonInvariant
<1>2. ASSUME ~doubled', NEW t \in Terminals, Running(t)'
      PROVE  \E r \in Rows : Reason(r)'
  <2>1. ~doubled /\ Running(t)
    BY <1>2
  <2>2. PICK r \in Rows : Reason(r)
    BY <2>1 DEF ReasonInvariant, RunsForAReason
  <2>3. \A b \in Calls : SilentOn(b, r)' => SilentOn(b, r)
    BY <2>1
  <2> QED
    BY <2>2, <2>3, ReasonGoes
<1> QED
  BY <1>1, <1>2 DEF RunsForAReason

\* Calls that connect only go on among themselves.
GoesConnecting(k, d) ==
  /\ k.kind \in Connecting /\ d.kind = k.kind /\ d.row = k.row /\ d.was = k.was
  /\ k.step # "none" /\ d.step \notin {"none", "start", "close", "undeploy", "ask"}
  /\ k.at # 0 => d.at # 0

LEMMA ConnectingReasoned ==
  ASSUME ReasonInvariant, UNCHANGED <<row, terminal, loose>>, doubled => doubled',
         \A b \in Calls : call'[b] = call[b] \/ GoesConnecting(call[b], call'[b])
  PROVE  ReadsKnown' /\ RunsForAReason'
<1>1. Goings
  BY DEF Goings, GoesConnecting, Continues
<1>2. ASSUME NEW r \in Rows, NEW b \in Calls, SilentOn(b, r)' PROVE SilentOn(b, r)
  <2>1. call'[b] = call[b]
    BY <1>2 DEF SilentOn, GoesConnecting, Connecting
  <2> QED
    BY <1>2, <2>1 DEF SilentOn
<1>3. \A t \in Terminals : Running(t)' => Running(t)
  BY DEF Running
<1> QED
  BY <1>1, <1>2, <1>3, StaysReasoned

-----------------------------------------------------------------------------
(* Connecting calls.                                                         *)

LEMMA OneConnects ==
  ASSUME ReasonInvariant, NEW c \in Calls, NEW d, Turns(c, d), GoesConnecting(call[c], d),
         UNCHANGED <<row, terminal, loose>>, doubled => doubled'
  PROVE  ReadsKnown' /\ RunsForAReason'
<1>1. call' = [call EXCEPT ![c] = d] /\ call \in [Calls -> CallType]
  BY OfCall DEF Turns, ReasonInvariant
<1>2. \A b \in Calls : call'[b] = call[b] \/ GoesConnecting(call[b], call'[b])
  BY <1>1
<1> QED
  BY <1>2, ConnectingReasoned

LEMMA BecomesGoes ==
  ASSUME NEW k, NEW d, NEW step, NEW at, NEW saw, NEW cached, NEW on, NEW created,
         Becomes(d, k, step, at, saw, cached, on, created),
         k.kind \in Connecting, k.step # "none",
         step \notin {"none", "start", "close", "undeploy", "ask"}, k.at # 0 => at # 0
  PROVE  GoesConnecting(k, d)
BY DEF Becomes, GoesConnecting

LEMMA RefusedGoes ==
  ASSUME NEW k \in CallType, k.kind \in Connecting, k.step # "none"
  PROVE  GoesConnecting(k, Refused(k))
<1>1. k.at \in 0..MaxTerminals /\ NoCall \in Calls \cup {NoCall} /\ FALSE \in BOOLEAN
  BY DEF CallType
<1>2. "lookup" \in Steps /\ "store" \in Steps /\ "none" \in Saws /\ "UNKNOWN" \in Saws
  BY DEF Steps, Saws
<1>3. CASE k.kind = "sweep"
  <2>1. PICK d : d = [k EXCEPT !.step = "lookup", !.on = NoCall, !.cached = FALSE, !.saw = "none"]
    OBVIOUS
  <2>2. Becomes(d, k, "lookup", k.at, "none", FALSE, NoCall, k.created)
    BY <1>1, <1>2, <2>1, Updates
  <2>3. GoesConnecting(k, d)
    BY <2>2 DEF Becomes, GoesConnecting
  <2> QED
    BY <1>3, <2>1, <2>3 DEF Refused
<1>4. CASE k.kind # "sweep"
  <2>1. PICK d : d = [k EXCEPT !.step = "store", !.on = NoCall, !.cached = FALSE, !.saw = "UNKNOWN"]
    OBVIOUS
  <2>2. Becomes(d, k, "store", k.at, "UNKNOWN", FALSE, NoCall, k.created)
    BY <1>1, <1>2, <2>1, Updates
  <2>3. GoesConnecting(k, d)
    BY <2>2 DEF Becomes, GoesConnecting
  <2> QED
    BY <1>4, <2>1, <2>3 DEF Refused
<1> QED
  BY <1>3, <1>4

LEMMA FinishReasoned ==
  ASSUME ReasonInvariant, NEW c \in Calls, NEW saw \in Saws, Finish(c, saw),
         call[c].kind \in Connecting, call[c].step # "none",
         UNCHANGED <<row, terminal, loose, doubled>>
  PROVE  ReadsKnown' /\ RunsForAReason'
<1>1. SessionsInvariant /\ "store" \in Steps
  BY DEF ReasonInvariant, Steps
<1>2. PICK d \in CallType :
        Turns(c, d) /\ Becomes(d, call[c], "store", call[c].at, saw, call[c].cached, call[c].on, call[c].created)
  BY <1>1, Answers DEF Finish
<1>3. GoesConnecting(call[c], d)
  BY <1>2, BecomesGoes
<1> QED
  BY <1>2, <1>3, OneConnects

LEMMA GotoReasoned ==
  ASSUME ReasonInvariant, NEW c \in Calls, NEW step \in Steps \ {"none", "start", "close", "undeploy", "ask"},
         Goto(c, step), call[c].kind \in Connecting, call[c].step # "none",
         UNCHANGED <<row, terminal, loose>>, doubled => doubled'
  PROVE  ReadsKnown' /\ RunsForAReason'
<1>1. SessionsInvariant
  BY DEF ReasonInvariant
<1>2. PICK d \in CallType :
        /\ Turns(c, d)
        /\ Becomes(d, call[c], step, call[c].at, call[c].saw, call[c].cached, call[c].on, call[c].created)
  BY <1>1, Goes
<1>3. GoesConnecting(call[c], d)
  BY <1>2, BecomesGoes
<1> QED
  BY <1>2, <1>3, OneConnects

LEMMA RefusedReasoned ==
  ASSUME ReasonInvariant, NEW c \in Calls, call[c].kind \in Connecting, call[c].step # "none",
         call' = [call EXCEPT ![c] = Refused(@)], UNCHANGED <<row, terminal, loose, doubled>>
  PROVE  ReadsKnown' /\ RunsForAReason'
<1>1. call \in [Calls -> CallType] /\ call[c] \in CallType
  BY OfCall DEF ReasonInvariant
<1>2. PICK d : d = Refused(call[c])
  OBVIOUS
<1>3. GoesConnecting(call[c], d) /\ call' = [call EXCEPT ![c] = d]
  BY <1>1, <1>2, RefusedGoes
<1>4. \A b \in Calls : call'[b] = call[b] \/ GoesConnecting(call[b], call'[b])
  BY <1>1, <1>3
<1> QED
  BY <1>4, ConnectingReasoned

LEMMA FailsReasoned ==
  ASSUME ReasonInvariant, NEW c \in Calls, call[c].step \in Opening,
         IF call[c].cached THEN OpeningFails(c) ELSE ConnectFails(c)
  PROVE  ReadsKnown' /\ RunsForAReason'
<1>1. SessionsInvariant /\ call \in [Calls -> CallType] /\ CallKnown(call[c], made)
  BY OfCall DEF ReasonInvariant
<1>2. CASE call[c].cached
  <2>1. /\ call' = [d \in Calls |-> IF d \in Sharing(c) THEN Refused(call[d]) ELSE call[d]]
        /\ UNCHANGED <<row, terminal, loose, doubled>>
    BY <1>2 DEF OpeningFails, shistory
  <2>2. ASSUME NEW b \in Sharing(c) PROVE GoesConnecting(call[b], Refused(call[b]))
    <3>1. call[b] \in CallType /\ call[b].kind \in Connecting /\ call[b].step # "none"
      BY <1>1, <1>2, <2>2, OfSharing DEF Opens, Linked, Opening
    <3> QED
      BY <3>1, RefusedGoes
  <2>3. \A b \in Calls : call'[b] = call[b] \/ GoesConnecting(call[b], call'[b])
    BY <2>1, <2>2
  <2> QED
    BY <2>1, <2>3, ConnectingReasoned
<1>3. CASE ~call[c].cached
  <2>1. Finish(c, "UNKNOWN") /\ UNCHANGED <<row, terminal, loose, doubled>>
    BY <1>3 DEF ConnectFails, shistory
  <2>2. "UNKNOWN" \in Saws /\ call[c].kind \in Connecting /\ call[c].step # "none"
    BY <1>1 DEF Saws, CallKnown, Linked, Opening
  <2> QED
    BY <2>1, <2>2, FinishReasoned
<1> QED
  BY <1>2, <1>3

LEMMA OpeningReasoned ==
  ASSUME ReasonInvariant, NEW c \in Calls, Connection(c) \/ GetAccount(c) \/ WaitConnected(c)
  PROVE  ReadsKnown' /\ RunsForAReason'
<1>1. SessionsInvariant /\ call \in [Calls -> CallType] /\ CallKnown(call[c], made)
  BY OfCall DEF ReasonInvariant
<1>2. PICK k \in CallType : k = call[c]
  BY <1>1
<1>3. /\ UNCHANGED <<row, terminal, loose, doubled>>
      /\ k.kind \in Connecting /\ k.at # 0 /\ k.at > 0 /\ k.step # "none"
  <2>1. k.step \in {"connection", "getAccount", "waitConnected"}
    BY <1>2 DEF Connection, GetAccount, WaitConnected
  <2>2. UNCHANGED <<row, terminal, loose, doubled>>
    BY DEF Connection, GetAccount, WaitConnected, shistory
  <2>3. k.kind \in Connecting /\ k.at > 0 /\ k.at \in Nat
    BY <1>1, <1>2, <2>1, SessionsAssumption DEF CallKnown, Linked, Opening, CallType
  <2> QED
    BY <2>1, <2>2, <2>3
<1>4. k.at \in 0..MaxTerminals /\ k.saw \in Saws /\ k.on \in Calls \cup {NoCall} /\ k.cached \in BOOLEAN
  BY <1>1, <1>2, OfCall
<1>5. CASE Connection(c)
  <2>1. PICK v : v = cache[Entry(c)]
    OBVIOUS
  <2>2. CASE v = "none"
    <3>1. call' = [call EXCEPT ![c].step = "getAccount", ![c].cached = TRUE] /\ "getAccount" \in Steps
      BY <1>5, <2>1, <2>2 DEF Connection, Steps, Opening
    <3>2. PICK d : d = [k EXCEPT !.step = "getAccount", !.cached = TRUE]
      OBVIOUS
    <3>3. Becomes(d, k, "getAccount", k.at, k.saw, TRUE, k.on, k.created)
      BY <1>4, <3>1, <3>2, Updates
    <3>4. d \in CallType /\ Turns(c, d)
      BY <1>1, <1>2, <3>1, <3>2, <3>3 DEF Turns, Becomes
    <3>5. GoesConnecting(call[c], d)
      BY <1>2, <1>3, <3>3 DEF Becomes, GoesConnecting
    <3> QED
      BY <1>3, <3>4, <3>5, OneConnects
  <2>3. CASE v # "none"
    <3>1. PICK to \in {"read", "waiting"} : to = IF v = "open" THEN "read" ELSE "waiting"
      OBVIOUS
    <3>2. PICK o : o = IF v = "open" THEN NoCall ELSE v
      OBVIOUS
    <3>3. call' = [call EXCEPT ![c].step = to, ![c].on = o]
      BY <1>5, <2>1, <2>3, <3>1, <3>2 DEF Connection
    <3>4. o \in Calls \cup {NoCall} /\ to \in Steps
      <4>1. Entry(c) \in DOMAIN cache /\ cache \in [{"web", "worker"} \X Terminals -> {"none", "open"} \cup Calls]
        BY <1>1, <1>2, <1>3, EntryIn
      <4>2. v \in {"none", "open"} \cup Calls
        BY <2>1, <4>1
      <4> QED
        BY <2>3, <3>1, <3>2, <4>2 DEF Steps
    <3>5. PICK d : d = [k EXCEPT !.step = to, !.on = o]
      OBVIOUS
    <3>6. Becomes(d, k, to, k.at, k.saw, k.cached, o, k.created)
      BY <1>4, <3>4, <3>5, Updates
    <3>7. d \in CallType /\ Turns(c, d)
      BY <1>1, <1>2, <3>3, <3>5, <3>6 DEF Turns, Becomes
    <3>8. GoesConnecting(call[c], d)
      BY <1>2, <1>3, <3>1, <3>6 DEF Becomes, GoesConnecting
    <3> QED
      BY <1>3, <3>7, <3>8, OneConnects
  <2> QED
    BY <2>2, <2>3
<1>6. CASE GetAccount(c)
  <2>1. PICK saw \in Saws : saw = terminal[call[c].at]
    BY <1>1, <1>2, <1>3, OfCall
  <2>2. "deploy" \in Steps /\ call' = [call EXCEPT ![c].step = "deploy", ![c].saw = saw]
    BY <1>6, <2>1 DEF Steps, Opening, GetAccount
  <2>3. PICK d \in CallType :
          Turns(c, d) /\ Becomes(d, call[c], "deploy", call[c].at, saw, call[c].cached, call[c].on, call[c].created)
    BY <1>1, <2>2, Answers
  <2>4. GoesConnecting(call[c], d)
    BY <1>2, <1>3, <2>3, BecomesGoes
  <2> QED
    BY <1>3, <2>3, <2>4, OneConnects
<1>7. CASE WaitConnected(c) /\ call[c].cached
  <2>1. call' = [d \in Calls |->
          IF d \in Sharing(c) THEN [call[d] EXCEPT !.step = "read", !.on = NoCall, !.cached = FALSE] ELSE call[d]]
    BY <1>7 DEF WaitConnected
  <2>2. ASSUME NEW b \in Sharing(c) PROVE b \in Calls /\ GoesConnecting(call[b], call'[b])
    <3>1. b \in Calls /\ call[b] \in CallType /\ call[b].kind \in Connecting /\ call[b].step # "none"
      BY <1>1, <1>7, <2>2, OfSharing DEF Opens, Linked, Opening, WaitConnected
    <3>2. PICK h \in CallType : h = call[b]
      BY <3>1
    <3>3. PICK d : d = [h EXCEPT !.step = "read", !.on = NoCall, !.cached = FALSE]
      OBVIOUS
    <3>4. h.at \in 0..MaxTerminals /\ h.saw \in Saws /\ "read" \in Steps
      BY DEF CallType, Saws, Steps
    <3>5. Becomes(d, h, "read", h.at, h.saw, FALSE, NoCall, h.created)
      BY <3>3, <3>4, Updates
    <3>6. GoesConnecting(h, d)
      BY <3>1, <3>2, <3>5 DEF Becomes, GoesConnecting
    <3> QED
      BY <2>1, <3>1, <3>2, <3>3, <3>6
  <2>3. \A b \in Calls : call'[b] = call[b] \/ GoesConnecting(call[b], call'[b])
    BY <2>1, <2>2
  <2> QED
    BY <1>3, <2>3, ConnectingReasoned
<1>8. CASE WaitConnected(c) /\ ~call[c].cached
  <2>1. Goto(c, "information") /\ "information" \in Steps \ {"none", "start", "close", "undeploy", "ask"}
    BY <1>8 DEF WaitConnected, Steps
  <2> QED
    BY <1>2, <1>3, <2>1, GotoReasoned
<1> QED
  BY <1>5, <1>6, <1>7, <1>8

LEMMA ReadingReasoned ==
  ASSUME ReasonInvariant, NEW c \in Calls, Read(c) \/ Information(c) \/ TimesOut(c)
  PROVE  ReadsKnown' /\ RunsForAReason'
<1>1. call[c].kind \in Connecting /\ call[c].step # "none" /\ "DEPLOYED" \in Saws /\ "UNKNOWN" \in Saws
  BY OfCall DEF ReasonInvariant, Read, Information, TimesOut, CallKnown, Linked, Opening, Saws, DeploymentState
<1>2. CASE Read(c)
  BY <1>1, <1>2, FinishReasoned, RefusedReasoned DEF Read, shistory
<1>3. CASE Information(c)
  <2>1. "connection" \in Steps \ {"none", "start", "close", "undeploy", "ask"}
    BY DEF Steps
  <2> QED
    BY <1>1, <1>3, <2>1, GotoReasoned, FinishReasoned DEF Information, shistory
<1>4. CASE TimesOut(c)
  BY <1>4, FailsReasoned DEF TimesOut, Opening
<1> QED
  BY <1>2, <1>3, <1>4

LEMMA LookupReasoned ==
  ASSUME ReasonInvariant, NEW c \in Calls, Lookup(c) \/ LookupThrows(c)
  PROVE  ReadsKnown' /\ RunsForAReason'
<1>1. /\ SessionsInvariant /\ call[c].kind \in Connecting /\ call[c].step # "none"
      /\ made \in 0..MaxTerminals /\ TerminalType /\ UNCHANGED <<row, terminal, loose>> /\ (doubled => doubled')
  BY OfCall DEF ReasonInvariant, Lookup, LookupThrows, CallKnown, TerminalType
<1>2. CASE Goto(c, "createAccount")
  <2>1. "createAccount" \in Steps \ {"none", "start", "close", "undeploy", "ask"}
    BY DEF Steps
  <2> QED
    BY <1>1, <1>2, <2>1, GotoReasoned
<1>3. CASE Lookup(c) /\ made # 0
  <2>1. PICK t \in 1..made : call' = [call EXCEPT ![c].step = "deploy", ![c].at = t, ![c].saw = terminal[t]]
    BY <1>3 DEF Lookup
  <2>2. PICK saw \in Saws : saw = terminal[t]
    BY <1>1, <2>1, SessionsAssumption DEF TerminalType, Terminals, Saws
  <2>3. t \in 0..MaxTerminals /\ t # 0
    BY <1>1, <2>1, SessionsAssumption
  <2>4. call' = [call EXCEPT ![c].step = "deploy", ![c].at = t, ![c].saw = saw]
    BY <2>1, <2>2
  <2>5. PICK d \in CallType :
          Turns(c, d) /\ Becomes(d, call[c], "deploy", t, saw, call[c].cached, call[c].on, call[c].created)
    BY <1>1, <2>3, <2>4, Finds
  <2>6. GoesConnecting(call[c], d)
    BY <1>1, <2>3, <2>5, BecomesGoes
  <2> QED
    BY <1>1, <2>5, <2>6, OneConnects
<1> QED
  BY <1>2, <1>3 DEF Lookup, LookupThrows

-----------------------------------------------------------------------------
(* Accounts made, run and stopped.                                           *)

\* One call goes on, and the others stay.
LEMMA OneGoes ==
  ASSUME SessionsInvariant, NEW c \in Calls, NEW d, Turns(c, d), Continues(call[c], d)
  PROVE  Goings /\ call'[c] = d /\ \A b \in Calls \ {c} : call'[b] = call[b]
<1>1. call' = [call EXCEPT ![c] = d] /\ call \in [Calls -> CallType]
  BY OfCall DEF Turns
<1> QED
  BY <1>1 DEF Goings

LEMMA CreateReasoned ==
  ASSUME ReasonInvariant, NEW c \in Calls, CreateAccount(c)
  PROVE  ReadsKnown' /\ RunsForAReason'
<1>1. /\ SessionsInvariant /\ call[c].step = "createAccount" /\ call[c].kind \in Connecting /\ call[c].row \in Rows
      /\ made \in 0..MaxTerminals /\ made < MaxTerminals /\ MaxTerminals \in Nat
      /\ UNCHANGED <<row, doubled>>
  BY OfCall, SessionsAssumption
     DEF ReasonInvariant, CreateAccount, CallKnown, TerminalType, shistory
<1>2. PICK n \in 1..MaxTerminals : n = made + 1
  BY <1>1
<1>3. PICK d \in CallType :
        Turns(c, d) /\ Becomes(d, call[c], "deploy", n, "CREATED", call[c].cached, call[c].on, TRUE)
  <2>1. call' = [call EXCEPT ![c].step = "deploy", ![c].at = n, ![c].saw = "CREATED", ![c].created = TRUE]
    BY <1>2 DEF CreateAccount
  <2>2. n \in 0..MaxTerminals
    BY <1>2
  <2> QED
    BY <1>1, <2>1, <2>2, Creates
<1>4. Continues(call[c], d)
  BY <1>1, <1>2, <1>3 DEF Becomes, Continues, Connecting
<1>5. Goings /\ call'[c] = d
  BY <1>1, <1>3, <1>4, OneGoes
<1>6. ReadsKnown'
  BY <1>1, <1>5, ReadsGo DEF ReasonInvariant
<1>7. ASSUME ~doubled PROVE \E r \in Rows : Reason(r)'
  <2>1. PICK r \in Rows : r = call[c].row
    BY <1>1
  <2>2. made = 0
    BY <1>1, <1>7 DEF SessionsInvariant, HandKnown, Creating
  <2>3. row[r].at = 0
    BY <1>1, <1>7, <2>2, OneTerminal
  <2>4. call[c].kind = "connect"
    BY <1>1, <2>1, <2>3 DEF ReasonInvariant, ReadsKnown, CallReads, Connecting
  <2>5. d.row = r /\ d.kind = "connect" /\ d.step = "deploy" /\ d.at # 0
    BY <1>2, <1>3, <2>1, <2>4 DEF Becomes
  <2>6. FirstConnect(c, r)' /\ row'[r].at = 0
    BY <1>1, <1>5, <2>3, <2>5 DEF FirstConnect
  <2> QED
    BY <2>6 DEF Reason
<1> QED
  BY <1>1, <1>6, <1>7 DEF RunsForAReason

LEMMA DeployReasoned ==
  ASSUME ReasonInvariant, NEW c \in Calls, Deploy(c)
  PROVE  ReadsKnown' /\ RunsForAReason'
<1>1. /\ SessionsInvariant /\ call[c].step = "deploy" /\ call[c].kind \in Connecting /\ call[c].row \in Rows
      /\ call[c].at # 0 /\ UNCHANGED <<row, doubled>>
  <2>1. SessionsInvariant /\ call[c].step = "deploy" /\ UNCHANGED <<row, doubled>>
    BY DEF ReasonInvariant, Deploy
  <2>2. CallKnown(call[c], made) /\ call[c].at \in 0..MaxTerminals
    BY <2>1, OfCall
  <2> QED
    BY <2>1, <2>2 DEF CallKnown, Linked, Opening
<1>2. "waitConnected" \in Steps \ {"none", "start", "close", "undeploy", "ask"} /\ Goto(c, "waitConnected")
  BY DEF Steps, Opening, Deploy
<1>3. CASE call[c].saw = "DEPLOYED"
  BY <1>1, <1>2, <1>3, GotoReasoned DEF Deploy
<1>4. CASE call[c].saw # "DEPLOYED"
  <2>1. PICK d \in CallType :
          /\ Turns(c, d)
          /\ Becomes(d, call[c], "waitConnected", call[c].at, call[c].saw, call[c].cached, call[c].on, call[c].created)
    BY <1>1, <1>2, Goes
  <2>2. Continues(call[c], d)
    BY <1>1, <2>1 DEF Becomes, Continues, Connecting
  <2>3. Goings /\ call'[c] = d /\ \A b \in Calls \ {c} : call'[b] = call[b]
    BY <1>1, <2>1, <2>2, OneGoes
  <2>4. ReadsKnown'
    BY <1>1, <2>3, ReadsGo DEF ReasonInvariant
  <2>5. PICK r \in Rows : r = call[c].row
    BY <1>1
  <2>6. CallReads(c)
    BY DEF ReasonInvariant, ReadsKnown
  <2>7. CASE Contested(c)
    <3>1. Meant(c)
      BY <1>1, <2>6 DEF Meant, CallReads, Connecting
    <3>2. r \in loose'
      BY <1>4, <2>5, <2>7, <3>1 DEF Deploy, StartedBehind
    <3> QED
      BY <2>4, <3>2 DEF RunsForAReason, Reason
  <2>8. CASE ~Contested(c) /\ row[r].at # 0
    <3>1. row[r].enabled /\ \A b \in Calls \ {c} : call[b].row = r => call[b].kind \notin {"disable", "view"}
      BY <1>1, <2>5, <2>8 DEF Contested, Connecting
    <3>2. ASSUME NEW b \in Calls PROVE ~SilentOn(b, r)'
      <4>1. CASE b = c
        BY <1>1, <2>1, <2>3, <4>1 DEF SilentOn, Becomes
      <4>2. CASE b # c
        BY <2>3, <3>1, <4>2 DEF SilentOn
      <4> QED
        BY <4>1, <4>2
    <3>3. Reason(r)'
      BY <1>1, <2>8, <3>1, <3>2 DEF Reason, Heard, Shows
    <3> QED
      BY <2>4, <3>3 DEF RunsForAReason
  <2>9. CASE row[r].at = 0
    <3>1. call[c].kind = "connect"
      BY <1>1, <2>5, <2>6, <2>9 DEF CallReads, Connecting
    <3>2. FirstConnect(c, r)'
      BY <1>1, <2>1, <2>3, <2>5, <3>1 DEF FirstConnect, Becomes
    <3>3. Reason(r)'
      BY <1>1, <2>9, <3>2 DEF Reason
    <3> QED
      BY <2>4, <3>3 DEF RunsForAReason
  <2> QED
    BY <2>7, <2>8, <2>9
<1> QED
  BY <1>3, <1>4

LEMMA StartReasoned ==
  ASSUME ReasonInvariant, NEW c \in Calls, Start(c)
  PROVE  ReadsKnown' /\ RunsForAReason'
<1>1. /\ SessionsInvariant /\ call[c].step = "start" /\ call[c].kind = "enable" /\ call[c].row \in Rows
      /\ call[c].at # 0 /\ row[call[c].row].at # 0 /\ UNCHANGED <<row, doubled>>
  <2>1. SessionsInvariant /\ call[c].step = "start" /\ UNCHANGED <<row, doubled>> /\ CallReads(c)
    BY DEF ReasonInvariant, ReadsKnown, Start
  <2>2. CallKnown(call[c], made)
    BY <2>1, OfCall
  <2> QED
    BY <2>1, <2>2 DEF CallKnown, CallReads, Connecting
<1>2. "ask" \in Steps /\ Goto(c, "ask")
  BY DEF Steps, Start
<1>3. PICK d \in CallType :
        /\ Turns(c, d)
        /\ Becomes(d, call[c], "ask", call[c].at, call[c].saw, call[c].cached, call[c].on, call[c].created)
  BY <1>1, <1>2, Goes
<1>4. Continues(call[c], d)
  BY <1>1, <1>3 DEF Becomes, Continues, Connecting
<1>5. Goings /\ call'[c] = d /\ \A b \in Calls \ {c} : call'[b] = call[b]
  BY <1>1, <1>3, <1>4, OneGoes
<1>6. ReadsKnown'
  BY <1>1, <1>5, ReadsGo DEF ReasonInvariant
<1>7. PICK r \in Rows : r = call[c].row
  BY <1>1
<1>8. CASE Contested(c)
  <2>1. r \in loose'
    BY <1>1, <1>7, <1>8 DEF Start, StartedBehind, Meant
  <2> QED
    BY <1>6, <2>1 DEF RunsForAReason, Reason
<1>9. CASE ~Contested(c)
  <2>1. \A b \in Calls \ {c} : call[b].row = r => call[b].kind \notin {"disable", "view"}
    BY <1>7, <1>9 DEF Contested
  <2>2. ASSUME NEW b \in Calls PROVE ~SilentOn(b, r)'
    <3>1. CASE b = c
      BY <1>3, <1>5, <3>1 DEF SilentOn, Becomes
    <3>2. CASE b # c
      BY <1>5, <2>1, <3>2 DEF SilentOn
    <3> QED
      BY <3>1, <3>2
  <2>3. Enabling(c, r)'
    BY <1>1, <1>3, <1>5, <1>7 DEF Enabling, Becomes
  <2>4. Reason(r)'
    BY <1>1, <1>7, <2>2, <2>3 DEF Reason, Heard, Shows
  <2> QED
    BY <1>6, <2>4 DEF RunsForAReason
<1> QED
  BY <1>8, <1>9

LEMMA UndeployReasoned ==
  ASSUME ReasonInvariant, NEW c \in Calls, Undeploy(c)
  PROVE  ReadsKnown' /\ RunsForAReason'
<1>1. /\ SessionsInvariant /\ call[c].step = "undeploy" /\ call[c].kind \notin Connecting
      /\ call[c].at # 0 /\ UNCHANGED <<row, doubled>>
  <2>1. SessionsInvariant /\ call[c].step = "undeploy" /\ UNCHANGED <<row, doubled>> /\ CallReads(c)
    BY DEF ReasonInvariant, ReadsKnown, Undeploy
  <2>2. CallKnown(call[c], made)
    BY <2>1, OfCall
  <2> QED
    BY <2>1, <2>2 DEF CallKnown, CallReads
<1>2. "ask" \in Steps /\ Goto(c, "ask")
  BY DEF Steps, Undeploy
<1>3. PICK d \in CallType :
        /\ Turns(c, d)
        /\ Becomes(d, call[c], "ask", call[c].at, call[c].saw, call[c].cached, call[c].on, call[c].created)
  BY <1>1, <1>2, Goes
<1>4. Continues(call[c], d)
  BY <1>1, <1>3 DEF Becomes, Continues
<1>5. ReadsKnown'
  BY <1>1, <1>3, <1>4, OneGoes, ReadsGo DEF ReasonInvariant
<1>6. ASSUME ~doubled, NEW t \in Terminals PROVE ~Running(t)'
  <2>1. call[c].at = 1 /\ (terminal[t] # "none" => t = 1) /\ TerminalType
    BY <1>1, <1>6, OneTerminal, OfCall
  <2>2. terminal' = [terminal EXCEPT ![1] = IF @ = "UNDEPLOYED" THEN @ ELSE "UNDEPLOYING"]
    BY <2>1 DEF Undeploy, Order
  <2>3. CASE t = 1
    BY <2>1, <2>2, <2>3 DEF TerminalType, Running
  <2>4. CASE t # 1
    BY <2>1, <2>2, <2>4 DEF TerminalType, Running
  <2> QED
    BY <2>3, <2>4
<1> QED
  BY <1>1, <1>5, <1>6 DEF RunsForAReason

\* A call that does not connect turns to its next step, and stores nothing that hides what runs.
LEMMA TurnsReasoned ==
  ASSUME ReasonInvariant, NEW c \in Calls, NEW d, Turns(c, d), Continues(call[c], d),
         UNCHANGED <<row, terminal, loose, doubled>>,
         ~doubled /\ (\E t \in Terminals : Running(t))
           => ~(d.step = "store" /\ d.kind \in {"disable", "view"} /\ d.saw \notin Said)
  PROVE  ReadsKnown' /\ RunsForAReason'
<1>1. Goings /\ call'[c] = d /\ \A b \in Calls \ {c} : call'[b] = call[b]
  BY OneGoes DEF ReasonInvariant
<1>2. ASSUME ~doubled, \E t \in Terminals : Running(t), NEW r \in Rows, NEW b \in Calls, SilentOn(b, r)'
      PROVE  SilentOn(b, r)
  <2>1. CASE b = c
    BY <1>1, <1>2, <2>1 DEF SilentOn
  <2>2. CASE b # c
    BY <1>1, <1>2, <2>2 DEF SilentOn
  <2> QED
    BY <2>1, <2>2
<1>3. \A t \in Terminals : Running(t)' => Running(t)
  BY DEF Running
<1> QED
  BY <1>1, <1>2, <1>3, StaysReasoned

LEMMA CloseReasoned ==
  ASSUME ReasonInvariant, NEW c \in Calls, Close(c)
  PROVE  ReadsKnown' /\ RunsForAReason'
<1>1. /\ SessionsInvariant /\ call[c].step = "close" /\ call[c].kind \notin Connecting
      /\ UNCHANGED <<row, terminal, loose, doubled>>
  BY OfCall DEF ReasonInvariant, Close, CallKnown, shistory
<1>2. PICK step \in {"undeploy", "store"} :
        step = (IF call[c].kind = "disable" THEN "undeploy" ELSE "store") /\ Goto(c, step)
  BY DEF Close
<1>3. step \in Steps
  BY DEF Steps
<1>4. PICK d \in CallType :
        /\ Turns(c, d)
        /\ Becomes(d, call[c], step, call[c].at, call[c].saw, call[c].cached, call[c].on, call[c].created)
  BY <1>1, <1>2, <1>3, Goes
<1>5. Continues(call[c], d)
  BY <1>1, <1>4 DEF Becomes, Continues
<1>6. call[c].kind # "view" /\ d.kind = call[c].kind /\ d.step = step
  <2>1. call[c].kind # "view"
    BY <1>1 DEF ReasonInvariant, ReadsKnown, CallReads
  <2> QED
    BY <1>4, <2>1 DEF Becomes
<1> QED
  BY <1>1, <1>2, <1>4, <1>5, <1>6, TurnsReasoned

\* A call that has asked what the account does stores what it heard.
LEMMA AskedReasoned ==
  ASSUME ReasonInvariant, NEW c \in Calls, call[c].step = "ask", NEW saw \in Saws, Finish(c, saw),
         UNCHANGED <<row, terminal, loose, doubled>>,
         saw = "UNKNOWN" \/ saw = (IF terminal[call[c].at] \in DeploymentState THEN terminal[call[c].at] ELSE "UNKNOWN")
  PROVE  ReadsKnown' /\ RunsForAReason'
<1>1. /\ SessionsInvariant /\ call[c].kind \notin Connecting /\ CallReads(c) /\ "store" \in Steps
  BY OfCall DEF ReasonInvariant, ReadsKnown, CallKnown, Steps
<1>2. PICK d \in CallType :
        Turns(c, d) /\ Becomes(d, call[c], "store", call[c].at, saw, call[c].cached, call[c].on, call[c].created)
  BY <1>1, Answers DEF Finish
<1>3. Continues(call[c], d) /\ d.saw = saw
  BY <1>1, <1>2 DEF Becomes, Continues
<1>4. ASSUME ~doubled, NEW t \in Terminals, Running(t) PROVE saw \in Said
  <2>1. call[c].at = 1 /\ t = 1
    BY <1>1, <1>4, OneTerminal DEF CallReads, Running
  <2>2. terminal[call[c].at] \notin {"none", "UNDEPLOYING", "UNDEPLOYED"}
    BY <1>4, <2>1 DEF Running
  <2> QED
    BY <2>2 DEF Said, DeploymentState
<1> QED
  BY <1>2, <1>3, <1>4, TurnsReasoned

-----------------------------------------------------------------------------
(* Calls that begin and end.                                                 *)

LEMMA BeginReasoned ==
  ASSUME ReasonInvariant, NEW c \in Calls, NEW kind, NEW r \in Rows, NEW step, Begin(c, kind, r, step),
         <<kind, step>> \in Starts,
         kind = "sweep" => row[r].at # 0 /\ row[r].status \in {"CONNECTED", "ERROR"},
         kind \in {"disconnect", "view"} \/ step \in {"close", "start"} => row[r].at # 0,
         kind = "disconnect" => row[r].enabled,
         kind \in {"disable", "enable"} /\ step = "store" => row[r].at = 0,
         \A q \in Rows : /\ row'[q].at = row[q].at /\ row'[q].enabled = row[q].enabled
                         /\ row'[q].shown = row[q].shown
                         /\ row'[q].status = row[q].status \/ row'[q].status = "CONNECTING"
  PROVE  ReadsKnown' /\ RunsForAReason'
<1>1. PICK d : d = [NoneInFlight EXCEPT !.kind = kind, !.row = r, !.step = step, !.at = row[r].at, !.was = row[r].status]
  OBVIOUS
<1>2. d.step = step /\ d.kind = kind /\ d.row = r /\ d.at = row[r].at /\ d.was = row[r].status
  BY <1>1 DEF NoneInFlight
<1>3. /\ call[c].step = "none" /\ call'[c] = d /\ (\A b \in Calls \ {c} : call'[b] = call[b])
      /\ UNCHANGED <<terminal, loose, doubled>>
  BY <1>1, OfCall DEF ReasonInvariant, Begin, shistory
<1>4. CallReads(c)'
  BY <1>2, <1>3 DEF CallReads, Starts, Connecting
<1>5. ASSUME NEW b \in Calls, b # c PROVE CallReads(b)'
  <2>1. CallReads(b) /\ call'[b] = call[b] /\ CallKnown(call[b], made)
    BY <1>3, <1>5, OfCall DEF ReasonInvariant, ReadsKnown
  <2>2. call[b].step # "none" => row'[call[b].row].at = row[call[b].row].at
    BY <2>1 DEF CallKnown
  <2> QED
    BY <2>1, <2>2 DEF CallReads
<1>6. ReadsKnown'
  BY <1>4, <1>5 DEF ReasonInvariant, ReadsKnown
<1>7. ASSUME NEW q \in Rows, Reason(q) PROVE Reason(q)'
  <2>1. ASSUME NEW b \in Calls
        PROVE  /\ SilentOn(b, q)' => SilentOn(b, q)
               /\ Enabling(b, q) => Enabling(b, q)'
               /\ FirstConnect(b, q) => FirstConnect(b, q)'
               /\ Disconnecting(b, q)' => Disconnecting(b, q) \/ row[q].enabled
    <3>1. CASE b # c
      BY <1>3, <3>1 DEF SilentOn, Enabling, FirstConnect, Disconnecting
    <3>2. CASE b = c
      <4>1. ~SilentOn(c, q)'
        BY <1>2, <1>3 DEF SilentOn, Starts
      <4>2. ~Enabling(c, q) /\ ~FirstConnect(c, q)
        BY <1>3 DEF Enabling, FirstConnect
      <4>3. Disconnecting(c, q)' => row[q].enabled
        BY <1>2, <1>3 DEF Disconnecting
      <4> QED
        BY <3>2, <4>1, <4>2, <4>3
    <3> QED
      BY <3>1, <3>2
  <2>2. /\ row'[q].at = row[q].at /\ row'[q].enabled = row[q].enabled /\ row'[q].shown = row[q].shown
        /\ (row[q].status # "DISCONNECTED" => row'[q].status # "DISCONNECTED") /\ loose \subseteq loose'
    BY <1>3
  <2> QED
    BY <1>7, <2>1, <2>2, ReasonKept
<1>8. \A t \in Terminals : Running(t)' => Running(t)
  BY <1>3 DEF Running
<1> QED
  BY <1>3, <1>6, <1>7, <1>8 DEF ReasonInvariant, RunsForAReason

LEMMA AskReasoned ==
  ASSUME ReasonInvariant, NEW c \in Calls, NEW r \in Rows,
         Connect(c, r) \/ Disconnect(c, r) \/ SetEnabled(c, r) \/ View(c, r) \/ EnsureProviderSession(c, r)
  PROVE  ReadsKnown' /\ RunsForAReason'
<1>1. row \in [Rows -> RowType] /\ (row[r].status = "CONNECTED" => row[r].at # 0)
  BY DEF ReasonInvariant, ReadsKnown, SessionsInvariant, SessionsType
<1>2. ASSUME NEW kind, NEW step, Ask(c, kind, r, step) PROVE Begin(c, kind, r, step)
  BY <1>2 DEF Ask
<1>3. CASE Connect(c, r)
  <2>1. row' = [row EXCEPT ![r].status = "CONNECTING"] /\ Begin(c, "connect", r, "lookup")
    BY <1>2, <1>3 DEF Connect
  <2>2. PICK s \in RowType : s = [row[r] EXCEPT !.status = "CONNECTING"]
    BY <1>1 DEF RowType
  <2>3. s.at = row[r].at /\ s.enabled = row[r].enabled /\ s.shown = row[r].shown /\ s.status = "CONNECTING"
    BY <1>1, <2>2 DEF RowType
  <2>4. row' = [row EXCEPT ![r] = s]
    BY <2>1, <2>2
  <2>5. \A q \in Rows : /\ row'[q].at = row[q].at /\ row'[q].enabled = row[q].enabled
                        /\ row'[q].shown = row[q].shown
                        /\ row'[q].status = row[q].status \/ row'[q].status = "CONNECTING"
    BY <1>1, <2>3, <2>4
  <2>6. <<"connect", "lookup">> \in Starts
    BY DEF Starts
  <2> QED
    BY <2>1, <2>5, <2>6, BeginReasoned
<1>4. CASE Disconnect(c, r)
  <2>1. row' = row /\ Begin(c, "disconnect", r, "close") /\ <<"disconnect", "close">> \in Starts
    BY <1>2, <1>4 DEF Disconnect, Starts
  <2>2. row[r].enabled /\ row[r].status = "CONNECTED"
    BY <1>4 DEF Disconnect, Buttons
  <2> QED
    BY <1>1, <2>1, <2>2, BeginReasoned
<1>5. CASE SetEnabled(c, r)
  <2>1. PICK kind \in {"disable", "enable"} :
          Ask(c, kind, r, IF row[r].at = 0 THEN "store" ELSE IF kind = "enable" THEN "start" ELSE "close")
    BY <1>5 DEF SetEnabled
  <2>2. PICK step : /\ step = IF row[r].at = 0 THEN "store" ELSE IF kind = "enable" THEN "start" ELSE "close"
                    /\ Ask(c, kind, r, step)
    BY <2>1
  <2>3. <<kind, step>> \in Starts
    BY <2>2 DEF Starts
  <2>4. /\ kind # "sweep" /\ kind # "disconnect"
        /\ kind \in {"disconnect", "view"} \/ step \in {"close", "start"} => row[r].at # 0
        /\ step = "store" => row[r].at = 0
    BY <2>2
  <2>5. row' = row /\ Begin(c, kind, r, step)
    BY <1>2, <1>5, <2>2 DEF SetEnabled
  <2> QED
    BY <2>3, <2>4, <2>5, BeginReasoned
<1>6. CASE View(c, r)
  <2>1. row' = row /\ Begin(c, "view", r, "ask") /\ <<"view", "ask">> \in Starts /\ row[r].at # 0
    BY <1>2, <1>6 DEF View, Starts
  <2> QED
    BY <2>1, BeginReasoned
<1>7. CASE EnsureProviderSession(c, r)
  <2>1. /\ row' = row /\ Begin(c, "sweep", r, "connection") /\ <<"sweep", "connection">> \in Starts
        /\ row[r].at # 0 /\ row[r].status \in {"CONNECTED", "ERROR"}
    BY <1>7 DEF EnsureProviderSession, Starts
  <2> QED
    BY <2>1, BeginReasoned
<1> QED
  BY <1>3, <1>4, <1>5, <1>6, <1>7

\* What a call stores of its row, by its kind.
LEMMA Stored ==
  ASSUME ReasonInvariant, NEW c \in Calls, call[c].step = "store", NEW r \in Rows, r = call[c].row
  PROVE  /\ call[c].kind = "connect" =>
              IF call[c].saw = "DEPLOYED"
              THEN After(c).status = "CONNECTED" /\ After(c).at = call[c].at
                   /\ After(c).enabled = row[r].enabled /\ After(c).shown = row[r].shown
              ELSE After(c).status = "ERROR" /\ After(c).at = row[r].at
                   /\ After(c).enabled = row[r].enabled /\ After(c).shown = row[r].shown
         /\ call[c].kind = "sweep" =>
              /\ After(c).at = IF call[c].saw = "DEPLOYED" THEN call[c].at ELSE row[r].at
              /\ After(c).enabled = row[r].enabled /\ After(c).shown = row[r].shown
              /\ After(c).status \in {row[r].status, "CONNECTED", "ERROR"}
              /\ After(c).status = "CONNECTED" => row[r].status = "CONNECTED" \/ call[c].saw = "DEPLOYED"
         /\ call[c].kind = "disconnect" =>
              After(c).status = "DISCONNECTED" /\ After(c).at = row[r].at
              /\ After(c).enabled = row[r].enabled /\ After(c).shown = row[r].shown
         /\ call[c].kind = "disable" =>
              After(c).status = "DISCONNECTED" /\ After(c).at = row[r].at /\ After(c).shown = call[c].saw
         /\ call[c].kind = "enable" =>
              After(c).status = row[r].status /\ After(c).at = row[r].at /\ After(c).enabled
         /\ call[c].kind = "view" =>
              After(c).status = row[r].status /\ After(c).at = row[r].at
              /\ After(c).enabled = row[r].enabled /\ After(c).shown = call[c].saw
         /\ call[c].kind \in {"connect", "sweep", "disconnect", "disable", "enable", "view"}
<1>1. /\ SessionsInvariant /\ call[c] \in CallType /\ CallKnown(call[c], made) /\ row[r] \in RowType
      /\ call[c].at \in 0..MaxTerminals
  BY OfCall DEF ReasonInvariant, SessionsInvariant, SessionsType
<1>2. PICK k \in CallType : k = call[c]
  BY <1>1
<1>3. PICK o \in RowType : o = row[r]
  BY <1>1
<1>4. PICK at \in 0..MaxTerminals : at = k.at
  BY <1>1, <1>2
<1>5. k.kind \in {"connect", "sweep", "disconnect", "disable", "enable", "view"}
  BY <1>1, <1>2 DEF CallKnown, CallType
<1>6. PICK status \in {"DISCONNECTED", "CONNECTED", "CONNECTING", "ERROR"} :
        status = IF k.was = "ERROR" THEN "CONNECTED" ELSE o.status
  BY DEF RowType
<1>7. CASE k.kind = "connect"
  <2>1. After(c) = IF k.saw = "DEPLOYED" THEN [o EXCEPT !.status = "CONNECTED", !.at = at]
                   ELSE [o EXCEPT !.status = "ERROR"]
    BY <1>2, <1>3, <1>4, <1>7 DEF After
  <2> QED
    BY <1>2, <1>3, <1>4, <1>7, <2>1 DEF RowType
<1>8. CASE k.kind = "sweep"
  <2>1. After(c) = IF k.saw = "DEPLOYED" THEN [o EXCEPT !.at = at, !.status = status]
                   ELSE [o EXCEPT !.status = "ERROR"]
    BY <1>2, <1>3, <1>4, <1>6, <1>8 DEF After
  <2> QED
    BY <1>2, <1>3, <1>4, <1>6, <1>8, <2>1 DEF RowType
<1>9. CASE k.kind = "disconnect"
  <2>1. After(c) = [o EXCEPT !.status = "DISCONNECTED"]
    BY <1>2, <1>3, <1>9 DEF After
  <2> QED
    BY <1>2, <1>3, <1>9, <2>1 DEF RowType
<1>10. CASE k.kind = "disable"
  <2>1. After(c) = [o EXCEPT !.enabled = FALSE, !.status = "DISCONNECTED", !.shown = k.saw]
    BY <1>2, <1>3, <1>10 DEF After
  <2> QED
    BY <1>2, <1>3, <1>10, <2>1 DEF RowType
<1>11. CASE k.kind = "enable"
  <2>1. After(c) = [o EXCEPT !.enabled = TRUE, !.shown = k.saw]
    BY <1>2, <1>3, <1>11 DEF After
  <2> QED
    BY <1>2, <1>3, <1>11, <2>1 DEF RowType
<1>12. CASE k.kind = "view"
  <2>1. After(c) = [o EXCEPT !.shown = k.saw]
    BY <1>2, <1>3, <1>12 DEF After
  <2> QED
    BY <1>2, <1>3, <1>12, <2>1 DEF RowType
<1> QED
  BY <1>2, <1>5, <1>7, <1>8, <1>9, <1>10, <1>11, <1>12

LEMMA StoreReasoned ==
  ASSUME ReasonInvariant, NEW c \in Calls, Store(c)
  PROVE  ReadsKnown' /\ RunsForAReason'
<1>1. /\ SessionsInvariant /\ call[c].step = "store" /\ call[c].row \in Rows
      /\ call[c].at \in 0..MaxTerminals /\ CallKnown(call[c], made) /\ CallReads(c)
      /\ row \in [Rows -> RowType] /\ call \in [Calls -> CallType]
  BY OfCall DEF ReasonInvariant, ReadsKnown, Store, CallKnown, SessionsInvariant, SessionsType
<1>2. PICK r \in Rows : r = call[c].row
  BY <1>1
<1>3. PICK k : k = call[c]
  OBVIOUS
<1>4. PICK new : new = After(c)
  OBVIOUS
<1>5. /\ row' = [row EXCEPT ![r] = new] /\ call' = [call EXCEPT ![c] = NoneInFlight]
      /\ UNCHANGED <<terminal, doubled>>
      /\ loose' = loose \cup (IF k.at # row[r].at
                                 /\ (k.kind = "disable" \/ (k.kind = "connect" /\ k.saw # "DEPLOYED"))
                              THEN {r} ELSE {})
  BY <1>2, <1>3, <1>4 DEF Store
<1>6. /\ row'[r] = new /\ \A q \in Rows \ {r} : row'[q] = row[q]
      /\ call'[c].step = "none" /\ \A b \in Calls \ {c} : call'[b] = call[b]
  BY <1>1, <1>5 DEF NoneInFlight
<1>7. /\ k.kind = "connect" =>
           IF k.saw = "DEPLOYED"
           THEN new.status = "CONNECTED" /\ new.at = k.at /\ new.enabled = row[r].enabled /\ new.shown = row[r].shown
           ELSE new.status = "ERROR" /\ new.at = row[r].at /\ new.enabled = row[r].enabled /\ new.shown = row[r].shown
      /\ k.kind = "sweep" =>
           /\ new.at = IF k.saw = "DEPLOYED" THEN k.at ELSE row[r].at
           /\ new.enabled = row[r].enabled /\ new.shown = row[r].shown
           /\ new.status \in {row[r].status, "CONNECTED", "ERROR"}
           /\ new.status = "CONNECTED" => row[r].status = "CONNECTED" \/ k.saw = "DEPLOYED"
      /\ k.kind = "disconnect" =>
           new.status = "DISCONNECTED" /\ new.at = row[r].at
           /\ new.enabled = row[r].enabled /\ new.shown = row[r].shown
      /\ k.kind = "disable" => new.status = "DISCONNECTED" /\ new.at = row[r].at /\ new.shown = k.saw
      /\ k.kind = "enable" => new.status = row[r].status /\ new.at = row[r].at /\ new.enabled
      /\ k.kind = "view" =>
           new.status = row[r].status /\ new.at = row[r].at /\ new.enabled = row[r].enabled /\ new.shown = k.saw
      /\ k.kind \in {"connect", "sweep", "disconnect", "disable", "enable", "view"}
  BY <1>1, <1>2, <1>3, <1>4, Stored
<1>8. k.kind \in Connecting /\ k.saw = "DEPLOYED" => k.at # 0
  BY <1>1, <1>3 DEF CallKnown
<1>9. /\ row[r].at # 0 => new.at # 0
      /\ new.status = "CONNECTED" => new.at # 0
  <2>1. row[r].status = "CONNECTED" => row[r].at # 0
    BY DEF ReasonInvariant, ReadsKnown
  <2> QED
    BY <1>7, <1>8, <2>1 DEF Connecting
<1>10. ReadsKnown'
  <2>1. ASSUME NEW b \in Calls PROVE CallReads(b)'
    <3>1. CASE b = c
      BY <1>6, <3>1 DEF CallReads
    <3>2. CASE b # c
      <4>1. CallReads(b) /\ call'[b] = call[b] /\ CallKnown(call[b], made)
        BY <1>1, <1>6, <3>2, OfCall DEF ReasonInvariant, ReadsKnown
      <4>2. call[b].step # "none" /\ row[call[b].row].at # 0 => row'[call[b].row].at # 0
        BY <1>6, <1>9, <4>1 DEF CallKnown
      <4> QED
        BY <4>1, <4>2 DEF CallReads
    <3> QED
      BY <3>1, <3>2
  <2>2. \A q \in Rows : row'[q].status = "CONNECTED" => row'[q].at # 0
    BY <1>6, <1>9 DEF ReasonInvariant, ReadsKnown
  <2> QED
    BY <2>1, <2>2 DEF ReadsKnown
<1>11. ASSUME NEW b \in Calls, NEW q \in Rows
       PROVE  /\ (row'[q].at = row[q].at /\ SilentOn(b, q)') => SilentOn(b, q)
              /\ b # c /\ Enabling(b, q) => Enabling(b, q)'
              /\ b # c /\ FirstConnect(b, q) => FirstConnect(b, q)'
              /\ Disconnecting(b, q)' => Disconnecting(b, q)
  BY <1>6 DEF SilentOn, Enabling, FirstConnect, Disconnecting
<1>12. ASSUME NEW q \in Rows \ {r}, Reason(q) PROVE Reason(q)'
  <2>1. row'[q] = row[q] /\ loose \subseteq loose'
    BY <1>5, <1>6
  <2>2. ~Enabling(c, q) /\ ~FirstConnect(c, q)
    BY <1>2 DEF Enabling, FirstConnect
  <2>3. \A b \in Calls : /\ SilentOn(b, q)' => SilentOn(b, q)
                         /\ Enabling(b, q) => Enabling(b, q)'
                         /\ FirstConnect(b, q) => FirstConnect(b, q)'
                         /\ Disconnecting(b, q)' => Disconnecting(b, q) \/ row[q].enabled
    BY <1>11, <2>1, <2>2
  <2> QED
    BY <1>12, <2>1, <2>3, ReasonKept
<1>13. ASSUME ~doubled, Reason(r) PROVE Reason(r)'
  <2>1. row[r].at \in {0, 1} /\ k.at \in {0, 1}
    BY <1>1, <1>3, <1>13, OneTerminal
  <2>2. CASE r \in loose'
    BY <2>2 DEF Reason
  <2>3. CASE r \notin loose' /\ row[r].at = 0 /\ new.at # 0
    <3>1. k.kind = "connect" /\ new.status = "CONNECTED"
      <4>1. k.kind # "sweep"
        BY <1>1, <1>2, <1>3, <2>3 DEF CallReads
      <4> QED
        BY <1>7, <2>3, <4>1
    <3>2. ASSUME NEW b \in Calls PROVE ~SilentOn(b, r)' /\ ~Disconnecting(b, r)'
      <4>1. CASE b = c
        BY <1>6, <4>1 DEF SilentOn, Disconnecting
      <4>2. CASE b # c
        <5>1. call'[b] = call[b] /\ CallReads(b)
          BY <1>6, <4>2 DEF ReasonInvariant, ReadsKnown
        <5>2. call[b].row = r /\ call[b].step # "none" /\ call[b].kind \notin Connecting => call[b].at = 0
          BY <2>3, <5>1 DEF CallReads
        <5>3. call[b].row = r /\ call[b].step # "none" => call[b].kind \notin {"disconnect", "view"}
          BY <5>1, <5>2 DEF CallReads, Connecting
        <5>4. ~Disconnecting(b, r)'
          BY <5>1, <5>3 DEF Disconnecting
        <5>5. ~SilentOn(b, r)'
          BY <5>1, <5>2, <5>3 DEF SilentOn, Connecting
        <5> QED
          BY <5>4, <5>5
      <4> QED
        BY <4>1, <4>2
    <3> QED
      BY <1>6, <2>3, <3>1, <3>2 DEF Reason, Heard, Shows
  <2>4. CASE r \notin loose' /\ row[r].at = 0 /\ new.at = 0
    <3>1. PICK b \in Calls : FirstConnect(b, r)
      BY <1>5, <1>13, <2>4 DEF Reason
    <3>2. b # c
      <4>1. CASE b = c
        <5>1. k.kind = "connect" /\ k.at # 0
          BY <1>3, <3>1, <4>1 DEF FirstConnect
        <5>2. k.saw # "DEPLOYED"
          BY <1>7, <2>4, <5>1
        <5>3. r \in loose'
          BY <1>5, <2>4, <5>1, <5>2
        <5> QED
          BY <2>4, <5>3
      <4> QED
        BY <4>1
    <3>3. FirstConnect(b, r)' /\ row'[r].at = 0
      BY <1>6, <1>11, <2>4, <3>1, <3>2
    <3> QED
      BY <3>3 DEF Reason
  <2>5. CASE r \notin loose' /\ row[r].at # 0
    <3>1. Heard(r) /\ Shows(r)
      BY <1>5, <1>13, <2>5 DEF Reason
    <3>2. new.at = row[r].at
      BY <1>7, <1>8, <2>1, <2>5 DEF Connecting
    <3>3. Heard(r)'
      BY <1>6, <1>11, <3>1, <3>2 DEF Heard
    <3>4. ~SilentOn(c, r)
      BY <3>1 DEF Heard
    <3>5. CASE k.kind \in {"disable", "view"}
      <4>1. k.kind = "disable" => k.at = row[r].at
        BY <1>5, <2>5
      <4>2. k.saw \in Said
        BY <1>1, <1>2, <1>3, <2>5, <3>4, <3>5, <4>1 DEF SilentOn
      <4>3. Shows(r)'
        BY <1>6, <1>7, <3>5, <4>2 DEF Shows
      <4> QED
        BY <1>6, <2>5, <3>2, <3>3, <4>3 DEF Reason
    <3>6. CASE k.kind = "enable"
      <4>1. Shows(r)'
        BY <1>6, <1>7, <3>6 DEF Shows
      <4> QED
        BY <1>6, <2>5, <3>2, <3>3, <4>1 DEF Reason
    <3>7. CASE k.kind \in {"connect", "sweep", "disconnect"}
      <4>1. row'[r].enabled = row[r].enabled /\ row'[r].shown = row[r].shown /\ row'[r].status = new.status
        <5>1. new.enabled = row[r].enabled /\ new.shown = row[r].shown
          BY <1>7, <3>7
        <5> QED
          BY <1>6, <5>1
      <4>2. ASSUME row[r].enabled \/ row[r].shown \in Said PROVE Shows(r)'
        BY <4>1, <4>2 DEF Shows
      <4>3. ASSUME NEW b \in Calls, Enabling(b, r) PROVE Shows(r)'
        <5>1. b # c
          BY <1>3, <3>7, <4>3 DEF Enabling
        <5> QED
          BY <1>11, <4>3, <5>1 DEF Shows
      <4>4. ASSUME row[r].status # "DISCONNECTED", \A b \in Calls : ~Disconnecting(b, r) PROVE Shows(r)'
        <5>1. k.kind # "disconnect"
          BY <1>1, <1>2, <1>3, <4>4 DEF Disconnecting
        <5>2. new.status # "DISCONNECTED"
          BY <1>7, <3>7, <4>4, <5>1
        <5>3. \A b \in Calls : ~Disconnecting(b, r)'
          BY <1>11, <4>4
        <5> QED
          BY <4>1, <5>2, <5>3 DEF Shows
      <4>5. Shows(r)'
        BY <3>1, <4>2, <4>3, <4>4 DEF Shows
      <4> QED
        BY <1>6, <2>5, <3>2, <3>3, <4>5 DEF Reason
    <3> QED
      BY <1>7, <3>5, <3>6, <3>7
  <2> QED
    BY <2>2, <2>3, <2>4, <2>5
<1>14. ASSUME ~doubled', NEW t \in Terminals, Running(t)' PROVE \E q \in Rows : Reason(q)'
  <2>1. ~doubled /\ Running(t)
    BY <1>5, <1>14 DEF Running
  <2>2. PICK q \in Rows : Reason(q)
    BY <2>1 DEF ReasonInvariant, RunsForAReason
  <2>3. CASE q = r
    BY <1>13, <2>1, <2>2, <2>3
  <2>4. CASE q # r
    BY <1>12, <2>2, <2>4
  <2> QED
    BY <2>3, <2>4
<1> QED
  BY <1>10, <1>14 DEF RunsForAReason

LEMMA ThrowReasoned ==
  ASSUME ReasonInvariant, NEW c \in Calls, Throw(c)
  PROVE  ReadsKnown' /\ RunsForAReason'
<1>1. /\ SessionsInvariant /\ CallKnown(call[c], made) /\ CallReads(c) /\ "UNKNOWN" \in Saws
      /\ call \in [Calls -> CallType]
  BY OfCall DEF ReasonInvariant, ReadsKnown, Saws
<1>2. CASE call[c].step \in Opening /\ IF call[c].cached THEN OpeningFails(c) ELSE ConnectFails(c)
  BY <1>2, FailsReasoned
<1>3. CASE /\ call[c].step \in {"createAccount", "information"} /\ Finish(c, "UNKNOWN")
           /\ UNCHANGED <<row, terminal, made, cache, requests, shistory>>
  <2>1. call[c].kind \in Connecting /\ call[c].step # "none"
    BY <1>1, <1>3 DEF CallKnown, Linked
  <2> QED
    BY <1>1, <1>3, <2>1, FinishReasoned DEF shistory
<1>4. CASE /\ call[c].step = "read" /\ call' = [call EXCEPT ![c] = Refused(@)]
           /\ UNCHANGED <<row, terminal, made, cache, requests, shistory>>
  <2>1. call[c].kind \in Connecting /\ call[c].step # "none"
    BY <1>1, <1>4 DEF CallKnown, Linked
  <2> QED
    BY <1>4, <2>1, RefusedReasoned DEF shistory
<1>5. CASE /\ call[c].step = "undeploy" /\ Goto(c, "ask")
           /\ UNCHANGED <<row, terminal, made, cache, requests, shistory>>
  <2>1. "ask" \in Steps /\ call[c].kind \notin Connecting
    BY <1>1, <1>5 DEF Steps, CallKnown
  <2>2. PICK d \in CallType :
          /\ Turns(c, d)
          /\ Becomes(d, call[c], "ask", call[c].at, call[c].saw, call[c].cached, call[c].on, call[c].created)
    BY <1>1, <1>5, <2>1, Goes
  <2>3. Continues(call[c], d) /\ d.step = "ask"
    BY <1>5, <2>1, <2>2 DEF Becomes, Continues
  <2> QED
    BY <1>5, <2>2, <2>3, TurnsReasoned DEF shistory
<1>6. CASE /\ call[c].step = "start" /\ call' = [call EXCEPT ![c] = NoneInFlight]
           /\ UNCHANGED <<terminal, loose>> \/ (Order(call[c].at, "DEPLOYING") /\ loose' = loose \cup {call[c].row})
           /\ UNCHANGED <<row, made, cache, requests, doubled, stranded>>
  <2>1. call'[c].step = "none" /\ (\A b \in Calls \ {c} : call'[b] = call[b]) /\ UNCHANGED <<row, doubled>>
    BY <1>1, <1>6 DEF NoneInFlight
  <2>2. ASSUME NEW b \in Calls PROVE CallReads(b)'
    <3>1. CASE b = c
      BY <2>1, <3>1 DEF CallReads
    <3>2. CASE b # c
      BY <2>1, <3>2 DEF CallReads, ReasonInvariant, ReadsKnown
    <3> QED
      BY <3>1, <3>2
  <2>3. ReadsKnown'
    BY <2>1, <2>2 DEF ReasonInvariant, ReadsKnown
  <2>4. CASE UNCHANGED <<terminal, loose>>
    <3>1. ASSUME NEW q \in Rows, Reason(q) PROVE Reason(q)'
      <4>1. \A b \in Calls : /\ SilentOn(b, q)' => SilentOn(b, q)
                             /\ Enabling(b, q) => Enabling(b, q)'
                             /\ FirstConnect(b, q) => FirstConnect(b, q)'
                             /\ Disconnecting(b, q)' => Disconnecting(b, q) \/ row[q].enabled
        <5>1. ~Enabling(c, q) /\ ~FirstConnect(c, q)
          BY <1>1, <1>6 DEF Enabling, FirstConnect, CallReads
        <5> QED
          BY <2>1, <5>1 DEF SilentOn, Enabling, FirstConnect, Disconnecting
      <4> QED
        BY <2>1, <2>4, <3>1, <4>1, ReasonKept
    <3>2. \A t \in Terminals : Running(t)' => Running(t)
      BY <2>4 DEF Running
    <3> QED
      BY <2>1, <2>3, <3>1, <3>2 DEF ReasonInvariant, RunsForAReason
  <2>5. CASE loose' = loose \cup {call[c].row}
    <3>1. PICK r \in Rows : r = call[c].row
      BY <1>1, <1>6 DEF CallKnown
    <3>2. Reason(r)'
      BY <2>5, <3>1 DEF Reason
    <3> QED
      BY <2>3, <3>2 DEF RunsForAReason
  <2> QED
    BY <1>6, <2>4, <2>5
<1>7. CASE /\ call[c].step = "ask" /\ Finish(c, "UNKNOWN")
           /\ UNCHANGED <<row, terminal, made, cache, requests, shistory>>
  BY <1>1, <1>7, AskedReasoned DEF shistory
<1> QED
  BY <1>2, <1>3, <1>4, <1>5, <1>6, <1>7 DEF Throw

LEMMA ReasonStep == ReasonInvariant /\ [SessionsNext]_svars => ReasonInvariant'
<1> SUFFICES ASSUME ReasonInvariant, [SessionsNext]_svars PROVE ReadsKnown' /\ RunsForAReason'
  BY SessionsStep DEF ReasonInvariant
<1>1. ASSUME NEW c \in Calls, NEW r \in Rows,
             Connect(c, r) \/ Disconnect(c, r) \/ SetEnabled(c, r) \/ View(c, r) \/ EnsureProviderSession(c, r)
      PROVE  ReadsKnown' /\ RunsForAReason'
  BY <1>1, AskReasoned
<1>2. ASSUME NEW c \in Calls, GetDeploymentState(c)
      PROVE  ReadsKnown' /\ RunsForAReason'
  <2>1. PICK saw \in Saws :
          saw = (IF terminal[call[c].at] \in DeploymentState THEN terminal[call[c].at] ELSE "UNKNOWN")
    BY DEF Saws
  <2> QED
    BY <1>2, <2>1, AskedReasoned DEF GetDeploymentState, shistory
<1>3. ASSUME NEW c \in Calls, SessionStep(c)
      PROVE  ReadsKnown' /\ RunsForAReason'
  BY <1>2, <1>3, OpeningReasoned, ReadingReasoned, LookupReasoned, CreateReasoned, DeployReasoned, CloseReasoned,
     UndeployReasoned, StartReasoned, StoreReasoned DEF SessionStep
<1>4. ASSUME NEW c \in Calls, LookupThrows(c) \/ Throw(c)
      PROVE  ReadsKnown' /\ RunsForAReason'
  BY <1>4, LookupReasoned, ThrowReasoned
<1>5. ASSUME UNCHANGED <<row, call, loose, doubled>>, \A t \in Terminals : Running(t)' => Running(t)
      PROVE  ReadsKnown' /\ RunsForAReason'
  <2>1. Goings /\ \A r \in Rows, b \in Calls : SilentOn(b, r)' => SilentOn(b, r)
    BY <1>5 DEF Goings, SilentOn
  <2> QED
    BY <1>5, <2>1, StaysReasoned
<1>6. ASSUME NEW t \in Terminals, Settle(t)
      PROVE  ReadsKnown' /\ RunsForAReason'
  <2>1. \A s \in Terminals : Running(s)' => Running(s)
    <3>1. terminal \in [Terminals -> {"none", "CREATED"} \cup DeploymentState]
      BY TypeParts DEF ReasonInvariant, SessionsInvariant, TerminalType
    <3> QED
      BY <1>6, <3>1 DEF Settle, Running
  <2>2. UNCHANGED <<row, call, loose, doubled>>
    BY <1>6 DEF Settle, shistory
  <2> QED
    BY <1>5, <2>1, <2>2
<1>7. CASE UNCHANGED svars
  BY <1>5, <1>7 DEF svars, Running
<1> QED
  BY <1>1, <1>3, <1>4, <1>6, <1>7 DEF SessionsNext

-----------------------------------------------------------------------------
(* The open page.                                                          *)

\* The larger of two numbers.
LEMMA MaxOfTwo ==
  ASSUME NEW a \in Int, NEW b \in Int
  PROVE  Max({a, b}) \in {a, b} /\ Max({a, b}) >= a /\ Max({a, b}) >= b
<1>1. \E x \in {a, b} : \A y \in {a, b} : x >= y
  <2>1. CASE a >= b
    BY <2>1
  <2>2. CASE b >= a
    BY <2>2
  <2> QED
    BY <2>1, <2>2
<1> QED
  BY <1>1 DEF Max

-----------------------------------------------------------------------------

PageType ==
  [open : BOOLEAN, stream : {"none", "connecting", "open"}, connected : BOOLEAN, timer : BOOLEAN,
   asked : BOOLEAN, reading : NoRender..MaxChanges, shown : 0..MaxChanges, heard : 0..MaxChanges]

\* A page rendered from v, and a page that shows v, are pages.
LEMMA RenderedIsPage ==
  ASSUME NEW p \in PageType, NEW v \in 0..MaxChanges
  PROVE  /\ [p EXCEPT !.reading = NoRender, !.shown = v] \in PageType
         /\ [NoPage EXCEPT !.open = TRUE, !.shown = v] \in PageType
<1>1. MaxChanges \in Nat
  BY LiveAssumption
<1>2. NoRender \in NoRender..MaxChanges /\ 0 \in 0..MaxChanges
  BY <1>1 DEF NoRender
<1>3. [p EXCEPT !.reading = NoRender, !.shown = v] \in PageType
  BY <1>2 DEF PageType
<1>4. NoPage \in PageType
  BY <1>2 DEF PageType, NoPage
<1>5. [NoPage EXCEPT !.open = TRUE, !.shown = v] \in PageType
  BY <1>4 DEF PageType
<1> QED
  BY <1>3, <1>5

\* Nothing is known of a change that was not stored.
Known ==
  /\ page.heard <= change /\ page.shown <= change /\ page.reading <= change
  /\ unsent \subseteq 1..change /\ wire \subseteq 1..change

LEMMA LiveTypeInit == LiveInit => LiveType /\ Known /\ PageCatchesUp
BY LiveAssumption DEF LiveInit, LiveType, Known, PageCatchesUp, NoPage, NoRender

LEMMA LiveTypeNext ==
  ASSUME LiveType, Known, [LiveNext]_lvars
  PROVE  LiveType' /\ Known'
<1>n. MaxChanges \in Nat /\ MaxDrops \in Nat
  BY LiveAssumption
<1> USE <1>n DEF LiveType, Known, NoRender, Changes
<1>1. CASE StoreChange
  BY <1>1 DEF StoreChange
<1>2. ASSUME NEW c \in unsent, PublishUserEvent(c)
      PROVE  LiveType' /\ Known'
  BY <1>2 DEF PublishUserEvent
<1>3. CASE Visit
  <2>1. change \in 0..MaxChanges /\ page \in PageType
    BY DEF PageType
  <2>2. page' = [NoPage EXCEPT !.open = TRUE, !.shown = change]
    BY <1>3 DEF Visit
  <2>3. page' \in PageType
    BY <2>1, <2>2, RenderedIsPage
  <2>4. LiveType'
    BY <1>3, <2>3 DEF Visit, PageType
  <2>5. page'.heard = 0 /\ page'.shown = change /\ page'.reading = NoRender
    BY <2>2 DEF NoPage
  <2> QED
    BY <1>3, <2>4, <2>5 DEF Visit
<1>4. CASE OpenStream
  BY <1>4 DEF OpenStream
<1>5. CASE Stream
  BY <1>5 DEF Stream
<1>6. CASE Subscribed
  BY <1>6 DEF Subscribed
<1>7. CASE Drop
  <2>1. LiveType'
    <3>1. drops' \in 0..MaxDrops
      BY <1>7 DEF Drop
    <3>2. page' \in [open : BOOLEAN, stream : {"none", "connecting", "open"}, connected : BOOLEAN, timer : BOOLEAN,
                     asked : BOOLEAN, reading : NoRender..MaxChanges, shown : 0..MaxChanges, heard : 0..MaxChanges]
      BY <1>7 DEF Drop
    <3> QED
      BY <1>7, <3>1, <3>2 DEF Drop, Broken
  <2>2. page'.heard = page.heard /\ page'.shown = page.shown /\ page'.reading = page.reading
    BY <1>7 DEF Drop
  <2> QED
    BY <1>7, <2>1, <2>2 DEF Drop, Broken
<1>8. CASE Leave
  BY <1>8 DEF Leave, Broken, NoPage
<1>9. ASSUME NEW c \in wire, Hear(c)
      PROVE  LiveType' /\ Known'
  <2>1. c \in Int /\ c \in 1..change /\ page.heard \in Int /\ page.heard \in 0..change
    OBVIOUS
  <2> DEFINE latest == Max({page.heard, c})
  <2>2. latest \in {page.heard, c}
    BY <2>1, MaxOfTwo
  <2>3. latest \in 0..change
    BY <2>1, <2>2
  <2> HIDE DEF latest
  <2>4. page' = [page EXCEPT !.heard = latest, !.timer = TRUE]
    BY <1>9 DEF Hear, ScheduleRefresh, latest
  <2>5. latest \in 0..MaxChanges
    BY <2>3
  <2>6. LiveType'
    BY <1>9, <2>4, <2>5 DEF Hear
  <2>7. page'.heard = latest /\ page'.shown = page.shown /\ page'.reading = page.reading
    BY <2>4
  <2> QED
    BY <1>9, <2>3, <2>6, <2>7 DEF Hear
<1>10. CASE Refresh
  BY <1>10 DEF Refresh
<1>11. CASE Render
  <2>1. page' = [page EXCEPT !.asked = FALSE, !.reading = change] /\ change \in NoRender..MaxChanges
    BY <1>11 DEF Render
  <2>2. page'.heard = page.heard /\ page'.shown = page.shown /\ page'.reading = change
    BY <2>1
  <2>3. LiveType'
    BY <1>11, <2>1 DEF Render
  <2> QED
    BY <1>11, <2>2, <2>3 DEF Render
<1>12. CASE Show
  <2>1. page' = [page EXCEPT !.reading = NoRender, !.shown = page.reading] /\ page.reading \in 0..MaxChanges
    BY <1>12 DEF Show
  <2>2. page'.heard = page.heard /\ page'.shown = page.reading /\ page'.reading = NoRender
    BY <2>1
  <2>3. LiveType'
    <3>1. page' \in PageType
      <4>1. page \in PageType
        BY DEF PageType
      <4> QED
        BY <2>1, <4>1, RenderedIsPage
    <3> QED
      BY <1>12, <3>1 DEF Show, PageType
  <2> QED
    BY <1>12, <2>2, <2>3 DEF Show
<1>13. CASE UNCHANGED lvars
  BY <1>13 DEF lvars
<1> QED
  BY <1>1, <1>2, <1>3, <1>4, <1>5, <1>6, <1>7, <1>8, <1>9, <1>10, <1>11, <1>12, <1>13 DEF LiveNext

\* One conjunct of PageCatchesUp each: a change heard of leads to a render, the page does
\* not go back, and a change is not forgotten on its way.
RendersAgain == page.shown < page.heard => page.timer \/ page.asked \/ page.reading >= page.heard
NeverGoesBack == page.reading # NoRender => page.reading >= page.shown
OnItsWay(c) == c \in unsent \cup wire \cup missed \/ c <= page.shown \/ c <= page.heard

LEMMA PageStep ==
  ASSUME LiveType, Known, PageCatchesUp, [LiveNext]_lvars
  PROVE  PageCatchesUp'
<1>a. LiveType' /\ Known'
  BY LiveTypeNext
<1>b. page.shown \in Int /\ page.heard \in Int /\ page.reading \in Int /\ change \in Int
      /\ \A c \in 1..change : c \in Int
  BY DEF LiveType, NoRender
<1> SUFFICES ASSUME page'.open
             PROVE  RendersAgain' /\ NeverGoesBack' /\ \A c \in 1..change' : OnItsWay(c)'
  BY DEF PageCatchesUp, RendersAgain, NeverGoesBack, OnItsWay
<1> USE LiveAssumption DEF LiveType, Known, NoRender, Changes
<1>c. ASSUME page.open
      PROVE  RendersAgain /\ NeverGoesBack /\ \A c \in 1..change : OnItsWay(c)
  BY <1>c DEF PageCatchesUp, RendersAgain, NeverGoesBack, OnItsWay
<1> HIDE DEF OnItsWay
<1>1. CASE StoreChange
  <2>1. page.open /\ change' = change + 1 /\ unsent' = unsent \cup {change'}
        /\ UNCHANGED <<page, wire, missed>>
    BY <1>1 DEF StoreChange
  <2>2. RendersAgain' /\ NeverGoesBack'
    BY <1>c, <2>1 DEF RendersAgain, NeverGoesBack
  <2>3. ASSUME NEW c \in 1..change'
        PROVE  OnItsWay(c)'
    <3>1. CASE c = change'
      BY <2>1, <3>1 DEF OnItsWay
    <3>2. CASE c # change'
      <4>1. c \in 1..change
        BY <2>1, <3>2
      <4> QED
        BY <1>c, <2>1, <4>1 DEF OnItsWay
    <3> QED
      BY <3>1, <3>2
  <2> QED
    BY <2>2, <2>3
<1>2. ASSUME NEW d \in unsent, PublishUserEvent(d)
      PROVE  RendersAgain' /\ NeverGoesBack' /\ \A c \in 1..change' : OnItsWay(c)'
  <2>1. page.open /\ UNCHANGED <<page, change>>
        /\ unsent \cup wire \cup missed \subseteq unsent' \cup wire' \cup missed'
    BY <1>2 DEF PublishUserEvent
  <2> QED
    BY <1>c, <2>1 DEF RendersAgain, NeverGoesBack, OnItsWay
<1>3. CASE Visit
  <2>1. change' = change /\ page'.shown = change /\ page'.heard = 0 /\ page'.reading = NoRender
    BY <1>3 DEF Visit, NoPage
  <2> QED
    BY <2>1, <1>b DEF RendersAgain, NeverGoesBack, OnItsWay
<1>4. CASE OpenStream \/ Stream \/ Subscribed \/ Refresh
  <2>1. page.open /\ page'.shown = page.shown /\ page'.heard = page.heard /\ page'.reading = page.reading
        /\ (page.timer \/ page.asked => page'.timer \/ page'.asked)
        /\ UNCHANGED <<change, unsent, wire, missed>>
    BY <1>4 DEF OpenStream, Stream, Subscribed, Refresh
  <2> QED
    BY <1>c, <2>1 DEF RendersAgain, NeverGoesBack, OnItsWay
<1>5. CASE Drop
  <2>1. page.open /\ page'.shown = page.shown /\ page'.heard = page.heard /\ page'.reading = page.reading
        /\ page'.timer = page.timer /\ page'.asked = page.asked
        /\ UNCHANGED <<change, unsent>> /\ wire \cup missed \subseteq missed'
    BY <1>5 DEF Drop, Broken
  <2> QED
    BY <1>c, <2>1 DEF RendersAgain, NeverGoesBack, OnItsWay
<1>6. CASE Leave
  BY <1>6 DEF Leave, NoPage
<1>7. ASSUME NEW d \in wire, Hear(d)
      PROVE  RendersAgain' /\ NeverGoesBack' /\ \A c \in 1..change' : OnItsWay(c)'
  <2>1. page.open /\ page'.timer /\ page'.shown = page.shown /\ page'.reading = page.reading
        /\ page'.heard = Max({page.heard, d}) /\ wire' = wire \ {d} /\ UNCHANGED <<change, unsent, missed>>
    BY <1>7 DEF Hear, ScheduleRefresh
  <2>2. RendersAgain' /\ NeverGoesBack'
    BY <1>c, <2>1 DEF RendersAgain, NeverGoesBack
  <2>3. d \in Int
    OBVIOUS
  <2>4. page'.heard \in Int /\ page'.heard >= page.heard /\ page'.heard >= d
    <3> DEFINE latest == Max({page.heard, d})
    <3>1. latest \in {page.heard, d} /\ latest >= page.heard /\ latest >= d
      BY <2>3, <1>b, MaxOfTwo
    <3>2. page'.heard = latest
      BY <2>1
    <3> HIDE DEF latest
    <3> QED
      BY <2>3, <1>b, <3>1, <3>2
  <2>5. ASSUME NEW c \in 1..change
        PROVE  OnItsWay(c)'
    BY <1>b, <1>c, <2>1, <2>3, <2>4 DEF OnItsWay
  <2> QED
    BY <2>1, <2>2, <2>5
<1>8. CASE Render
  <2>1. page.open /\ page'.shown = page.shown /\ page'.heard = page.heard /\ page'.reading = change
        /\ UNCHANGED <<change, unsent, wire, missed>>
    BY <1>8 DEF Render
  <2> QED
    BY <1>c, <2>1 DEF RendersAgain, NeverGoesBack, OnItsWay
<1>9. CASE Show
  <2>1. page.open /\ page'.shown = page.reading /\ page'.heard = page.heard /\ page'.reading = NoRender
        /\ page'.timer = page.timer /\ page'.asked = page.asked /\ page.reading >= page.shown
        /\ UNCHANGED <<change, unsent, wire, missed>>
    BY <1>9, <1>c DEF Show, NeverGoesBack
  <2>2. RendersAgain' /\ NeverGoesBack'
    BY <1>c, <2>1 DEF RendersAgain, NeverGoesBack
  <2>3. ASSUME NEW c \in 1..change
        PROVE  OnItsWay(c)'
    BY <1>b, <1>c, <2>1 DEF OnItsWay
  <2> QED
    BY <2>1, <2>2, <2>3
<1>10. CASE UNCHANGED lvars
  BY <1>c, <1>10 DEF lvars, RendersAgain, NeverGoesBack, OnItsWay
<1> QED
  BY <1>1, <1>2, <1>3, <1>4, <1>5, <1>6, <1>7, <1>8, <1>9, <1>10 DEF LiveNext

\* However events, refreshes, broken streams and visits fall, an open page comes to show
\* what it heard of and never goes back, and no change it has not shown is lost but by a
\* stream that was not there (LiveUpdates, subscribeUserEvents).
THEOREM PageAlwaysCatchesUp == LiveSpec => []PageCatchesUp
<1>1. LiveType /\ Known /\ PageCatchesUp /\ [LiveNext]_lvars => (LiveType /\ Known /\ PageCatchesUp)'
  BY LiveTypeNext, PageStep
<1> QED
  BY <1>1, LiveTypeInit, PTL DEF LiveSpec

-----------------------------------------------------------------------------
(* The desk: one of its parts moves, and the others stay as they are.      *)

DeskInvariant == ReasonInvariant /\ LiveType /\ Known

LEMMA DeskStart == DeskInit => DeskInvariant
BY ReasonStart, LiveTypeInit DEF DeskInit, DeskInvariant

LEMMA DeskStep == DeskInvariant /\ [DeskNext]_<<part, svars, bvars, lvars>> => DeskInvariant'
<1> SUFFICES ASSUME DeskInvariant, [DeskNext]_<<part, svars, bvars, lvars>> PROVE DeskInvariant'
  OBVIOUS
<1>1. [SessionsNext]_svars /\ [LiveNext]_lvars
  BY DEF DeskNext
<1> QED
  BY <1>1, ReasonStep, LiveTypeNext DEF DeskInvariant

\* Whatever fails, is dropped or is overtaken, a call waits for, and is handed, only a connection
\* that is open or being opened, and an account at the provider is named by a row or a call, as
\* long as nobody looked for it in vain (connection, connectAccount).
THEOREM ConnectionsAlwaysHold == DeskSpec => []ConnectionsHold
<1>1. DeskInvariant => ConnectionsHold
  BY SessionsKeep DEF DeskInvariant, ReasonInvariant, ConnectionsHold
<1> QED
  BY <1>1, DeskStart, DeskStep, PTL DEF DeskSpec

\* For any number of members, requests and sweeps, however they overlap and whatever throws: an
\* account they have all switched off is stopped, or the page of one of them says that it is not;
\* the exceptions are those starts the property names (setAccountEnabled, providerMismatch).
THEOREM DisabledAlwaysStoppedOrSaid == DeskSpec => []DisabledIsStoppedOrSaid
<1>1. DeskInvariant => DisabledIsStoppedOrSaid
  BY ReasonSuffices DEF DeskInvariant
<1> QED
  BY <1>1, DeskStart, DeskStep, PTL DEF DeskSpec

-----------------------------------------------------------------------------
(* Sums over finite sets.  Induction over a set is the choice of a smallest *)
(* counterexample among its subsets.                                        *)

LEMMA Smallest ==
  ASSUME NEW S, IsFiniteSet(S), NEW T \in SUBSET SUBSET S, T # {}
  PROVE  \E x \in T : \A y \in T : y \subseteq x => y = x
<1> DEFINE R == StrictSubsetOrdering(S)
<1>1. IsWellFoundedOn(R, SUBSET S)
  BY FS_StrictSubsetOrderingWellFounded, FS_FiniteSubsetsOfFinite
<1>2. \E x \in T : \A y \in T : ~(<<y, x>> \in R)
  <2> HIDE DEF R
  <2> QED
    BY <1>1, WFMin
<1>3. PICK x \in T : \A y \in T : ~(<<y, x>> \in R)
  BY <1>2
<1>4. ASSUME NEW y \in T, y \subseteq x, y # x PROVE FALSE
  <2>1. <<y, x>> \in R
    BY <1>4 DEF StrictSubsetOrdering
  <2> QED
    BY <1>3, <2>1
<1> QED
  BY <1>4

\* The function by which the library's fold adds up f over every subset of a set.
Pick(s) == CHOOSE x \in s : TRUE
Adds(f, S, h) == h = [s \in SUBSET S |-> IF s = {} THEN 0 ELSE f[Pick(s)] + h[s \ {Pick(s)}]]
Total(f, S) == SumFunctionOnSet(f, S)

Part(s, S) == s \subseteq S

LEMMA TotalIsChosen == \A f, S : Total(f, S) = (CHOOSE h : Adds(f, S, h))[S]
BY DEF Total, SumFunctionOnSet, FoldFunctionOnSet, MapThenFoldSet, Adds, Pick

\* What h gives for s, from what it gives for a part of s.
AddsNone(h, s) == h[s] = 0
AddsNext(f, h, s) == h[s] = f[Pick(s)] + h[s \ {Pick(s)}]

LEMMA Adding ==
  \A f, S, h, s : Adds(f, S, h) /\ Part(s, S) => (s = {} => AddsNone(h, s)) /\ (s # {} => AddsNext(f, h, s))
<1> SUFFICES ASSUME NEW f, NEW S, NEW h, Adds(f, S, h), NEW s \in SUBSET S
             PROVE  (s = {} => AddsNone(h, s)) /\ (s # {} => AddsNext(f, h, s))
  BY DEF Part
<1>1. h[s] = IF s = {} THEN 0 ELSE f[Pick(s)] + h[s \ {Pick(s)}]
  BY DEF Adds
<1> QED
  BY <1>1 DEF AddsNone, AddsNext

LEMMA Picked == ASSUME NEW s, s # {} PROVE Pick(s) \in s
BY DEF Pick

\* There is one such function.
LEMMA AddsOnce ==
  ASSUME NEW S, IsFiniteSet(S), NEW f, NEW g, NEW h, NEW U \in SUBSET S, Adds(f, S, g), Adds(f, U, h),
         NEW u \in SUBSET U
  PROVE  g[u] = h[u]
<1> DEFINE T == {s \in SUBSET U : g[s] # h[s]}
<1>1. SUFFICES ASSUME T # {} PROVE FALSE
  OBVIOUS
<1>2. PICK s \in T : \A y \in T : y \subseteq s => y = s
  <2>1. T \in SUBSET SUBSET U
    OBVIOUS
  <2>2. IsFiniteSet(U)
    BY FS_Subset
  <2> HIDE DEF T
  <2> QED
    BY <1>1, <2>1, <2>2, Smallest
<1>3. s # {}
  <2>1. ASSUME s = {} PROVE FALSE
    <3>1. Adds(f, S, g) /\ Adds(f, U, h) /\ Part(s, S) /\ Part(s, U)
      BY DEF Part
    <3>2. AddsNone(g, s) /\ AddsNone(h, s)
      BY ONLY <2>1, <3>1, Adding
    <3> QED
      BY <1>2, <3>2 DEF AddsNone
  <2> QED
    BY <2>1
<1>4. s \ {Pick(s)} \subseteq s /\ s \ {Pick(s)} # s /\ s \ {Pick(s)} \in SUBSET U
  BY <1>3, Picked
<1>5. g[s \ {Pick(s)}] = h[s \ {Pick(s)}]
  BY <1>2, <1>4
<1>6. s \in SUBSET S /\ s \in SUBSET U
  OBVIOUS
<1>7. Adds(f, S, g) /\ Adds(f, U, h) /\ Part(s, S) /\ Part(s, U) /\ s # {}
  BY <1>3, <1>6 DEF Part
<1>8. AddsNext(f, g, s) /\ AddsNext(f, h, s)
  BY ONLY <1>7, Adding
<1> QED
  BY <1>2, <1>5, <1>8 DEF AddsNext

LEMMA AddsIs ==
  ASSUME NEW S, IsFiniteSet(S), NEW f
  PROVE  \E h : Adds(f, S, h)
<1> DEFINE T == {s \in SUBSET S : ~\E h : Adds(f, s, h)}
<1>1. SUFFICES ASSUME T # {} PROVE FALSE
  OBVIOUS
<1>2. PICK s \in T : \A y \in T : y \subseteq s => y = s
  <2>1. T \in SUBSET SUBSET S
    OBVIOUS
  <2> HIDE DEF T
  <2> QED
    BY <1>1, <2>1, Smallest
<1>3. \A u \in SUBSET s : u # s => \E h : Adds(f, u, h)
  BY <1>2
<1> DEFINE Of(u) == CHOOSE h : Adds(f, u, h)
<1>4. \A u \in SUBSET s : u # s => Adds(f, u, Of(u))
  BY <1>3
<1>5. \A u \in SUBSET s : \A w \in SUBSET u : u # s => Of(u)[w] = Of(w)[w]
  <2> TAKE u \in SUBSET s
  <2> TAKE w \in SUBSET u
  <2> HAVE u # s
  <2>1. w # s /\ w \in SUBSET s /\ IsFiniteSet(u)
    BY <1>2, FS_Subset
  <2>2. Adds(f, u, Of(u)) /\ Adds(f, w, Of(w))
    BY <1>4, <2>1
  <2> HIDE DEF Of
  <2> QED
    BY <2>1, <2>2, AddsOnce
<1> DEFINE h == [u \in SUBSET s |-> IF u = {} THEN 0 ELSE f[Pick(u)] + Of(u \ {Pick(u)})[u \ {Pick(u)}]]
<1>6. \A u \in SUBSET s : u # s => h[u] = Of(u)[u]
  <2> TAKE u \in SUBSET s
  <2> HAVE u # s
  <2>1. Adds(f, u, Of(u)) /\ u \in SUBSET u
    BY <1>4
  <2>2. Of(u)[u] = IF u = {} THEN 0 ELSE f[Pick(u)] + Of(u)[u \ {Pick(u)}]
    <3> HIDE DEF Of
    <3>1. Adds(f, u, Of(u)) /\ Part(u, u)
      BY <2>1 DEF Part
    <3>2. (u = {} => AddsNone(Of(u), u)) /\ (u # {} => AddsNext(f, Of(u), u))
      BY ONLY <3>1, Adding
    <3> QED
      BY <3>2 DEF AddsNone, AddsNext
  <2>3. Of(u)[u \ {Pick(u)}] = Of(u \ {Pick(u)})[u \ {Pick(u)}]
    <3> HIDE DEF Of
    <3> QED
      BY <1>5
  <2> HIDE DEF Of
  <2> QED
    BY <2>2, <2>3
<1>7. \A u \in SUBSET s : u # {} => h[u] = f[Pick(u)] + h[u \ {Pick(u)}]
  <2> TAKE u \in SUBSET s
  <2> HAVE u # {}
  <2>1. u \ {Pick(u)} \in SUBSET s /\ u \ {Pick(u)} # s
    BY Picked
  <2>2. h[u \ {Pick(u)}] = Of(u \ {Pick(u)})[u \ {Pick(u)}]
    BY <1>6, <2>1
  <2> QED
    BY <2>2
<1>8. Adds(f, s, h)
  <2>1. \A u \in SUBSET s : h[u] = IF u = {} THEN 0 ELSE f[Pick(u)] + h[u \ {Pick(u)}]
    <3> TAKE u \in SUBSET s
    <3>1. CASE u = {}
      BY <3>1
    <3>2. CASE u # {}
      <4> HIDE DEF h
      <4> QED
        BY <1>7, <3>2
    <3> QED
      BY <3>1, <3>2
  <2>2. h = [u \in SUBSET s |-> h[u]]
    OBVIOUS
  <2> HIDE DEF h
  <2> QED
    BY <2>1, <2>2 DEF Adds
<1> QED
  BY <1>2, <1>8

LEMMA TotalByPick ==
  ASSUME NEW S, IsFiniteSet(S), NEW f
  PROVE  Total(f, S) = IF S = {} THEN 0 ELSE f[Pick(S)] + Total(f, S \ {Pick(S)})
<1> DEFINE Of(u) == CHOOSE h : Adds(f, u, h)
<1>1. Adds(f, S, Of(S)) /\ Total(f, S) = Of(S)[S]
  BY AddsIs, TotalIsChosen
<1>2. CASE S = {}
  <2> HIDE DEF Of
  <2>1. Adds(f, S, Of(S)) /\ Part(S, S) /\ S = {}
    BY <1>1, <1>2 DEF Part
  <2>2. AddsNone(Of(S), S)
    BY ONLY <2>1, Adding
  <2> QED
    BY <1>1, <1>2, <2>2 DEF AddsNone
<1>3. CASE S # {}
  <2> DEFINE U == S \ {Pick(S)}
  <2>1. U \in SUBSET S /\ IsFiniteSet(U)
    BY FS_Subset
  <2>2. Adds(f, U, Of(U)) /\ Total(f, U) = Of(U)[U]
    BY <2>1, AddsIs, TotalIsChosen
  <2> HIDE DEF Of
  <2>3. Of(S)[U] = Of(U)[U]
    BY <1>1, <2>1, <2>2, AddsOnce
  <2>4. Of(S)[S] = f[Pick(S)] + Of(S)[U]
    <3>1. Adds(f, S, Of(S)) /\ Part(S, S) /\ S # {}
      BY <1>1, <1>3 DEF Part
    <3>2. AddsNext(f, Of(S), S)
      BY ONLY <3>1, Adding
    <3> QED
      BY <3>2 DEF AddsNext
  <2> QED
    BY <1>1, <1>3, <2>2, <2>3, <2>4
<1> QED
  BY <1>2, <1>3

\* Functions that agree on a set have the same total over it.
LEMMA TotalsAgree ==
  ASSUME NEW S, NEW f, NEW g, \A x \in S : f[x] = g[x]
  PROVE  Total(f, S) = Total(g, S)
<1>1. ASSUME NEW h PROVE Adds(f, S, h) <=> Adds(g, S, h)
  <2>1. [s \in SUBSET S |-> IF s = {} THEN 0 ELSE f[Pick(s)] + h[s \ {Pick(s)}]]
          = [s \in SUBSET S |-> IF s = {} THEN 0 ELSE g[Pick(s)] + h[s \ {Pick(s)}]]
    BY Picked
  <2> QED
    BY <2>1 DEF Adds
<1>2. (CHOOSE h : Adds(f, S, h)) = (CHOOSE h : Adds(g, S, h))
  BY <1>1
<1> QED
  BY <1>2, TotalIsChosen

LEMMA TotalType ==
  ASSUME NEW S, IsFiniteSet(S), NEW f, \A x \in S : f[x] \in Int
  PROVE  Total(f, S) \in Int
<1> DEFINE T == {s \in SUBSET S : Total(f, s) \notin Int}
<1>1. SUFFICES ASSUME T # {} PROVE FALSE
  OBVIOUS
<1>2. PICK s \in T : \A y \in T : y \subseteq s => y = s
  <2>1. T \in SUBSET SUBSET S
    OBVIOUS
  <2> HIDE DEF T
  <2> QED
    BY <1>1, <2>1, Smallest
<1>3. IsFiniteSet(s)
  BY <1>2, FS_Subset
<1>4. Total(f, s) = IF s = {} THEN 0 ELSE f[Pick(s)] + Total(f, s \ {Pick(s)})
  BY <1>3, TotalByPick
<1>5. s # {}
  BY <1>2, <1>4
<1>6. Pick(s) \in s /\ s \ {Pick(s)} \in SUBSET S /\ s \ {Pick(s)} # s
  BY <1>2, <1>5, Picked
<1>7. Total(f, s \ {Pick(s)}) \in Int /\ f[Pick(s)] \in Int
  BY <1>2, <1>6
<1> QED
  BY <1>2, <1>4, <1>5, <1>7

\* Any element may be taken out first.
LEMMA TakeOut ==
  ASSUME NEW S, IsFiniteSet(S), NEW f, \A x \in S : f[x] \in Int, NEW y \in S
  PROVE  Total(f, S) = f[y] + Total(f, S \ {y})
<1> DEFINE T == {s \in SUBSET S : \E x \in s : Total(f, s) # f[x] + Total(f, s \ {x})}
<1>1. SUFFICES ASSUME T # {} PROVE FALSE
  OBVIOUS
<1>2. PICK s \in T : \A u \in T : u \subseteq s => u = s
  <2>1. T \in SUBSET SUBSET S
    OBVIOUS
  <2> HIDE DEF T
  <2> QED
    BY <1>1, <2>1, Smallest
<1>3. PICK x \in s : Total(f, s) # f[x] + Total(f, s \ {x})
  BY <1>2
<1> DEFINE p == Pick(s)
<1>4. p \in s /\ s \in SUBSET S
  BY <1>2, <1>3, Picked
<1>5. /\ IsFiniteSet(s) /\ IsFiniteSet(s \ {p}) /\ IsFiniteSet(s \ {x}) /\ IsFiniteSet((s \ {p}) \ {x})
  BY <1>4, FS_Subset
<1>6. Total(f, s) = f[p] + Total(f, s \ {p})
  BY <1>4, <1>5, TotalByPick
<1> HIDE DEF p
<1>7. x # p
  BY <1>3, <1>6
<1>8. s \ {p} \notin T /\ s \ {x} \notin T
  BY <1>2, <1>3, <1>4
<1>9. Total(f, s \ {p}) = f[x] + Total(f, (s \ {p}) \ {x})
  BY <1>3, <1>4, <1>7, <1>8
<1>10. Total(f, s \ {x}) = f[p] + Total(f, (s \ {x}) \ {p})
  BY <1>3, <1>4, <1>7, <1>8
<1>11. (s \ {x}) \ {p} = (s \ {p}) \ {x}
  OBVIOUS
<1>12. f[x] \in Int /\ f[p] \in Int /\ Total(f, (s \ {p}) \ {x}) \in Int
  BY <1>3, <1>4, <1>5, TotalType
<1> DEFINE a == f[x]  b == f[p]  c == Total(f, (s \ {p}) \ {x})
<1>13. Total(f, s) = b + (a + c) /\ f[x] + Total(f, s \ {x}) = a + (b + c)
  BY <1>6, <1>9, <1>10, <1>11
<1>14. a \in Int /\ b \in Int /\ c \in Int
  BY <1>12
<1> HIDE DEF a, b, c
<1>15. b + (a + c) = a + (b + c)
  BY <1>14
<1> QED
  BY <1>3, <1>13, <1>15

LEMMA TotalOfNone == ASSUME NEW f PROVE Total(f, {}) = 0
BY FS_EmptySet, TotalByPick

LEMMA TotalOfOne ==
  ASSUME NEW f, NEW x, f[x] \in Int
  PROVE  Total(f, {x}) = f[x]
<1>1. Total(f, {x}) = f[x] + Total(f, {x} \ {x})
  BY FS_Singleton, TakeOut
<1>2. {x} \ {x} = {}
  OBVIOUS
<1> QED
  BY <1>1, <1>2, TotalOfNone

LEMMA TotalOfZeros ==
  ASSUME NEW S, IsFiniteSet(S), NEW f, \A x \in S : f[x] = 0
  PROVE  Total(f, S) = 0
<1> DEFINE T == {s \in SUBSET S : Total(f, s) # 0}
<1>1. SUFFICES ASSUME T # {} PROVE FALSE
  OBVIOUS
<1>2. PICK s \in T : \A y \in T : y \subseteq s => y = s
  <2>1. T \in SUBSET SUBSET S
    OBVIOUS
  <2> HIDE DEF T
  <2> QED
    BY <1>1, <2>1, Smallest
<1>3. IsFiniteSet(s) /\ s # {}
  BY <1>2, FS_Subset, TotalOfNone
<1>4. Pick(s) \in s /\ s \ {Pick(s)} \in SUBSET S /\ s \ {Pick(s)} # s
  BY <1>2, <1>3, Picked
<1>5. Total(f, s) = f[Pick(s)] + Total(f, s \ {Pick(s)})
  BY <1>3, TotalByPick
<1> QED
  BY <1>2, <1>4, <1>5

\* The parts of a set that share nothing add up to it.
LEMMA TotalOfBoth ==
  ASSUME NEW A, IsFiniteSet(A), NEW B, IsFiniteSet(B), A \cap B = {}, NEW f, \A x \in A \cup B : f[x] \in Int
  PROVE  Total(f, A \cup B) = Total(f, A) + Total(f, B)
<1> DEFINE T == {s \in SUBSET B : Total(f, A \cup s) # Total(f, A) + Total(f, s)}
<1>1. SUFFICES ASSUME T # {} PROVE FALSE
  OBVIOUS
<1>2. PICK s \in T : \A y \in T : y \subseteq s => y = s
  <2>1. T \in SUBSET SUBSET B
    OBVIOUS
  <2> HIDE DEF T
  <2> QED
    BY <1>1, <2>1, Smallest
<1>3. /\ IsFiniteSet(s) /\ IsFiniteSet(A \cup s) /\ Total(f, A) \in Int
  BY <1>2, FS_Subset, FS_Union, TotalType
<1>4. CASE s = {}
  <2>1. A \cup s = A
    BY <1>4
  <2> QED
    BY <1>2, <1>3, <1>4, <2>1, TotalOfNone
<1>5. CASE s # {}
  <2> DEFINE p == Pick(s)
  <2>1. p \in s /\ s \ {p} \in SUBSET B /\ s \ {p} # s /\ (A \cup s) \ {p} = A \cup (s \ {p}) /\ p \in A \cup s
    BY <1>2, <1>5, Picked
  <2> HIDE DEF p
  <2>2. Total(f, A \cup (s \ {p})) = Total(f, A) + Total(f, s \ {p})
    BY <1>2, <2>1
  <2>3. \A x \in A \cup s : f[x] \in Int
    BY <1>2
  <2>4. Total(f, A \cup s) = f[p] + Total(f, A \cup (s \ {p}))
    BY <1>3, <2>1, <2>3, TakeOut
  <2>5. Total(f, s) = f[p] + Total(f, s \ {p})
    BY <1>3, <2>1, <2>3, TakeOut
  <2>6. f[p] \in Int /\ Total(f, s \ {p}) \in Int
    BY <1>3, <2>1, <2>3, FS_Subset, TotalType
  <2> QED
    BY <1>2, <1>3, <2>2, <2>4, <2>5, <2>6
<1> QED
  BY <1>4, <1>5

\* The parts F[r] are apart, and g[r] is what f adds up to on F[r].
AddsParts(g, R, f, F) ==
  /\ IsFiniteSet(R)
  /\ \A r \in R : IsFiniteSet(F[r]) /\ g[r] = Total(f, F[r]) /\ \A x \in F[r] : f[x] \in Int
  /\ \A q, r \in R : q # r => F[q] \cap F[r] = {}

LEMMA TotalOfParts ==
  ASSUME NEW g, NEW R, NEW f, NEW F, AddsParts(g, R, f, F)
  PROVE  /\ IsFiniteSet(UNION {F[r] : r \in R})
         /\ Total(g, R) = Total(f, UNION {F[r] : r \in R})
<1>p. /\ IsFiniteSet(R) /\ \A r \in R : IsFiniteSet(F[r]) /\ g[r] = Total(f, F[r])
      /\ \A q, r \in R : q # r => F[q] \cap F[r] = {}
      /\ \A r \in R : \A x \in F[r] : f[x] \in Int
  BY DEF AddsParts
<1> DEFINE Parts(s) == UNION {F[r] : r \in s}
           T == {s \in SUBSET R : ~(IsFiniteSet(Parts(s)) /\ Total(g, s) = Total(f, Parts(s)))}
<1>1. SUFFICES ASSUME T # {} PROVE FALSE
  OBVIOUS
<1>2. PICK s \in T : \A y \in T : y \subseteq s => y = s
  <2>1. T \in SUBSET SUBSET R
    OBVIOUS
  <2> HIDE DEF T
  <2> QED
    BY <1>p, <1>1, <2>1, Smallest
<1>3. IsFiniteSet(s) /\ s \in SUBSET R /\ ~(IsFiniteSet(Parts(s)) /\ Total(g, s) = Total(f, Parts(s)))
  BY <1>p, <1>2, FS_Subset
<1>4. s # {}
  BY <1>3, TotalOfNone, FS_EmptySet
<1> DEFINE p == Pick(s)
           u == s \ {p}
<1>5. p \in s /\ u \in SUBSET R /\ u # s /\ u \subseteq s
  BY <1>3, <1>4, Picked
<1>6. IsFiniteSet(Parts(u)) /\ Total(g, u) = Total(f, Parts(u))
  <2>1. u \notin T
    BY <1>2, <1>5
  <2> HIDE DEF Parts, u
  <2> QED
    BY <1>5, <2>1
<1>7. Total(g, s) = g[p] + Total(g, u)
  BY <1>3, <1>4, TotalByPick
<1>8. Parts(s) = F[p] \cup Parts(u) /\ F[p] \cap Parts(u) = {}
  <2>1. s = u \cup {p} /\ p \notin u
    BY <1>5
  <2>2. p \in R /\ \A r \in u : F[p] \cap F[r] = {}
    BY <1>p, <1>3, <1>5, <2>1
  <2> HIDE DEF p, u
  <2> QED
    BY <2>1, <2>2
<1>9. \A x \in F[p] \cup Parts(u) : f[x] \in Int
  BY <1>p, <1>3, <1>5
<1>10. IsFiniteSet(F[p]) /\ g[p] = Total(f, F[p])
  BY <1>p, <1>3, <1>5
<1> HIDE DEF p, u, Parts
<1>11. IsFiniteSet(Parts(s)) /\ Total(f, Parts(s)) = Total(f, F[p]) + Total(f, Parts(u))
  <2>1. IsFiniteSet(F[p] \cup Parts(u))
    BY <1>6, <1>10, FS_Union
  <2>2. Total(f, F[p] \cup Parts(u)) = Total(f, F[p]) + Total(f, Parts(u))
    BY <1>6, <1>8, <1>9, <1>10, TotalOfBoth
  <2> QED
    BY <1>8, <2>1, <2>2
<1> QED
  BY <1>3, <1>6, <1>7, <1>10, <1>11

LEMMA Greatest ==
  ASSUME NEW S, IsFiniteSet(S), S # {}, \A x \in S : x \in Int
  PROVE  \E x \in S : \A y \in S : y <= x
<1> DEFINE Past(x) == {y \in S : y > x}
           T == {s \in SUBSET S : \E x \in S : s = Past(x)}
<1>1. PICK t \in T : \A u \in T : u \subseteq t => u = t
  <2>1. T \in SUBSET SUBSET S
    OBVIOUS
  <2>2. T # {}
    <3>1. PICK x \in S : TRUE
      OBVIOUS
    <3>2. Past(x) \in T
      OBVIOUS
    <3> HIDE DEF T
    <3> QED
      BY <3>2
  <2> HIDE DEF T
  <2> QED
    BY <2>1, <2>2, Smallest
<1>2. PICK x \in S : t = Past(x)
  OBVIOUS
<1>3. ASSUME NEW z \in S, z > x PROVE FALSE
  <2>1. Past(z) \in T
    OBVIOUS
  <2>2. z \in Past(x) /\ z \notin Past(z)
    BY <1>3
  <2>3. ASSUME NEW y \in Past(z) PROVE y \in Past(x)
    <3>1. y \in Int /\ z \in Int /\ x \in Int /\ y > z /\ y \in S
      OBVIOUS
    <3>2. y > x
      BY <1>3, <3>1
    <3> QED
      BY <3>1, <3>2
  <2>4. Past(z) \subseteq Past(x)
    BY <2>3
  <2> HIDE DEF T, Past
  <2> QED
    BY <1>1, <1>2, <2>1, <2>2, <2>4
<1> QED
  BY <1>3

LEMMA Least ==
  ASSUME NEW S, IsFiniteSet(S), S # {}, \A x \in S : x \in Int
  PROVE  \E x \in S : \A y \in S : x <= y
<1> DEFINE Past(x) == {y \in S : y < x}
           T == {s \in SUBSET S : \E x \in S : s = Past(x)}
<1>1. PICK t \in T : \A u \in T : u \subseteq t => u = t
  <2>1. T \in SUBSET SUBSET S
    OBVIOUS
  <2>2. T # {}
    <3>1. PICK x \in S : TRUE
      OBVIOUS
    <3>2. Past(x) \in T
      OBVIOUS
    <3> HIDE DEF T
    <3> QED
      BY <3>2
  <2> HIDE DEF T
  <2> QED
    BY <2>1, <2>2, Smallest
<1>2. PICK x \in S : t = Past(x)
  OBVIOUS
<1>3. ASSUME NEW z \in S, z < x PROVE FALSE
  <2>1. Past(z) \in T
    OBVIOUS
  <2>2. z \in Past(x) /\ z \notin Past(z)
    BY <1>3
  <2>3. ASSUME NEW y \in Past(z) PROVE y \in Past(x)
    <3>1. y \in Int /\ z \in Int /\ x \in Int /\ y < z /\ y \in S
      OBVIOUS
    <3>2. y < x
      BY <1>3, <3>1
    <3> QED
      BY <3>1, <3>2
  <2>4. Past(z) \subseteq Past(x)
    BY <2>3
  <2> HIDE DEF T, Past
  <2> QED
    BY <1>1, <1>2, <2>1, <2>2, <2>4
<1> QED
  BY <1>3

\* A set of numbers up to a bound has a greatest and a least.
LEMMA Extremes ==
  ASSUME NEW n \in Nat, NEW S \in SUBSET (1..n), S # {}
  PROVE  /\ Max(S) \in S /\ \A y \in S : y <= Max(S)
         /\ Min(S) \in S /\ \A y \in S : Min(S) <= y
<1>1. IsFiniteSet(S) /\ \A x \in S : x \in Int
  <2> DEFINE I == 1..n
  <2>1. IsFiniteSet(I) /\ S \in SUBSET I /\ \A x \in S : x \in Int
    BY FS_Interval
  <2> HIDE DEF I
  <2> QED
    BY <2>1, FS_Subset
<1>2. \E x \in S : \A y \in S : x >= y
  BY <1>1, Greatest
<1>3. \E x \in S : \A y \in S : x <= y
  BY <1>1, Least
<1> QED
  BY <1>2, <1>3 DEF Max, Min

-----------------------------------------------------------------------------
(* The book of an account.                                                 *)

Simulated == venue.provider = "mock"
SideOf(entry, side) == IF entry = "IN" THEN side ELSE Opposite(side)

\* Every deal is of a position, on its side; who is closed has a closing deal; and what opened
\* a position comes before what closes it, unless positions are netted.
DealsKnown ==
  /\ \A i \in 1..Now : deal[i].ticket \in 1..Issued /\ deal[i].side = SideOf(deal[i].entry, position[deal[i].ticket].side)
  /\ \A t \in 1..Issued : position[t].volume = 0 => Exits(t, Now) # {}
  /\ ~venue.netting => \A i, j \in 1..Now :
       deal[i].ticket = deal[j].ticket /\ deal[i].entry = "IN" /\ deal[j].entry = "OUT" => i < j
  /\ Simulated => reported = Now /\ \A i \in 1..Now : deal[i].entry = "IN" => deal[i].money = 0

\* A copy names positions of its side: the one it holds, and those before it, which are closed.
Ever(m) == copy[m].status # "none"
CopyKnown(m) ==
  /\ ~Ever(m) => copy[m] = NoCopy
  /\ Ever(m) => /\ copy[m].ticket \in 1..Issued /\ copy[m].side = position[copy[m].ticket].side
                /\ \A t \in copy[m].ticketHistory :
                     /\ t \in 1..Issued /\ position[t].volume = 0
                     /\ \A i \in Exits(t, Now), j \in Exits(copy[m].ticket, Now) : i < j
  /\ copy[m].status = "CLOSED" => position[copy[m].ticket].volume = 0

\* What was read of a closed copy: all its closing deals, or none.
LastDeals(t) == IF Simulated THEN {Max(Exits(t, Now))} ELSE OfTicket(t, Now)
ResultKnown(m) ==
  copy[m].status = "CLOSED" /\ m \notin early =>
    /\ \A t \in Held(m) : \A i \in Exits(t, Now) : i <= copy[m].closedAt
    /\ copy[m].known => copy[m].profit = Money(LastDeals(copy[m].ticket))

\* Two copies share a position only where positions are netted.
Apart(m, n) == m # n /\ Ever(m) /\ Ever(n) /\ ~venue.netting => Held(m) \cap Held(n) = {}

BookInvariant ==
  /\ BookType /\ DealsKnown
  /\ \A m \in Copies : CopyKnown(m) /\ ResultKnown(m)
  /\ \A m, n \in Copies : Apart(m, n)

LEMMA BookStart == BookInit => BookInvariant
<1> SUFFICES ASSUME BookInit PROVE BookInvariant
  OBVIOUS
<1>1. Len(position) = 0 /\ Len(deal) = 0 /\ reported = 0 /\ position \in Seq(PositionType) /\ deal \in Seq(DealType)
  BY DEF BookInit
<1>2. \A m \in Copies : copy[m] = NoCopy
  BY DEF BookInit
<1>3. NoCopy \in CopyType
  BY BookAssumption DEF NoCopy, CopyType, Sides, Tickets
<1>4. BookType
  <2>1. copy \in [Copies -> CopyType]
    BY <1>3 DEF BookInit
  <2> QED
    BY <1>1, <2>1, BookAssumption DEF BookInit, BookType, Issued, Now
<1>5. DealsKnown
  BY <1>1 DEF DealsKnown, Issued, Now
<1>6. \A m \in Copies : CopyKnown(m) /\ ResultKnown(m)
  BY <1>2 DEF CopyKnown, ResultKnown, Ever, NoCopy
<1>7. \A m, n \in Copies : Apart(m, n)
  BY <1>2 DEF Apart, Ever, NoCopy
<1> QED
  BY <1>4, <1>5, <1>6, <1>7 DEF BookInvariant

\* A deal is done: at most one position is new, no closed one comes back, and what is closed
\* now was, or is by this deal.
Trades(d) ==
  /\ position' \in Seq(PositionType) /\ Len(position') \in {Issued, Issued + 1} /\ Len(position') <= MaxTickets
  /\ \A u \in 1..Issued : /\ position'[u].side = position[u].side
                          /\ position[u].volume = 0 => position'[u].volume = 0
  /\ \A u \in 1..Len(position') : position'[u].volume = 0 =>
       (u <= Issued /\ position[u].volume = 0) \/ (u = d.ticket /\ d.entry = "OUT")
  /\ deal' = Append(deal, d) /\ d \in DealType /\ Now + 1 <= MaxDeals
  /\ reported' = IF Simulated THEN Now + 1 ELSE reported
  /\ d.ticket \in 1..Len(position') /\ d.side = SideOf(d.entry, position'[d.ticket].side)
  /\ d.ticket <= Issued => position[d.ticket].volume > 0
  /\ d.entry = "IN" => (Simulated => d.money = 0) /\ (d.ticket = Issued + 1 \/ venue.netting)
  /\ venue' = venue

LEMMA DealTypes ==
  ASSUME BookType
  PROVE  /\ Issued \in Nat /\ Now \in Nat /\ reported \in 0..Now
         /\ \A i \in 1..Now : /\ deal[i] \in DealType /\ deal[i].ticket \in Tickets /\ deal[i].entry \in {"IN", "OUT"}
                              /\ deal[i].volume \in Nat /\ deal[i].money \in Int /\ deal[i].side \in Sides
         /\ \A t \in 1..Issued : position[t] \in PositionType /\ position[t].side \in Sides /\ position[t].volume \in Nat
         /\ \A m \in Copies : copy[m] \in CopyType
<1>1. Issued \in Nat /\ Now \in Nat /\ reported \in 0..Now
  BY DEF BookType, Issued, Now
<1>2. \A i \in 1..Now : deal[i] \in DealType
  BY DEF BookType, Now
<1>3. \A t \in 1..Issued : position[t] \in PositionType
  BY DEF BookType, Issued
<1>4. \A m \in Copies : copy[m] \in CopyType
  BY DEF BookType
<1> QED
  BY <1>1, <1>2, <1>3, <1>4 DEF DealType, PositionType

\* The deals after one more.
LEMMA OneMore ==
  ASSUME BookType, NEW d, Trades(d)
  PROVE  /\ Now' = Now + 1 /\ Now \in Nat /\ deal' \in Seq(DealType)
         /\ deal'[Now + 1] = d /\ \A i \in 1..Now : deal'[i] = deal[i]
         /\ Issued' = Len(position') /\ Issued' \in Nat /\ Issued <= Issued' /\ Issued \in Nat
BY DEF BookType, Trades, Now, Issued

LEMMA ExitsAfter ==
  ASSUME BookType, NEW d, Trades(d), NEW t
  PROVE  /\ Exits(t, Now)' = IF d.ticket = t /\ d.entry = "OUT" THEN Exits(t, Now) \cup {Now + 1} ELSE Exits(t, Now)
         /\ OfTicket(t, Now)' = IF d.ticket = t THEN OfTicket(t, Now) \cup {Now + 1} ELSE OfTicket(t, Now)
         /\ \A n \in 0..Now : {i \in 1..n : deal'[i].ticket = t /\ deal'[i].entry = "OUT"} = Exits(t, n)
         /\ \A n \in 0..Now : {i \in 1..n : deal'[i].ticket = t} = OfTicket(t, n)
<1>1. /\ Now' = Now + 1 /\ Now \in Nat /\ deal'[Now + 1] = d /\ \A i \in 1..Now : deal'[i] = deal[i]
  BY OneMore
<1>2. 1..(Now + 1) = (1..Now) \cup {Now + 1}
  BY <1>1
<1>3. Exits(t, Now)' = {i \in 1..(Now + 1) : deal'[i].ticket = t /\ deal'[i].entry = "OUT"}
  BY <1>1 DEF Exits
<1>4. OfTicket(t, Now)' = {i \in 1..(Now + 1) : deal'[i].ticket = t}
  BY <1>1 DEF OfTicket
<1>5. Exits(t, Now)' = IF d.ticket = t /\ d.entry = "OUT" THEN Exits(t, Now) \cup {Now + 1} ELSE Exits(t, Now)
  BY <1>1, <1>2, <1>3 DEF Exits
<1>6. OfTicket(t, Now)' = IF d.ticket = t THEN OfTicket(t, Now) \cup {Now + 1} ELSE OfTicket(t, Now)
  BY <1>1, <1>2, <1>4 DEF OfTicket
<1>7. ASSUME NEW n \in 0..Now
      PROVE  /\ {i \in 1..n : deal'[i].ticket = t /\ deal'[i].entry = "OUT"} = Exits(t, n)
             /\ {i \in 1..n : deal'[i].ticket = t} = OfTicket(t, n)
  <2>1. \A i \in 1..n : i \in 1..Now
    BY <1>1
  <2> QED
    BY <1>1, <2>1 DEF Exits, OfTicket
<1> QED
  BY <1>5, <1>6, <1>7

LEMMA DealsKept ==
  ASSUME BookType, DealsKnown, NEW d, Trades(d)
  PROVE  DealsKnown' /\ deal' \in Seq(DealType) /\ Issued' <= MaxTickets /\ Now' <= MaxDeals /\ reported' \in 0..Now'
<1>1. /\ Now' = Now + 1 /\ Now \in Nat /\ deal' \in Seq(DealType) /\ deal'[Now + 1] = d /\ \A i \in 1..Now : deal'[i] = deal[i]
      /\ Issued' = Len(position') /\ Issued' \in Nat /\ Issued <= Issued' /\ Issued \in Nat /\ reported \in 0..Now
  BY OneMore, DealTypes
<1>2. \A i \in 1..Now' : i \in 1..Now \/ i = Now + 1
  BY <1>1
<1>3. \A i \in 1..Now' : deal'[i].ticket \in 1..Issued' /\ deal'[i].side = SideOf(deal'[i].entry, position'[deal'[i].ticket].side)
  <2> TAKE i \in 1..Now'
  <2>1. CASE i \in 1..Now
    <3>1. deal'[i] = deal[i] /\ deal[i].ticket \in 1..Issued /\ deal[i].side = SideOf(deal[i].entry, position[deal[i].ticket].side)
      BY <1>1, <2>1 DEF DealsKnown
    <3>2. deal[i].ticket \in 1..Issued' /\ position'[deal[i].ticket].side = position[deal[i].ticket].side
      BY <1>1, <3>1 DEF Trades
    <3> QED
      BY <3>1, <3>2
  <2>2. CASE i = Now + 1
    BY <1>1, <2>2 DEF Trades
  <2> QED
    BY <1>2, <2>1, <2>2
<1>4. ASSUME NEW t \in 1..Issued', position'[t].volume = 0 PROVE Exits(t, Now)' # {}
  <2>1. (t \in 1..Issued /\ position[t].volume = 0) \/ (t = d.ticket /\ d.entry = "OUT")
    BY <1>1, <1>4 DEF Trades
  <2> QED
    BY <2>1, ExitsAfter DEF DealsKnown
<1>5. ASSUME ~venue.netting, NEW i \in 1..Now', NEW j \in 1..Now',
             deal'[i].ticket = deal'[j].ticket, deal'[i].entry = "IN", deal'[j].entry = "OUT"
      PROVE  i < j
  <2>1. CASE i \in 1..Now /\ j \in 1..Now
    BY <1>1, <1>5, <2>1 DEF DealsKnown
  <2>2. CASE i = Now + 1
    <3>1. d.ticket = Issued + 1 /\ j \in 1..Now
      BY <1>1, <1>2, <1>5, <2>2 DEF Trades
    <3>2. deal[j].ticket \in 1..Issued
      BY <3>1 DEF DealsKnown
    <3> QED
      BY <1>1, <1>5, <2>2, <3>1, <3>2
  <2>3. CASE i \in 1..Now /\ j = Now + 1
    BY <1>1, <2>3
  <2> QED
    BY <1>2, <2>1, <2>2, <2>3
<1>6. ASSUME Simulated PROVE reported' = Now' /\ \A i \in 1..Now' : deal'[i].entry = "IN" => deal'[i].money = 0
  <2>1. reported' = Now'
    BY <1>1, <1>6 DEF Trades
  <2>2. d.entry = "IN" => d.money = 0
    BY <1>6 DEF Trades
  <2> QED
    BY <1>1, <1>2, <1>6, <2>1, <2>2 DEF DealsKnown
<1>7. DealsKnown'
  BY <1>3, <1>4, <1>5, <1>6 DEF DealsKnown, Trades, Simulated
<1> QED
  BY <1>1, <1>7 DEF Trades

\* Money is money, and the same when its deals are.
LEMMA MoneyType ==
  ASSUME BookType, NEW S \in SUBSET (1..Now)
  PROVE  Money(S) \in Int /\ IsFiniteSet(S)
<1> DEFINE I == 1..Now
<1>1. IsFiniteSet(I) /\ S \in SUBSET I
  BY DealTypes, FS_Interval
<1>2. IsFiniteSet(S)
  <2> HIDE DEF I
  <2> QED
    BY <1>1, FS_Subset
<1>3. \A i \in S : [j \in S |-> deal[j].money][i] \in Int
  BY DealTypes
<1> QED
  BY <1>2, <1>3, TotalType DEF Money, Total

LEMMA MoneySame ==
  ASSUME BookType, NEW d, Trades(d), NEW S \in SUBSET (1..Now)
  PROVE  SumFunctionOnSet([i \in S |-> deal'[i].money], S) = Money(S)
<1>1. [i \in S |-> deal'[i].money] = [i \in S |-> deal[i].money]
  BY OneMore
<1> QED
  BY <1>1 DEF Money

\* A copy that is left alone by a deal is known as before it.
LEMMA CopyKept ==
  ASSUME BookInvariant, NEW d, Trades(d), NEW m \in Copies, copy'[m] = copy[m], early \subseteq early'
  PROVE  CopyKnown(m)' /\ ResultKnown(m)'
<1>1. /\ BookType /\ CopyKnown(m) /\ ResultKnown(m)
      /\ Now' = Now + 1 /\ Now \in Nat /\ Issued \in Nat /\ Issued' \in Nat /\ Issued <= Issued'
  BY OneMore DEF BookInvariant
<1>2. \A t : Exits(t, Now)' \in {Exits(t, Now), Exits(t, Now) \cup {Now + 1}}
  BY <1>1, ExitsAfter
<1>3. \A t \in 1..Issued : position[t].volume = 0 =>
        position'[t].volume = 0 /\ Exits(t, Now)' = Exits(t, Now) /\ OfTicket(t, Now)' = OfTicket(t, Now)
  <2> TAKE t \in 1..Issued
  <2> HAVE position[t].volume = 0
  <2>1. d.ticket # t
    BY <1>1 DEF Trades
  <2>2. position'[t].volume = 0
    BY DEF Trades
  <2>3. Exits(t, Now)' = Exits(t, Now) /\ OfTicket(t, Now)' = OfTicket(t, Now)
    BY <1>1, <2>1, ExitsAfter
  <2> QED
    BY <2>2, <2>3
<1>4. CopyKnown(m)'
  <2>1. CASE ~Ever(m)
    BY <1>1, <2>1 DEF CopyKnown, Ever, NoCopy
  <2>2. CASE Ever(m)
    <3>1. copy[m].ticket \in 1..Issued' /\ copy[m].side = position'[copy[m].ticket].side
      BY <1>1, <2>2 DEF CopyKnown, Trades
    <3>2. ASSUME NEW t \in copy[m].ticketHistory
          PROVE  t \in 1..Issued' /\ position'[t].volume = 0 /\ \A i \in Exits(t, Now)', j \in Exits(copy[m].ticket, Now)' : i < j
      <4>1. t \in 1..Issued /\ position[t].volume = 0 /\ \A i \in Exits(t, Now), j \in Exits(copy[m].ticket, Now) : i < j
        BY <1>1, <2>2, <3>2 DEF CopyKnown
      <4>2. Exits(t, Now)' = Exits(t, Now) /\ \A i \in Exits(t, Now) : i \in 1..Now
        BY <1>3, <4>1 DEF Exits
      <4>3. \A j \in Exits(copy[m].ticket, Now)' : j \in Exits(copy[m].ticket, Now) \/ j = Now + 1
        BY <1>2
      <4> QED
        BY <1>1, <1>3, <4>1, <4>2, <4>3
    <3>3. copy[m].status = "CLOSED" => position'[copy[m].ticket].volume = 0
      BY <1>1, <1>3, <2>2 DEF CopyKnown
    <3> QED
      BY <2>2, <3>1, <3>2, <3>3 DEF CopyKnown, Ever
  <2> QED
    BY <2>1, <2>2
<1>5. ResultKnown(m)'
  <2> SUFFICES ASSUME copy[m].status = "CLOSED", m \notin early
               PROVE  /\ \A t \in Held(m) : \A i \in Exits(t, Now)' : i <= copy[m].closedAt
                      /\ copy[m].known => copy[m].profit = Money(LastDeals(copy[m].ticket))'
    BY DEF ResultKnown, Held
  <2>1. /\ copy[m].ticket \in 1..Issued /\ position[copy[m].ticket].volume = 0
        /\ \A t \in Held(m) : t \in 1..Issued /\ position[t].volume = 0
    BY <1>1 DEF CopyKnown, Ever, Held
  <2>2. \A t \in Held(m) : Exits(t, Now)' = Exits(t, Now)
    BY <1>3, <2>1
  <2>3. LastDeals(copy[m].ticket)' = LastDeals(copy[m].ticket)
    <3>1. ASSUME NEW t, t = copy[m].ticket PROVE LastDeals(t)' = LastDeals(t)
      BY <1>3, <2>1, <3>1 DEF LastDeals, Simulated, Trades
    <3> QED
      BY <3>1
  <2>4. LastDeals(copy[m].ticket) \in SUBSET (1..Now)
    <3>1. Exits(copy[m].ticket, Now) # {}
      BY <2>1 DEF BookInvariant, DealsKnown
    <3>2. Exits(copy[m].ticket, Now) \in SUBSET (1..Now) /\ OfTicket(copy[m].ticket, Now) \in SUBSET (1..Now)
      BY DEF Exits, OfTicket
    <3>3. Max(Exits(copy[m].ticket, Now)) \in 1..Now
      BY <1>1, <3>1, <3>2, Extremes
    <3> QED
      BY <3>2, <3>3 DEF LastDeals
  <2>5. Money(LastDeals(copy[m].ticket))' = Money(LastDeals(copy[m].ticket))
    BY <1>1, <2>3, <2>4, MoneySame DEF Money
  <2> QED
    BY <1>1, <2>2, <2>5 DEF ResultKnown
<1> QED
  BY <1>4, <1>5

LEMMA WithVolume ==
  ASSUME NEW p \in PositionType, NEW v \in Nat
  PROVE  [p EXCEPT !.volume = v] \in PositionType /\ [p EXCEPT !.volume = v].side = p.side /\ [p EXCEPT !.volume = v].volume = v
BY DEF PositionType

\* Opening and closing make one deal each.
LEMMA OpenTrades ==
  ASSUME BookType, NEW side \in Sides, Room(1, 1), UNCHANGED venue, position' = OpenPosition(side).position,
         Deals(<<InDeal(OpenPosition(side).ticket, side)>>)
  PROVE  /\ Trades(InDeal(OpenPosition(side).ticket, side))
         /\ OpenPosition(side).ticket \in 1..Issued' /\ position'[OpenPosition(side).ticket].side = side
         /\ ~venue.netting => OpenPosition(side).ticket = Issued + 1
<1> DEFINE open == {t \in 1..Issued : position[t].volume > 0}
           joins == venue.netting /\ open # {} /\ position[Min(open)].side = side
           t == OpenPosition(side).ticket
           d == InDeal(t, side)
<1>1. /\ t = IF joins THEN Min(open) ELSE Issued + 1
      /\ position' = IF joins THEN [position EXCEPT ![Min(open)].volume = @ + OrderVolume]
                     ELSE Append(position, [side |-> side, volume |-> OrderVolume])
  BY DEF OpenPosition
<1>2. /\ Issued \in Nat /\ Now \in Nat /\ OrderVolume \in Nat /\ OrderVolume > 0 /\ Commission \in Nat /\ MaxTickets \in Nat
      /\ MaxDeals \in Nat /\ position \in Seq(PositionType) /\ deal \in Seq(DealType) /\ Issued = Len(position) /\ Now = Len(deal)
      /\ Issued + 1 <= MaxTickets /\ Now + 1 <= MaxDeals
      /\ \A u \in 1..Issued : position[u] \in PositionType /\ position[u].side \in Sides /\ position[u].volume \in Nat
  BY BookAssumption, DealTypes DEF Room, BookType, Issued, Now
<1>3. joins => Min(open) \in 1..Issued /\ position[Min(open)].volume > 0
  <2> HAVE joins
  <2>1. open \in SUBSET (1..Issued) /\ open # {}
    OBVIOUS
  <2>2. Min(open) \in open
    <3> HIDE DEF open
    <3> QED
      BY <1>2, <2>1, Extremes
  <2> QED
    BY <2>2
<1>4. /\ position' \in Seq(PositionType) /\ Len(position') \in {Issued, Issued + 1} /\ Len(position') <= MaxTickets
      /\ t \in 1..Len(position') /\ position'[t].side = side /\ t \in Tickets
      /\ \A u \in 1..Issued : position'[u].side = position[u].side /\ (position[u].volume = 0 => position'[u].volume = 0)
      /\ \A u \in 1..Len(position') : position'[u].volume = 0 => u <= Issued /\ position[u].volume = 0
      /\ t <= Issued => position[t].volume > 0
      /\ t = Issued + 1 \/ venue.netting
  <2>1. CASE joins
    <3> DEFINE u0 == Min(open)
               p == [position[u0] EXCEPT !.volume = @ + OrderVolume]
    <3>1. u0 \in 1..Issued /\ position[u0].volume > 0 /\ t = u0 /\ position' = [position EXCEPT ![u0] = p] /\ position[u0].side = side
          /\ venue.netting
      BY <1>1, <1>3, <2>1
    <3>2. p \in PositionType /\ p.side = position[u0].side /\ p.volume = position[u0].volume + OrderVolume
      <4> HIDE DEF u0
      <4>1. position[u0] \in PositionType /\ position[u0].volume + OrderVolume \in Nat
        BY <1>2, <3>1
      <4> QED
        BY <4>1, WithVolume
    <3> HIDE DEF u0, p, t
    <3>3. /\ position' \in Seq(PositionType) /\ Len(position') = Issued
          /\ \A u \in 1..Issued : position'[u] = IF u = u0 THEN p ELSE position[u]
      BY <1>2, <3>1, <3>2
    <3> QED
      BY <1>2, <3>1, <3>2, <3>3 DEF Tickets
  <2>2. CASE ~joins
    <3> DEFINE p == [side |-> side, volume |-> OrderVolume]
    <3>1. p \in PositionType /\ p.side = side /\ p.volume = OrderVolume /\ t = Issued + 1 /\ position' = Append(position, p)
      BY <1>1, <1>2, <2>2 DEF PositionType
    <3> HIDE DEF p, t
    <3>2. /\ position' \in Seq(PositionType) /\ Len(position') = Issued + 1 /\ position'[Issued + 1] = p
          /\ \A u \in 1..Issued : position'[u] = position[u]
      BY <1>2, <3>1
    <3> QED
      BY <1>2, <3>1, <3>2 DEF Tickets
  <2> QED
    BY <2>1, <2>2
<1>5. /\ d.ticket = t /\ d.entry = "IN" /\ d.side = side /\ (Simulated => d.money = 0) /\ d \in DealType
  BY <1>2, <1>4 DEF InDeal, DealType, Simulated
<1>6. deal' = Append(deal, d) /\ reported' = IF Simulated THEN Now + 1 ELSE reported
  <2>1. deal' = deal \o <<d>> /\ reported' = IF Simulated THEN Len(deal') ELSE reported
    BY DEF Deals, Simulated
  <2> HIDE DEF d
  <2> QED
    BY <1>2, <2>1, <1>5
<1>7. Trades(d)
  <2> HIDE DEF d, t
  <2> QED
    BY <1>2, <1>4, <1>5, <1>6 DEF Trades, SideOf
<1>8. ~venue.netting => t = Issued + 1
  BY <1>1
<1> QED
  BY <1>4, <1>7, <1>8 DEF Issued

LEMMA CloseTrades ==
  ASSUME BookType, NEW t \in 1..Issued, NEW volume \in 1..position[t].volume, NEW gain \in Gains, Now + 1 <= MaxDeals,
         Issued + 1 <= MaxTickets \/ volume = position[t].volume, UNCHANGED venue,
         position' = ClosePosition(t, volume), Deals(<<OutDeal(t, volume, gain)>>)
  PROVE  /\ Trades(OutDeal(t, volume, gain))
         /\ Remainder(t, volume) =>
              Issued' = Issued + 1 /\ position'[t].volume = 0 /\ position'[Issued + 1].side = position[t].side
         /\ volume = position[t].volume => position'[t].volume = 0
<1> DEFINE d == OutDeal(t, volume, gain)
<1>1. /\ Issued \in Nat /\ Now \in Nat /\ MaxTickets \in Nat /\ MaxDeals \in Nat
      /\ position \in Seq(PositionType) /\ deal \in Seq(DealType) /\ Issued = Len(position) /\ Now = Len(deal)
      /\ Issued <= MaxTickets /\ gain \in Int /\ volume \in Nat /\ volume > 0 /\ volume <= position[t].volume
      /\ \A u \in 1..Issued : position[u] \in PositionType /\ position[u].side \in Sides /\ position[u].volume \in Nat
  BY BookAssumption, DealTypes DEF BookType, Issued, Now
<1>2. /\ position' \in Seq(PositionType) /\ Len(position') \in {Issued, Issued + 1} /\ Len(position') <= MaxTickets
      /\ \A u \in 1..Issued : position'[u].side = position[u].side /\ (position[u].volume = 0 => position'[u].volume = 0)
      /\ \A u \in 1..Len(position') : position'[u].volume = 0 => (u <= Issued /\ position[u].volume = 0) \/ u = t
      /\ Remainder(t, volume) => Len(position') = Issued + 1 /\ position'[t].volume = 0 /\ position'[Issued + 1].side = position[t].side
      /\ volume = position[t].volume => position'[t].volume = 0
  <2>1. CASE Remainder(t, volume)
    <3> DEFINE p == [position[t] EXCEPT !.volume = 0]
               q == [side |-> position[t].side, volume |-> position[t].volume - volume]
    <3>1. /\ position' = Append([position EXCEPT ![t] = p], q) /\ volume < position[t].volume
          /\ p \in PositionType /\ p.side = position[t].side /\ p.volume = 0
          /\ q \in PositionType /\ q.side = position[t].side /\ q.volume > 0
      BY <1>1, <2>1 DEF ClosePosition, Remainder, PositionType
    <3> HIDE DEF p, q
    <3>2. /\ position' \in Seq(PositionType) /\ Len(position') = Issued + 1 /\ position'[Issued + 1] = q
          /\ \A u \in 1..Issued : position'[u] = IF u = t THEN p ELSE position[u]
      <4> DEFINE s == [position EXCEPT ![t] = p]
      <4>1. s \in Seq(PositionType) /\ Len(s) = Issued /\ \A u \in 1..Issued : s[u] = IF u = t THEN p ELSE position[u]
        BY <1>1, <3>1
      <4>2. position' = Append(s, q)
        BY <3>1
      <4> HIDE DEF s
      <4> QED
        BY <1>1, <3>1, <4>1, <4>2
    <3> QED
      BY <1>1, <2>1, <3>1, <3>2 DEF Remainder
  <2>2. CASE ~Remainder(t, volume)
    <3> DEFINE p == [position[t] EXCEPT !.volume = IF volume >= @ THEN 0 ELSE @ - volume]
    <3>1. /\ position' = [position EXCEPT ![t] = p]
          /\ p \in PositionType /\ p.side = position[t].side /\ (volume = position[t].volume => p.volume = 0)
      <4> DEFINE v == IF volume >= position[t].volume THEN 0 ELSE position[t].volume - volume
      <4>1. position[t] \in PositionType /\ v \in Nat /\ (volume = position[t].volume => v = 0)
        BY <1>1
      <4>2. position' = [position EXCEPT ![t] = p]
        BY <2>2 DEF ClosePosition
      <4> HIDE DEF v
      <4>3. p = [position[t] EXCEPT !.volume = v]
        BY DEF v
      <4> QED
        BY <4>1, <4>2, <4>3, WithVolume
    <3> HIDE DEF p
    <3>2. /\ position' \in Seq(PositionType) /\ Len(position') = Issued
          /\ \A u \in 1..Issued : position'[u] = IF u = t THEN p ELSE position[u]
      BY <1>1, <3>1
    <3> QED
      BY <1>1, <2>2, <3>1, <3>2
  <2> QED
    BY <2>1, <2>2
<1>3. /\ d.ticket = t /\ d.entry = "OUT" /\ d.side = Opposite(position[t].side) /\ d \in DealType
  <2>1. gain * volume \in Int /\ t \in Tickets /\ Opposite(position[t].side) \in Sides
    BY <1>1 DEF Tickets, Opposite, Sides
  <2> QED
    BY <1>1, <2>1 DEF OutDeal, DealType
<1>4. deal' = Append(deal, d) /\ reported' = IF Simulated THEN Now + 1 ELSE reported
  <2>1. deal' = deal \o <<d>> /\ reported' = IF Simulated THEN Len(deal') ELSE reported
    BY DEF Deals, Simulated
  <2> HIDE DEF d
  <2> QED
    BY <1>1, <2>1, <1>3
<1>5. Trades(d)
  <2> HIDE DEF d
  <2> QED
    BY <1>1, <1>2, <1>3, <1>4 DEF Trades, SideOf
<1> QED
  BY <1>2, <1>5 DEF Issued

\* The names a copy has stay true while it follows its ticket.
LEMMA NamesKept ==
  ASSUME BookInvariant, NEW d, Trades(d), NEW m \in Copies, Ever(m), copy'[m].status # "none",
         copy'[m].ticket = copy[m].ticket, copy'[m].ticketHistory = copy[m].ticketHistory, copy'[m].side = copy[m].side,
         copy'[m].status = "CLOSED" => position'[copy[m].ticket].volume = 0
  PROVE  CopyKnown(m)'
<1>1. /\ BookType /\ CopyKnown(m)
      /\ Now' = Now + 1 /\ Now \in Nat /\ Issued \in Nat /\ Issued' \in Nat /\ Issued <= Issued'
  BY OneMore DEF BookInvariant
<1>2. copy[m].ticket \in 1..Issued' /\ copy[m].side = position'[copy[m].ticket].side
  BY <1>1 DEF CopyKnown, Trades
<1>3. ASSUME NEW t \in copy[m].ticketHistory
      PROVE  t \in 1..Issued' /\ position'[t].volume = 0 /\ \A i \in Exits(t, Now)', j \in Exits(copy[m].ticket, Now)' : i < j
  <2>1. t \in 1..Issued /\ position[t].volume = 0 /\ \A i \in Exits(t, Now), j \in Exits(copy[m].ticket, Now) : i < j
    BY <1>1, <1>3 DEF CopyKnown
  <2>2. d.ticket # t /\ position'[t].volume = 0
    BY <1>1, <2>1 DEF Trades
  <2>3. Exits(t, Now)' = Exits(t, Now) /\ \A i \in Exits(t, Now) : i \in 1..Now
    <3>1. \A i \in Exits(t, Now) : i \in 1..Now
      BY DEF Exits
    <3>2. d.ticket # t
      BY <2>2
    <3>3. Exits(t, Now)' = Exits(t, Now)
      BY <1>1, <3>2, ExitsAfter
    <3> QED
      BY <3>1, <3>3
  <2>4. \A j \in Exits(copy[m].ticket, Now)' : j \in Exits(copy[m].ticket, Now) \/ j = Now + 1
    BY <1>1, ExitsAfter
  <2> QED
    BY <1>1, <2>1, <2>2, <2>3, <2>4
<1> QED
  BY <1>2, <1>3 DEF CopyKnown, Ever

\* What a member's other copies hold is among the positions there are.
LEMMA HeldKnown ==
  ASSUME BookInvariant, NEW m \in Copies, Ever(m)
  PROVE  \A t \in Held(m) : t \in 1..Issued
BY DEF BookInvariant, CopyKnown, Held

\* A deal that moves one copy, which comes to hold at most the ticket that is new.
LEMMA OneCopyMoves ==
  ASSUME BookInvariant, NEW d, Trades(d), NEW m \in Copies, copy' \in [Copies -> CopyType], early \subseteq early',
         early' \subseteq Copies, \A n \in Copies : n # m => copy'[n] = copy[n], CopyKnown(m)', ResultKnown(m)',
         ~venue.netting => \A t \in Held(m)' : t = Issued + 1 \/ (Ever(m) /\ t \in Held(m))
  PROVE  BookInvariant'
<1>1. BookType /\ DealsKnown
  BY DEF BookInvariant
<1>2. BookType' /\ DealsKnown'
  BY <1>1, DealsKept DEF BookType, Trades, Issued, Now
<1>3. \A n \in Copies : CopyKnown(n)' /\ ResultKnown(n)'
  BY CopyKept
<1>4. \A n \in Copies : n # m /\ Ever(n)' => Ever(n) /\ Held(n)' = Held(n) /\ \A t \in Held(n) : t \in 1..Issued
  BY HeldKnown DEF Ever, Held
<1>5. ASSUME NEW n \in Copies, NEW o \in Copies, n # o, Ever(n)', Ever(o)', ~venue.netting
      PROVE  Held(n)' \cap Held(o)' = {}
  <2>1. \A p, q \in Copies : p # q /\ Ever(p) /\ Ever(q) => Held(p) \cap Held(q) = {}
    BY <1>5 DEF BookInvariant, Apart
  <2>2. Issued \in Nat
    BY <1>1, DealTypes
  <2>3. Issued + 1 \notin 1..Issued
    BY <2>2
  <2>4. CASE n # m /\ o # m
    BY <1>4, <1>5, <2>1, <2>4
  <2>5. CASE n = m
    BY <1>4, <1>5, <2>1, <2>3, <2>5
  <2>6. CASE o = m
    BY <1>4, <1>5, <2>1, <2>3, <2>6
  <2> QED
    BY <2>4, <2>5, <2>6
<1>6. venue' = venue
  BY DEF Trades
<1>7. \A n, o \in Copies : Apart(n, o)'
  BY <1>5, <1>6 DEF Apart
<1> QED
  BY <1>2, <1>3, <1>7 DEF BookInvariant

LEMMA OpenCopyKeeps ==
  ASSUME BookInvariant, NEW m \in Copies, NEW side \in Sides, OpenCopy(m, side)
  PROVE  BookInvariant'
<1> DEFINE t == OpenPosition(side).ticket
           d == InDeal(t, side)
           c == [NoCopy EXCEPT !.status = "OPEN", !.ticket = t, !.side = side]
<1>1. /\ BookType /\ Room(1, 1) /\ copy[m].status = "none" /\ position' = OpenPosition(side).position /\ Deals(<<d>>)
      /\ copy' = [copy EXCEPT ![m] = c] /\ venue' = venue /\ early' = early
  BY DEF OpenCopy, BookInvariant
<1>2. /\ Trades(d) /\ t \in 1..Issued' /\ position'[t].side = side /\ (~venue.netting => t = Issued + 1)
  <2> HIDE DEF c
  <2> QED
    BY <1>1, OpenTrades
<1>3. Issued' \in Nat /\ Issued' <= MaxTickets /\ MaxTickets \in Nat /\ MaxDeals \in Nat
  BY <1>1, <1>2, OneMore, BookAssumption DEF Trades
<1>4. /\ c \in CopyType /\ c.status = "OPEN" /\ c.ticket = t /\ c.side = side /\ c.ticketHistory = {}
  <2> HIDE DEF t
  <2>1. t \in 0..MaxTickets
    BY <1>2, <1>3
  <2>2. NoCopy \in CopyType /\ NoCopy.ticketHistory = {}
    BY <1>3 DEF NoCopy, CopyType, Sides
  <2> HIDE DEF NoCopy
  <2> QED
    BY <2>1, <2>2 DEF CopyType
<1> HIDE DEF t, d, c
<1>5. /\ copy' \in [Copies -> CopyType] /\ copy'[m] = c /\ early' \subseteq Copies
      /\ \A n \in Copies : n # m => copy'[n] = copy[n]
  BY <1>1, <1>4 DEF BookType
<1>6. CopyKnown(m)' /\ ResultKnown(m)'
  BY <1>2, <1>4, <1>5 DEF CopyKnown, ResultKnown, Ever
<1>7. Held(m)' = {t}
  BY <1>4, <1>5 DEF Held
<1> QED
  BY <1>1, <1>2, <1>5, <1>6, <1>7, OneCopyMoves

LEMMA PartlyCloseCopyKeeps ==
  ASSUME BookInvariant, NEW m \in Copies, NEW gain \in Gains, PartlyCloseCopy(m, gain)
  PROVE  BookInvariant'
<1> SUFFICES ASSUME NEW t, t = copy[m].ticket PROVE BookInvariant'
  OBVIOUS
<1> DEFINE d == OutDeal(t, 1, gain)
           c == Reduced(copy[m])
<1>1. /\ BookType /\ CopyKnown(m) /\ Room(1, 1) /\ Live(m) /\ position[t].volume > 0 /\ position' = ClosePosition(t, 1)
      /\ Deals(<<d>>) /\ copy' = [copy EXCEPT ![m] = c] /\ venue' = venue /\ early' = early
  BY DEF PartlyCloseCopy, BookInvariant
<1>2. Ever(m) /\ t \in 1..Issued /\ copy[m] \in CopyType /\ copy[m].side = position[t].side
  BY <1>1 DEF Live, Ever, CopyKnown, BookType
<1>3. /\ 1 \in 1..position[t].volume /\ Now + 1 <= MaxDeals /\ Issued + 1 <= MaxTickets /\ Issued \in Nat
      /\ MaxTickets \in Nat
  BY <1>1, <1>2, DealTypes, BookAssumption DEF Room
<1>4. /\ Trades(d)
      /\ Remainder(t, 1) => Issued' = Issued + 1 /\ position'[t].volume = 0 /\ position'[Issued + 1].side = position[t].side
  BY <1>1, <1>2, <1>3, CloseTrades
<1>5. /\ c \in CopyType /\ c.status = "PARTIALLY_CLOSED" /\ c.ticket = (IF Remainder(t, 1) THEN Issued + 1 ELSE t)
      /\ c.side = copy[m].side
      /\ c.ticketHistory = IF Remainder(t, 1) THEN copy[m].ticketHistory \cup {t} ELSE copy[m].ticketHistory
  <2>1. t \in Tickets /\ t \in 0..MaxTickets /\ Issued + 1 \in 0..MaxTickets
    BY <1>1, <1>2, <1>3 DEF Tickets, BookType
  <2> QED
    BY <1>2, <2>1 DEF CopyType, Reduced
<1> HIDE DEF c
<1>6. /\ copy' \in [Copies -> CopyType] /\ copy'[m] = c /\ early' \subseteq Copies
      /\ \A n \in Copies : n # m => copy'[n] = copy[n]
  BY <1>1, <1>5 DEF BookType
<1>7. CopyKnown(m)'
  <2>1. CASE Remainder(t, 1)
    <3>1. c.ticket = Issued + 1 /\ Issued + 1 \in 1..Issued' /\ c.side = position'[Issued + 1].side
      BY <1>2, <1>3, <1>4, <1>5, <2>1
    <3>2. ASSUME NEW u, u = Issued + 1 PROVE Exits(u, Now)' = {}
      <4>1. d.ticket = t /\ u # t
        BY <1>2, <1>3, <3>2 DEF OutDeal
      <4>2. Exits(u, Now) = {}
        BY <1>3, <3>2 DEF BookInvariant, DealsKnown, Exits
      <4> HIDE DEF d
      <4> QED
        BY <1>1, <1>4, <4>1, <4>2, ExitsAfter
    <3>3. /\ copy'[m].ticket \in 1..Issued' /\ copy'[m].side = position'[copy'[m].ticket].side
          /\ copy'[m].status = "PARTIALLY_CLOSED" /\ copy'[m].ticketHistory = copy[m].ticketHistory \cup {t}
      BY <1>5, <1>6, <2>1, <3>1
    <3>4. Exits(copy[m].ticket, Now)' = {}
      BY <1>5, <1>6, <2>1, <3>2
    <3>5. ASSUME NEW u \in copy'[m].ticketHistory PROVE u \in 1..Issued' /\ position'[u].volume = 0
      <4>1. CASE u = t
        BY <1>2, <1>3, <1>4, <2>1, <4>1
      <4>2. CASE u # t
        <5>1. u \in copy[m].ticketHistory
          BY <3>3, <3>5, <4>2
        <5>2. u \in 1..Issued /\ position[u].volume = 0
          BY <1>1, <1>2, <5>1 DEF CopyKnown
        <5>3. position'[u].volume = 0
          <6> HIDE DEF d
          <6> QED
            BY <1>4, <5>2 DEF Trades
        <5> QED
          BY <1>3, <1>4, <2>1, <5>2, <5>3
      <4> QED
        BY <4>1, <4>2
    <3> QED
      BY <3>3, <3>4, <3>5 DEF CopyKnown, Ever
  <2>2. CASE ~Remainder(t, 1)
    <3>1. /\ copy'[m].ticket = copy[m].ticket /\ copy'[m].ticketHistory = copy[m].ticketHistory
          /\ copy'[m].side = copy[m].side /\ copy'[m].status = "PARTIALLY_CLOSED"
      BY <1>5, <1>6, <2>2
    <3> QED
      BY <1>2, <1>4, <3>1, NamesKept
  <2> QED
    BY <2>1, <2>2
<1>8. ResultKnown(m)'
  BY <1>5, <1>6 DEF ResultKnown
<1>9. \A u \in Held(m)' : u = Issued + 1 \/ (Ever(m) /\ u \in Held(m))
  BY <1>2, <1>5, <1>6 DEF Held
<1> QED
  BY <1>1, <1>4, <1>6, <1>7, <1>8, <1>9, OneCopyMoves

\* Money, whatever the deals are that are added up.
LEMMA PaidType ==
  ASSUME NEW D \in Seq(DealType), NEW S \in SUBSET (1..Len(D))
  PROVE  SumFunctionOnSet([i \in S |-> D[i].money], S) \in Int
<1> DEFINE I == 1..Len(D)
           f == [i \in S |-> D[i].money]
<1>1. IsFiniteSet(I) /\ S \in SUBSET I
  BY FS_Interval
<1>2. IsFiniteSet(S)
  <2> HIDE DEF I
  <2> QED
    BY <1>1, FS_Subset
<1>3. \A i \in S : f[i] \in Int
  <2> TAKE i \in S
  <2>1. D[i] \in DealType
    OBVIOUS
  <2> QED
    BY <2>1 DEF DealType
<1> HIDE DEF f
<1>4. Total(f, S) \in Int
  BY <1>2, <1>3, TotalType
<1> QED
  BY <1>4 DEF Total, f

LEMMA LastOf == ASSUME NEW n \in Nat, NEW S \in SUBSET (1..n), n \in S PROVE Max(S) = n
<1>1. S # {} /\ \A y \in S : y \in 1..n
  OBVIOUS
<1>2. Max(S) \in S /\ \A y \in S : y <= Max(S)
  BY <1>1, Extremes
<1>3. Max(S) \in 1..n /\ n <= Max(S)
  BY <1>1, <1>2
<1> DEFINE g == Max(S)
<1>4. g \in 1..n /\ n <= g
  BY <1>3
<1> HIDE DEF g
<1>5. g = n
  BY <1>4
<1> QED
  BY <1>5 DEF g

\* A copy that is closed by an order is read at once or not at all.
LEMMA CloseCopyKeeps ==
  ASSUME BookInvariant, NEW m \in Copies, NEW gain \in Gains, CloseCopy(m, gain)
  PROVE  BookInvariant'
<1> SUFFICES ASSUME NEW t, t = copy[m].ticket PROVE BookInvariant'
  OBVIOUS
<1> DEFINE d == OutDeal(t, position[t].volume, gain)
<1>1. /\ BookType /\ CopyKnown(m) /\ DealsKnown /\ Room(0, 1) /\ Live(m) /\ position[t].volume > 0
      /\ position' = ClosePosition(t, position[t].volume) /\ Deals(<<d>>) /\ venue' = venue
      /\ copy' = [copy EXCEPT ![m] = Closed(@, GetClosedPosition(t)')]
      /\ early' = early \cup (IF ReadEarly(t)' THEN {m} ELSE {})
  BY DEF CloseCopy, BookInvariant
<1>2. Ever(m) /\ t \in 1..Issued /\ copy[m] \in CopyType
  BY <1>1 DEF Live, Ever, CopyKnown, BookType
<1>3. /\ position[t].volume \in 1..position[t].volume /\ Now + 1 <= MaxDeals /\ Issued \in Nat /\ MaxDeals \in Nat
      /\ Now \in Nat
  BY <1>1, <1>2, DealTypes, BookAssumption DEF Room
<1>4. Trades(d) /\ position'[t].volume = 0
  <2> DEFINE volume == position[t].volume
  <2>1. volume \in 1..position[t].volume /\ volume = position[t].volume
    BY <1>3
  <2> QED
    BY <1>1, <1>2, <1>3, <2>1, CloseTrades
<1>5. d.ticket = t /\ d.entry = "OUT"
  BY DEF OutDeal
<1> HIDE DEF d
<1>6. /\ Now' = Now + 1 /\ deal' \in Seq(DealType) /\ Now' = Len(deal') /\ reported \in 0..Now
      /\ Exits(t, Now)' = Exits(t, Now) \cup {Now + 1}
  BY <1>1, <1>4, <1>5, OneMore, DealTypes, ExitsAfter DEF Now
<1>7. \A i \in Exits(t, Now)' : i \in 1..(Now + 1)
  BY <1>3, <1>6 DEF Exits
<1> DEFINE r == GetClosedPosition(t)'
<1>8. /\ r.found \in BOOLEAN /\ r.profit \in Int /\ r.at \in 0..MaxDeals
      /\ m \notin early' => r.at = Now + 1 /\ (r.found => r.profit = Money(LastDeals(t))')
  <2>1. CASE Simulated
    <3>1. reported' = Now' /\ Simulated' /\ venue'.provider = "mock"
      BY <1>1, <1>4, <1>6, <2>1 DEF Trades, Simulated
    <3>2. PICK e : e = Now + 1
      OBVIOUS
    <3>3. Exits(t, Now)' # {} /\ Max(Exits(t, Now)') = e
      <4> DEFINE E == Exits(t, Now)'
      <4>1. e \in Nat /\ e \in E /\ E \in SUBSET (1..e)
        BY <1>3, <1>6, <1>7, <3>2
      <4> HIDE DEF E
      <4>3. E # {} /\ Max(E) = e
        BY <4>1, LastOf
      <4> QED
        BY <4>3 DEF E
    <3>4. r = [found |-> TRUE, at |-> e, profit |-> Money({e})']
      BY <3>1, <3>3 DEF GetClosedPosition
    <3>5. Money({e})' \in Int
      <4> DEFINE S == {e}
      <4>1. S \in SUBSET (1..Len(deal'))
        BY <1>3, <1>6, <3>2
      <4>2. SumFunctionOnSet([i \in S |-> deal'[i].money], S) \in Int
        <5> HIDE DEF S
        <5> QED
          BY <1>6, <4>1, PaidType
      <4> QED
        BY <4>2 DEF Money
    <3>6. Money(LastDeals(t))' = Money({e})'
      BY <3>1, <3>3 DEF LastDeals
    <3> QED
      BY <1>3, <3>2, <3>4, <3>5, <3>6
  <2>2. CASE ~Simulated
    <3>1. reported' = reported
      BY <1>4, <2>2 DEF Trades
    <3>2. Exits(t, reported)' = Exits(t, reported) /\ OfTicket(t, reported)' = OfTicket(t, reported)
      <4>1. /\ {i \in 1..reported : deal'[i].ticket = t /\ deal'[i].entry = "OUT"} = Exits(t, reported)
            /\ {i \in 1..reported : deal'[i].ticket = t} = OfTicket(t, reported)
        <5>1. BookType /\ Trades(d)
          BY <1>1, <1>4
        <5>2. reported \in 0..Now
          BY <1>6
        <5>3. \A i \in 1..reported : deal'[i] = deal[i]
          BY <1>3, <5>1, <5>2, OneMore
        <5> QED
          BY <5>3 DEF Exits, OfTicket
      <4> QED
        BY <3>1, <4>1 DEF Exits, OfTicket
    <3>3. /\ Exits(t, reported) \in SUBSET (1..Now) /\ OfTicket(t, reported) \in SUBSET (1..Now)
      BY <1>3, <1>6 DEF Exits, OfTicket
    <3>4. venue'.provider # "mock"
      BY <1>1, <2>2 DEF Simulated
    <3>5. CASE Exits(t, reported) = {}
      <4>1. r = [found |-> FALSE, profit |-> 0, at |-> Now']
        BY <3>2, <3>5 DEF GetClosedPosition
      <4> QED
        BY <1>3, <1>6, <4>1
    <3>6. CASE Exits(t, reported) # {}
      <4>1. m \in early'
        <5>1. Now + 1 \in Exits(t, Now)' /\ Now + 1 \notin Exits(t, reported)
          BY <1>3, <1>6, <3>3
        <5>2. ReadEarly(t)'
          BY <3>2, <3>6, <5>1 DEF ReadEarly
        <5> QED
          BY <1>1, <5>2
      <4>2. r = [found |-> TRUE, at |-> Max(Exits(t, reported)), profit |-> Money(OfTicket(t, reported))']
        BY <3>2, <3>4, <3>6 DEF GetClosedPosition
      <4>3. Max(Exits(t, reported)) \in 0..MaxDeals
        <5> DEFINE E == Exits(t, reported)
        <5>1. E \in SUBSET (1..Now) /\ E # {}
          BY <3>3, <3>6
        <5> HIDE DEF E
        <5>2. Max(E) \in E
          BY <1>3, <5>1, Extremes
        <5> DEFINE g == Max(E)
        <5>3. g \in 1..Now
          BY <5>1, <5>2
        <5> HIDE DEF g
        <5>4. g \in 0..MaxDeals
          BY <1>3, <5>3
        <5> QED
          BY <5>4 DEF E, g
      <4>4. Money(OfTicket(t, reported))' \in Int
        <5> DEFINE S == OfTicket(t, reported)
        <5>1. S \in SUBSET (1..Len(deal'))
          BY <1>3, <1>6, <3>3
        <5>2. SumFunctionOnSet([i \in S |-> deal'[i].money], S) \in Int
          <6> HIDE DEF S
          <6> QED
            BY <1>6, <5>1, PaidType
        <5> QED
          BY <3>2, <5>2 DEF Money
      <4> QED
        BY <4>1, <4>2, <4>3, <4>4
    <3> QED
      BY <3>5, <3>6
  <2> QED
    BY <2>1, <2>2
<1> HIDE DEF r
<1> DEFINE c == Closed(copy[m], r)
<1>9. /\ c \in CopyType /\ c.status = "CLOSED" /\ c.known = r.found /\ c.profit = r.profit /\ c.closedAt = r.at
      /\ c.ticket = t /\ c.ticketHistory = copy[m].ticketHistory /\ c.side = copy[m].side
  BY <1>2, <1>8 DEF Closed, CopyType
<1>10. copy' = [copy EXCEPT ![m] = c]
  BY <1>1 DEF r
<1> HIDE DEF c
<1>11. /\ copy' \in [Copies -> CopyType] /\ copy'[m] = c /\ early' \subseteq Copies /\ early \subseteq early'
       /\ \A n \in Copies : n # m => copy'[n] = copy[n]
  BY <1>1, <1>9, <1>10 DEF BookType
<1>12. CopyKnown(m)'
  BY <1>2, <1>4, <1>9, <1>11, NamesKept
<1>13. ResultKnown(m)'
  <2> SUFFICES ASSUME m \notin early'
               PROVE  /\ \A u \in Held(m)' : \A i \in Exits(u, Now)' : i <= Now + 1
                      /\ r.found => r.profit = Money(LastDeals(t))'
    BY <1>8, <1>9, <1>11 DEF ResultKnown
  <2>1. \A u : \A i \in Exits(u, Now)' : i <= Now + 1
    BY <1>3, <1>6 DEF Exits
  <2> QED
    BY <1>8, <2>1
<1>14. Held(m)' = Held(m)
  BY <1>9, <1>11 DEF Held
<1> QED
  BY <1>2, <1>4, <1>11, <1>12, <1>13, <1>14, OneCopyMoves

\* What the account does without the platform leaves its copies as they are.
LEMMA OthersKeep ==
  ASSUME BookInvariant, NEW d, Trades(d), UNCHANGED <<copy, early>>
  PROVE  BookInvariant'
<1>1. BookType /\ DealsKnown
  BY DEF BookInvariant
<1>2. BookType' /\ DealsKnown'
  BY <1>1, DealsKept DEF BookType, Trades, Issued, Now
<1>3. \A n \in Copies : CopyKnown(n)' /\ ResultKnown(n)'
  BY CopyKept
<1>4. \A n, o \in Copies : Apart(n, o)'
  BY DEF BookInvariant, Apart, Ever, Held, Trades
<1> QED
  BY <1>2, <1>3, <1>4 DEF BookInvariant

LEMMA OwnOpenKeeps ==
  ASSUME BookInvariant, NEW side \in Sides, OwnOpen(side)
  PROVE  BookInvariant'
<1>1. /\ BookType /\ ~venue.netting /\ Room(1, 1) /\ venue' = venue
  BY BookAssumption DEF OwnOpen, BookInvariant, BookType
<1>2. OpenPosition(side) = [ticket |-> Issued + 1, position |-> Append(position, [side |-> side, volume |-> OrderVolume])]
  BY <1>1 DEF OpenPosition
<1>3. position' = OpenPosition(side).position /\ Deals(<<InDeal(OpenPosition(side).ticket, side)>>)
  BY <1>2 DEF OwnOpen
<1>4. Trades(InDeal(OpenPosition(side).ticket, side))
  BY <1>1, <1>3, OpenTrades
<1> QED
  BY <1>4, OthersKeep DEF OwnOpen

LEMMA CloseOutsideKeeps ==
  ASSUME BookInvariant, NEW t \in 1..Issued, NEW gain \in Gains, CloseOutside(t, gain)
  PROVE  BookInvariant'
<1> DEFINE volume == position[t].volume
<1>1. /\ BookType /\ Room(0, 1) /\ volume > 0 /\ position' = ClosePosition(t, volume)
      /\ Deals(<<OutDeal(t, volume, gain)>>) /\ venue' = venue
  BY DEF CloseOutside, BookInvariant
<1>2. volume \in 1..position[t].volume /\ Now + 1 <= MaxDeals /\ volume = position[t].volume
  BY <1>1, DealTypes, BookAssumption DEF Room
<1>3. Trades(OutDeal(t, volume, gain))
  BY <1>1, <1>2, CloseTrades
<1> QED
  BY <1>3, OthersKeep DEF CloseOutside

LEMMA ReportKeeps == ASSUME BookInvariant, Report PROVE BookInvariant'
<1>1. /\ BookType /\ DealsKnown /\ ~Simulated /\ reported' = reported + 1 /\ reported < Now
      /\ UNCHANGED <<venue, position, deal, copy, early>>
  BY DEF Report, BookInvariant, DealsKnown, BookType, Now
<1>2. BookType'
  BY <1>1, DealTypes DEF BookType, Issued, Now
<1>3. DealsKnown'
  BY <1>1 DEF DealsKnown, Exits, Issued, Now, Simulated
<1>4. \A n \in Copies : CopyKnown(n)' /\ ResultKnown(n)'
  <2> TAKE n \in Copies
  <2>1. \A t : Exits(t, Now)' = Exits(t, Now) /\ OfTicket(t, Now)' = OfTicket(t, Now) /\ LastDeals(t)' = LastDeals(t)
    BY <1>1 DEF Exits, OfTicket, LastDeals, Now, Simulated
  <2>2. Money(LastDeals(copy[n].ticket))' = Money(LastDeals(copy[n].ticket))
    BY <1>1 DEF Money, LastDeals, Exits, OfTicket, Now, Simulated
  <2> QED
    BY <1>1, <2>1, <2>2 DEF BookInvariant, CopyKnown, ResultKnown, Ever, Held, Issued
<1>5. \A n, o \in Copies : Apart(n, o)'
  BY <1>1 DEF BookInvariant, Apart, Ever, Held
<1> QED
  BY <1>2, <1>3, <1>4, <1>5 DEF BookInvariant

\* What the broker answers, asked for a position that is closed: nothing, or all of it.
LEMMA ReadType ==
  ASSUME BookType, NEW t
  PROVE  LET r == GetClosedPosition(t) IN r.found \in BOOLEAN /\ r.profit \in Int /\ r.at \in 0..MaxDeals
<1> DEFINE E == Exits(t, reported)
           O == OfTicket(t, reported)
           r == GetClosedPosition(t)
<1>1. Now \in Nat /\ reported \in 0..Now /\ MaxDeals \in Nat /\ Now <= MaxDeals
  BY DealTypes, BookAssumption DEF BookType
<1>2. E \in SUBSET (1..Now) /\ O \in SUBSET (1..Now)
  BY <1>1 DEF Exits, OfTicket
<1>3. CASE E = {}
  <2>1. r = [found |-> FALSE, profit |-> 0, at |-> Now]
    BY <1>3 DEF GetClosedPosition
  <2> QED
    BY <1>1, <2>1
<1>4. CASE E # {}
  <2> DEFINE g == Max(E)
             S == IF Simulated THEN {g} ELSE O
  <2>1. r = [found |-> TRUE, at |-> g, profit |-> Money(S)]
    BY <1>4 DEF GetClosedPosition, Simulated
  <2>2. g \in E
    <3> HIDE DEF E
    <3> QED
      BY <1>1, <1>2, <1>4, Extremes
  <2>3. g \in 1..Now
    <3> HIDE DEF g, E
    <3> QED
      BY <1>2, <2>2
  <2>4. S \in SUBSET (1..Now)
    <3> HIDE DEF g, O
    <3> QED
      BY <1>2, <2>3
  <2>5. Money(S) \in Int /\ g \in 0..MaxDeals
    <3> HIDE DEF S, g
    <3> QED
      BY <1>1, <2>3, <2>4, MoneyType
  <2> QED
    BY <2>1, <2>5
<1> QED
  BY <1>3, <1>4

LEMMA ReadWell ==
  ASSUME BookInvariant, NEW t \in 1..Issued, position[t].volume = 0, ~ReadEarly(t)
  PROVE  /\ \A i \in Exits(t, Now) : i <= GetClosedPosition(t).at
         /\ GetClosedPosition(t).found => GetClosedPosition(t).profit = Money(LastDeals(t))
<1> DEFINE r == GetClosedPosition(t)
           E == Exits(t, Now)
<1>1. Now \in Nat /\ reported \in 0..Now /\ BookType /\ DealsKnown
  BY DealTypes DEF BookInvariant
<1>2. E \in SUBSET (1..Now) /\ E # {} /\ \A i \in E : i \in 1..Now
  BY <1>1 DEF Exits, DealsKnown
<1>3. Exits(t, reported) = {} \/ Exits(t, reported) = E
  BY DEF ReadEarly
<1>4. CASE Exits(t, reported) = {}
  <2>1. r = [found |-> FALSE, profit |-> 0, at |-> Now]
    BY <1>4 DEF GetClosedPosition
  <2>2. \A i \in E : i <= Now
    <3> HIDE DEF E
    <3> QED
      BY <1>1, <1>2
  <2>3. ~r.found /\ r.at = Now
    BY <2>1
  <2> QED
    BY <2>2, <2>3
<1>5. CASE Exits(t, reported) = E
  <2>1. r = [found |-> TRUE, at |-> Max(E), profit |-> Money(IF Simulated THEN {Max(E)} ELSE OfTicket(t, reported))]
    BY <1>2, <1>5 DEF GetClosedPosition, Simulated
  <2>2. \A i \in E : i <= Max(E)
    <3> HIDE DEF E
    <3> QED
      BY <1>1, <1>2, Extremes
  <2>3. CASE Simulated
    BY <2>1, <2>2, <2>3 DEF LastDeals
  <2>4. CASE ~Simulated
    <3>1. ~venue.netting
      BY <1>1, <2>4, BookAssumption DEF BookType, Simulated
    <3>2. PICK j \in E : TRUE
      BY <1>2
    <3>3. j \in 1..reported /\ deal[j].ticket = t /\ deal[j].entry = "OUT" /\ j \in 1..Now
      BY <1>2, <1>5, <3>2 DEF Exits
    <3>4. ASSUME NEW i \in OfTicket(t, Now) PROVE i \in OfTicket(t, reported)
      <4>1. i \in 1..Now /\ deal[i].ticket = t /\ deal[i].entry \in {"IN", "OUT"}
        BY <1>1, <3>4, DealTypes DEF OfTicket
      <4>2. CASE deal[i].entry = "IN"
        <5>1. i < j
          BY <1>1, <3>1, <3>3, <4>1, <4>2 DEF DealsKnown
        <5> QED
          BY <1>1, <3>3, <4>1, <5>1 DEF OfTicket
      <4>3. CASE deal[i].entry = "OUT"
        <5>1. i \in Exits(t, reported)
          BY <1>5, <4>1, <4>3 DEF Exits
        <5> QED
          BY <5>1 DEF Exits, OfTicket
      <4> QED
        BY <4>1, <4>2, <4>3
    <3>5. OfTicket(t, reported) \subseteq OfTicket(t, Now)
      BY <1>1 DEF OfTicket
    <3>6. OfTicket(t, reported) = OfTicket(t, Now)
      BY <3>4, <3>5
    <3>7. r.found /\ r.profit = Money(OfTicket(t, Now)) /\ r.at = Max(E)
      BY <2>1, <2>4, <3>6
    <3> QED
      BY <2>2, <2>4, <3>7 DEF LastDeals
  <2> QED
    BY <2>3, <2>4
<1> QED
  BY <1>3, <1>4, <1>5

LEMMA SweepKeeps == ASSUME BookInvariant, Sweep PROVE BookInvariant'
<1> DEFINE r(m) == GetClosedPosition(copy[m].ticket)
<1>c. copy' = [m \in Copies |->
        CASE m \in Vanished -> Closed(copy[m], r(m))
          [] m \in Unknown /\ r(m).found -> [copy[m] EXCEPT !.known = TRUE, !.profit = r(m).profit]
          [] OTHER -> copy[m]]
  BY DEF Sweep
<1>1. /\ BookType /\ DealsKnown /\ UNCHANGED <<venue, position, deal, reported>>
      /\ early' = early \cup {m \in Vanished \cup Unknown : ReadEarly(copy[m].ticket)}
      /\ Issued' = Issued /\ Now' = Now
  BY DEF Sweep, BookInvariant, Issued, Now
<1>2. \A m \in Copies : r(m).found \in BOOLEAN /\ r(m).profit \in Int /\ r(m).at \in 0..MaxDeals /\ copy[m] \in CopyType
  BY <1>1, ReadType DEF BookType
<1>3. Vanished \subseteq Copies /\ Unknown \subseteq Copies /\ Vanished \cap Unknown = {}
  BY DEF Vanished, Unknown, Live
<1>4. \A t : Exits(t, Now)' = Exits(t, Now) /\ OfTicket(t, Now)' = OfTicket(t, Now) /\ LastDeals(t)' = LastDeals(t)
             /\ Money(LastDeals(t))' = Money(LastDeals(t))
  BY <1>1 DEF Exits, OfTicket, LastDeals, Now, Simulated, Money
<1> HIDE DEF r
<1>n. /\ DOMAIN copy' = Copies
      /\ \A m \in Vanished : copy'[m] = Closed(copy[m], r(m))
      /\ \A m \in Unknown : r(m).found => copy'[m] = [copy[m] EXCEPT !.known = TRUE, !.profit = r(m).profit]
      /\ \A m \in Copies : m \notin Vanished /\ ~(m \in Unknown /\ r(m).found) => copy'[m] = copy[m]
  BY <1>c, <1>3
<1>5. ASSUME NEW m \in Copies
      PROVE  /\ copy'[m] \in CopyType /\ copy'[m].ticket = copy[m].ticket
             /\ copy'[m].ticketHistory = copy[m].ticketHistory /\ copy'[m].side = copy[m].side
             /\ Ever(m)' = Ever(m)
             /\ \/ copy'[m] = copy[m]
                \/ m \in Vanished \cup Unknown /\ copy'[m].status = "CLOSED"
             /\ CopyKnown(m)' /\ ResultKnown(m)'
  <2>1. CopyKnown(m) /\ ResultKnown(m)
    BY DEF BookInvariant
  <2>2. CASE m \in Vanished
    <3>1. /\ copy'[m] = Closed(copy[m], r(m)) /\ Ever(m) /\ position[copy[m].ticket].volume = 0
      <4>1. copy'[m] = Closed(copy[m], r(m))
        BY <1>n, <2>2
      <4> QED
        BY <2>2, <4>1 DEF Vanished, Live, Ever
    <3>2. /\ copy'[m] \in CopyType /\ copy'[m].ticket = copy[m].ticket
          /\ copy'[m].ticketHistory = copy[m].ticketHistory /\ copy'[m].side = copy[m].side
          /\ copy'[m].status = "CLOSED" /\ copy'[m].known = r(m).found /\ copy'[m].profit = r(m).profit
          /\ copy'[m].closedAt = r(m).at
      BY <1>2, <3>1 DEF Closed, CopyType
    <3>3. Ever(m)'
      BY <3>2 DEF Ever
    <3>4. CopyKnown(m)'
      BY <1>1, <1>4, <2>1, <3>1, <3>2, <3>3 DEF CopyKnown, Ever
    <3>5. ResultKnown(m)'
      <4> SUFFICES ASSUME m \notin early'
                   PROVE  /\ \A t \in Held(m) : \A i \in Exits(t, Now) : i <= r(m).at
                          /\ r(m).found => r(m).profit = Money(LastDeals(copy[m].ticket))
        BY <1>4, <3>2 DEF ResultKnown, Held
      <4>1. ~ReadEarly(copy[m].ticket)
        BY <1>1, <2>2
      <4>2. copy[m].ticket \in 1..Issued
        BY <2>1, <3>1 DEF CopyKnown
      <4>3. /\ \A i \in Exits(copy[m].ticket, Now) : i <= r(m).at
            /\ r(m).found => r(m).profit = Money(LastDeals(copy[m].ticket))
        BY <3>1, <4>1, <4>2, ReadWell DEF r
      <4>4. PICK j \in Exits(copy[m].ticket, Now) : TRUE
        BY <1>1, <3>1, <4>2 DEF DealsKnown
      <4>5. ASSUME NEW t \in copy[m].ticketHistory, NEW i \in Exits(t, Now) PROVE i <= r(m).at
        <5>1. i < j /\ j <= r(m).at
          BY <2>1, <3>1, <4>3, <4>4, <4>5 DEF CopyKnown
        <5>2. i \in Int /\ j \in Int /\ r(m).at \in Int
          BY <1>2, <4>4, <4>5 DEF Exits
        <5> QED
          BY <5>1, <5>2
      <4> QED
        BY <4>3, <4>5 DEF Held
    <3> QED
      BY <2>2, <3>1, <3>2, <3>3, <3>4, <3>5
  <2>3. CASE m \in Unknown /\ r(m).found
    <3>1. /\ copy'[m] = [copy[m] EXCEPT !.known = TRUE, !.profit = r(m).profit] /\ copy[m].status = "CLOSED" /\ ~copy[m].known
      <4>1. copy'[m] = [copy[m] EXCEPT !.known = TRUE, !.profit = r(m).profit]
        BY <1>n, <2>3
      <4> QED
        BY <2>3, <4>1 DEF Unknown
    <3>2. /\ copy'[m] \in CopyType /\ copy'[m].ticket = copy[m].ticket
          /\ copy'[m].ticketHistory = copy[m].ticketHistory /\ copy'[m].side = copy[m].side
          /\ copy'[m].status = "CLOSED" /\ copy'[m].profit = r(m).profit /\ copy'[m].closedAt = copy[m].closedAt
      BY <1>2, <3>1 DEF CopyType
    <3>3. Ever(m)' /\ Ever(m)
      BY <3>1, <3>2 DEF Ever
    <3>4. CopyKnown(m)'
      BY <1>1, <1>4, <2>1, <3>1, <3>2, <3>3 DEF CopyKnown, Ever
    <3>5. ResultKnown(m)'
      <4> SUFFICES ASSUME m \notin early'
                   PROVE  /\ \A t \in Held(m) : \A i \in Exits(t, Now) : i <= copy[m].closedAt
                          /\ r(m).profit = Money(LastDeals(copy[m].ticket))
        BY <1>4, <3>2 DEF ResultKnown, Held
      <4>1. ~ReadEarly(copy[m].ticket) /\ m \notin early
        BY <1>1, <2>3
      <4>2. copy[m].ticket \in 1..Issued /\ position[copy[m].ticket].volume = 0
        BY <2>1, <3>1, <3>3 DEF CopyKnown
      <4>3. r(m).profit = Money(LastDeals(copy[m].ticket))
        BY <2>3, <4>1, <4>2, ReadWell DEF r
      <4> QED
        BY <2>1, <3>1, <4>1, <4>3 DEF ResultKnown
    <3> QED
      BY <2>3, <3>2, <3>3, <3>4, <3>5
  <2>4. CASE m \notin Vanished /\ ~(m \in Unknown /\ r(m).found)
    <3>1. copy'[m] = copy[m] /\ (m \notin early' => m \notin early)
      BY <1>1, <1>n, <2>4
    <3>2. Ever(m)' = Ever(m)
      BY <3>1 DEF Ever
    <3>3. CopyKnown(m)'
      BY <1>1, <1>4, <2>1, <3>1, <3>2 DEF CopyKnown
    <3>4. ResultKnown(m)'
      BY <1>4, <2>1, <3>1 DEF ResultKnown, Held
    <3> QED
      BY <1>2, <3>1, <3>2, <3>3, <3>4
  <2> QED
    BY <2>2, <2>3, <2>4
<1>6. BookType'
  <2>1. copy' \in [Copies -> CopyType]
    BY <1>c, <1>5
  <2>2. early' \subseteq Copies
    BY <1>1, <1>3 DEF BookType
  <2> QED
    BY <1>1, <2>1, <2>2 DEF BookType
<1>7. DealsKnown'
  BY <1>1, <1>4 DEF DealsKnown, Simulated
<1>8. \A m, n \in Copies : Apart(m, n)'
  <2>1. \A m \in Copies : Held(m)' = Held(m) /\ Ever(m)' = Ever(m)
    BY <1>5 DEF Held
  <2> QED
    BY <1>1, <2>1 DEF BookInvariant, Apart
<1> QED
  BY <1>5, <1>6, <1>7, <1>8 DEF BookInvariant

LEMMA BookStep == BookInvariant /\ [BookNext]_bvars => BookInvariant'
<1> SUFFICES ASSUME BookInvariant, [BookNext]_bvars PROVE BookInvariant'
  OBVIOUS
<1>1. ASSUME NEW m \in Copies, NEW side \in Sides, OpenCopy(m, side) PROVE BookInvariant'
  BY <1>1, OpenCopyKeeps
<1>2. ASSUME NEW m \in Copies, NEW gain \in Gains, PartlyCloseCopy(m, gain) PROVE BookInvariant'
  BY <1>2, PartlyCloseCopyKeeps
<1>3. ASSUME NEW m \in Copies, NEW gain \in Gains, CloseCopy(m, gain) PROVE BookInvariant'
  BY <1>3, CloseCopyKeeps
<1>4. ASSUME NEW side \in Sides, OwnOpen(side) PROVE BookInvariant'
  BY <1>4, OwnOpenKeeps
<1>5. ASSUME NEW t \in 1..Issued, NEW gain \in Gains, CloseOutside(t, gain) PROVE BookInvariant'
  BY <1>5, CloseOutsideKeeps
<1>6. CASE Report
  BY <1>6, ReportKeeps
<1>7. CASE Sweep
  BY <1>7, SweepKeeps
<1>8. CASE UNCHANGED bvars
  <2>1. BookType' /\ DealsKnown'
    BY <1>8 DEF bvars, BookInvariant, BookType, DealsKnown, Issued, Now, Exits, Simulated
  <2>2. \A m \in Copies : CopyKnown(m)' /\ ResultKnown(m)'
    <3> TAKE m \in Copies
    <3>1. UNCHANGED <<venue, position, deal, copy, early>> /\ Issued' = Issued
      BY <1>8 DEF bvars, Issued
    <3>2. \A t : Exits(t, Now)' = Exits(t, Now) /\ OfTicket(t, Now)' = OfTicket(t, Now) /\ LastDeals(t)' = LastDeals(t)
      BY <3>1 DEF Exits, OfTicket, LastDeals, Now, Simulated
    <3>3. Money(LastDeals(copy[m].ticket))' = Money(LastDeals(copy[m].ticket))
      BY <3>1 DEF Money, LastDeals, Exits, OfTicket, Now, Simulated
    <3> QED
      BY <3>1, <3>2, <3>3 DEF BookInvariant, CopyKnown, ResultKnown, Ever, Held
  <2>3. \A m, n \in Copies : Apart(m, n)'
    BY <1>8 DEF bvars, BookInvariant, Apart, Ever, Held
  <2> QED
    BY <2>1, <2>2, <2>3 DEF BookInvariant
<1> QED
  BY <1>1, <1>2, <1>3, <1>4, <1>5, <1>6, <1>7, <1>8 DEF BookNext

\* What was recorded of a copy is the broker's.
LEMMA BookRecords == BookInvariant => RecordedIsTheBrokers
<1> SUFFICES ASSUME BookInvariant, NEW m \in Copies, copy[m].status = "CLOSED", copy[m].known, m \notin early
             PROVE  \/ copy[m].profit = Money(OfTicket(copy[m].ticket, Now))
                    \/ venue.provider = "mock" /\ Cardinality(Exits(copy[m].ticket, Now)) > 1
  BY DEF RecordedIsTheBrokers
<1> DEFINE t == copy[m].ticket
           E == Exits(t, Now)
           O == OfTicket(t, Now)
<1>1. /\ BookType /\ DealsKnown /\ Now \in Nat /\ copy[m].profit = Money(LastDeals(t))
      /\ t \in 1..Issued /\ position[t].volume = 0
  BY DealTypes DEF BookInvariant, CopyKnown, ResultKnown, Ever
<1>2. E \in SUBSET (1..Now) /\ O \in SUBSET (1..Now) /\ E \subseteq O /\ E # {}
  BY <1>1 DEF Exits, OfTicket, DealsKnown
<1>3. CASE ~Simulated
  BY <1>1, <1>3 DEF LastDeals
<1>4. CASE Simulated /\ ~(Cardinality(E) > 1)
  <2>1. IsFiniteSet(E) /\ IsFiniteSet(O)
    <3> HIDE DEF E, O
    <3> QED
      BY <1>1, <1>2, MoneyType
  <2>2. PICK e : E = {e}
    <3> HIDE DEF E
    <3>1. PICK e \in E : TRUE
      BY <1>2
    <3>2. IsFiniteSet(E \ {e}) /\ Cardinality(E \ {e}) = Cardinality(E) - 1
      BY <2>1, FS_RemoveElement
    <3>3. Cardinality(E) \in Nat /\ Cardinality(E \ {e}) \in Nat
      BY <2>1, <3>2, FS_CardinalityType
    <3>4. Cardinality(E \ {e}) = 0
      BY <1>4, <3>2, <3>3
    <3>5. E \ {e} = {}
      BY <3>2, <3>4, FS_EmptySet
    <3> QED
      BY <3>1, <3>5
  <2>3. e \in O /\ e \in E /\ e \in 1..Now /\ E \in SUBSET (1..Now)
    BY <1>2, <2>2
  <2>4. Max(E) = e
    <3> HIDE DEF E
    <3>1. Max(E) \in E
      BY <1>1, <1>2, Extremes
    <3> QED
      BY <2>2, <3>1
  <2> DEFINE f == [i \in O |-> deal[i].money]
             g == [i \in {e} |-> deal[i].money]
             rest == O \ {e}
  <2>5. \A i \in rest : deal[i].money = 0
    <3> TAKE i \in rest
    <3>1. i \in 1..Now /\ i \notin E /\ deal[i].ticket = t
      BY <2>2 DEF OfTicket
    <3>2. deal[i].entry \in {"IN", "OUT"}
      BY <1>1, <3>1, DealTypes
    <3>3. deal[i].entry = "IN"
      BY <3>1, <3>2 DEF Exits
    <3> QED
      BY <1>1, <1>4, <3>1, <3>3 DEF DealsKnown
  <2>6. \A i \in O : deal[i].money \in Int
    BY <1>1, <1>2, DealTypes
  <2> HIDE DEF E, O
  <2>7. /\ \A i \in O : f[i] \in Int
        /\ \A i \in rest : f[i] = 0
        /\ f[e] = g[e] /\ g[e] \in Int
    BY <2>3, <2>5, <2>6
  <2>8. O = {e} \cup rest /\ {e} \cap rest = {} /\ rest \subseteq O
    BY <2>3
  <2>9. IsFiniteSet({e}) /\ IsFiniteSet(rest)
    BY <2>1, <2>8, FS_Singleton, FS_Subset
  <2>10. Money(O) = Total(f, O) /\ Money({e}) = Total(g, {e})
    BY DEF Money, Total
  <2> HIDE DEF f, g, rest
  <2>11. Total(f, {e} \cup rest) = Total(f, {e}) + Total(f, rest)
    BY <2>7, <2>8, <2>9, TotalOfBoth
  <2>12. Total(f, rest) = 0
    BY <2>7, <2>9, TotalOfZeros
  <2>13. Total(f, {e}) = f[e] /\ Total(g, {e}) = g[e]
    BY <2>7, TotalOfOne
  <2>14. Money(O) = Money({e})
    BY <2>7, <2>8, <2>10, <2>11, <2>12, <2>13
  <2>15. LastDeals(t) = {e}
    BY <1>4, <2>4 DEF LastDeals, E
  <2> QED
    BY <1>1, <2>14, <2>15 DEF O
<1>5. CASE Simulated /\ Cardinality(E) > 1
  BY <1>5 DEF Simulated
<1> QED
  BY <1>3, <1>4, <1>5

\* The trades the broker shows: one of each position that was closed, in part or whole, in the
\* window, of its side.
Traded(from) == {t \in 1..Issued : \E i \in Exits(t, reported) : i >= from}
TradeOf(t, from) ==
  LET last == Max(Exits(t, Now))
      window == {i \in OfTicket(t, reported) : i >= from}
      exits == Exits(t, reported) \cap window
  IN IF Simulated
     THEN [ticket |-> t, side |-> position[t].side, volume |-> deal[last].volume,
           profit |-> deal[last].money, closedAt |-> last]
     ELSE [ticket |-> t, side |-> DirectionOf(window \ exits, Max(exits)), volume |-> Volume(exits),
           profit |-> Money(window), closedAt |-> Max(exits)]

LEMMA TradesShown ==
  ASSUME BookInvariant, NEW from
  PROVE  GetTradeHistory(from) = {TradeOf(t, from) : t \in Traded(from)}
<1>1. CASE Simulated
  <2>1. Traded(from) = {t \in 1..Issued : \E i \in Exits(t, Now) : i >= from}
    BY <1>1 DEF BookInvariant, DealsKnown, Traded
  <2> QED
    BY <1>1, <2>1 DEF GetTradeHistory, RememberedTrades, TradeOf, Simulated
<1>2. CASE ~Simulated
  BY <1>2 DEF GetTradeHistory, GroupedTrades, TradeOf, Simulated, Traded
<1> QED
  BY <1>1, <1>2

LEMMA TradeKnown ==
  ASSUME BookInvariant, NEW from \in Int, NEW t \in Traded(from)
  PROVE  /\ t \in 1..Issued /\ TradeOf(t, from).ticket = t /\ TradeOf(t, from).side = position[t].side
         /\ TradeOf(t, from).closedAt \in Exits(t, Now) /\ TradeOf(t, from).closedAt \in 1..Now
         /\ \E i \in Exits(t, Now) : i >= from
<1> DEFINE E == Exits(t, Now)
           window == {i \in OfTicket(t, reported) : i >= from}
           exits == Exits(t, reported) \cap window
           entry == window \ exits
           p == position[t].side
<1>1. /\ BookType /\ DealsKnown /\ Now \in Nat /\ reported \in 0..Now /\ t \in 1..Issued
      /\ p \in Sides
  BY DealTypes DEF BookInvariant, Traded
<1>2. PICK i \in Exits(t, reported) : i >= from
  BY DEF Traded
<1>3. i \in E /\ E \in SUBSET (1..Now)
  BY <1>1, <1>2 DEF Exits
<1>4. \E j \in E : j >= from
  BY <1>2, <1>3
<1>5. CASE Simulated
  <2>1. Max(E) \in E
    <3> HIDE DEF E
    <3> QED
      BY <1>1, <1>3, Extremes
  <2>2. TradeOf(t, from).ticket = t /\ TradeOf(t, from).side = p /\ TradeOf(t, from).closedAt = Max(E)
    BY <1>5 DEF TradeOf
  <2>3. Max(E) \in 1..Now
    <3> HIDE DEF E
    <3> QED
      BY <1>3, <2>1
  <2> QED
    BY <1>1, <1>4, <2>1, <2>2, <2>3
<1>6. CASE ~Simulated
  <2>1. i \in exits /\ exits \in SUBSET (1..Now)
    BY <1>1, <1>2 DEF Exits, OfTicket
  <2>2. Max(exits) \in exits
    <3> HIDE DEF exits
    <3> QED
      BY <1>1, <2>1, Extremes
  <2> DEFINE x == Max(exits)
  <2>3. x \in E /\ x \in 1..Now /\ deal[x].ticket = t /\ deal[x].entry = "OUT"
    <3> HIDE DEF x
    <3> QED
      BY <1>1, <2>2 DEF Exits, x
  <2>4. TradeOf(t, from).ticket = t /\ TradeOf(t, from).side = DirectionOf(entry, x) /\ TradeOf(t, from).closedAt = x
    BY <1>6 DEF TradeOf
  <2>5. CASE entry # {}
    <3>1. entry \in SUBSET (1..Now)
      BY <1>1 DEF OfTicket
    <3>2. Min(entry) \in entry
      <4> HIDE DEF entry
      <4> QED
        BY <1>1, <2>5, <3>1, Extremes
    <3> DEFINE n == Min(entry)
    <3>3. n \in 1..Now /\ deal[n].ticket = t /\ deal[n].entry # "OUT"
      <4> HIDE DEF n
      <4>1. n \in entry
        BY <3>2 DEF n
      <4> QED
        BY <1>1, <4>1 DEF Exits, OfTicket
    <3> HIDE DEF n
    <3>4. deal[n].entry = "IN"
      BY <1>1, <3>3, DealTypes
    <3>5. deal[n].side = p
      BY <1>1, <3>3, <3>4 DEF DealsKnown, SideOf
    <3>6. DirectionOf(entry, x) = deal[n].side
      BY <2>5 DEF DirectionOf, n
    <3> QED
      BY <1>1, <1>4, <2>3, <2>4, <3>5, <3>6
  <2>6. CASE entry = {}
    <3>1. DirectionOf(entry, x) = Opposite(deal[x].side)
      BY <2>6 DEF DirectionOf
    <3> HIDE DEF x
    <3>2. deal[x].side = Opposite(p)
      BY <1>1, <2>3 DEF DealsKnown, SideOf
    <3>3. Opposite(Opposite(p)) = p
      BY <1>1 DEF Opposite, Sides
    <3> QED
      BY <1>1, <1>4, <2>3, <2>4, <3>1, <3>2, <3>3
  <2> QED
    BY <2>5, <2>6
<1> QED
  BY <1>5, <1>6

\* The rows a member sees: the broker's, and those of the copies it does not know.
RowOf(t, from) ==
  [ticket |-> TradeOf(t, from).ticket, side |-> TradeOf(t, from).side, profit |-> TradeOf(t, from).profit,
   closedAt |-> TradeOf(t, from).closedAt, copied |-> TradeOf(t, from).ticket \in StrategyByTicket(from), of |-> "broker"]
CopyRow(m) ==
  [ticket |-> copy[m].ticket, side |-> copy[m].side, profit |-> copy[m].profit,
   closedAt |-> IF Live(m) THEN 0 ELSE copy[m].closedAt, copied |-> TRUE, of |-> m]
Added(from, reached) == {m \in Mappings(from) : \A line \in Rows0(from, reached) : line.ticket # copy[m].ticket}

LEMMA RowsShown ==
  ASSUME BookInvariant, NEW from, NEW reached \in BOOLEAN
  PROVE  /\ Rows0(from, reached) = IF reached THEN {RowOf(t, from) : t \in Traded(from)} ELSE {}
         /\ History(from, reached) = Rows0(from, reached) \cup {CopyRow(m) : m \in Added(from, reached)}
<1> DEFINE Shown(trade) ==
             [ticket |-> trade.ticket, side |-> trade.side, profit |-> trade.profit, closedAt |-> trade.closedAt,
              copied |-> trade.ticket \in StrategyByTicket(from), of |-> "broker"]
           T == Traded(from)
           H == GetTradeHistory(from)
<1>1. Rows0(from, reached) = {Shown(trade) : trade \in IF reached THEN H ELSE {}}
  BY DEF Rows0
<1>2. \A t : RowOf(t, from) = Shown(TradeOf(t, from))
  BY DEF RowOf
<1>3. History(from, reached) = Rows0(from, reached) \cup {CopyRow(m) : m \in Added(from, reached)}
  BY DEF History, CopyRow, Added
<1>4. H = {TradeOf(t, from) : t \in T}
  BY TradesShown
<1> HIDE DEF Shown, T, H
<1>5. Rows0(from, reached) = IF reached THEN {RowOf(t, from) : t \in T} ELSE {}
  <2>1. CASE reached
    <3>1. Rows0(from, reached) = {Shown(trade) : trade \in H}
      BY <1>1, <2>1
    <3>2. ASSUME NEW x \in Rows0(from, reached) PROVE x \in {RowOf(t, from) : t \in T}
      <4>1. PICK trade \in H : x = Shown(trade)
        BY <3>1, <3>2
      <4>2. PICK t \in T : trade = TradeOf(t, from)
        BY <1>4, <4>1
      <4> QED
        BY <1>2, <4>1, <4>2
    <3>3. ASSUME NEW t \in T PROVE RowOf(t, from) \in Rows0(from, reached)
      <4>1. TradeOf(t, from) \in H
        BY <1>4, <3>3
      <4> QED
        BY <1>2, <3>1, <4>1
    <3> QED
      BY <2>1, <3>2, <3>3
  <2>2. CASE ~reached
    BY <1>1, <2>2
  <2> QED
    BY <2>1, <2>2
<1> QED
  BY <1>3, <1>5 DEF T

LEMMA RowKnown ==
  ASSUME BookInvariant, NEW from \in Int, NEW reached \in BOOLEAN, NEW line \in Rows0(from, reached)
  PROVE  /\ line.ticket \in Traded(from) /\ line = RowOf(line.ticket, from) /\ line.ticket \in 1..Issued
         /\ line.side = position[line.ticket].side /\ line.copied = (line.ticket \in StrategyByTicket(from))
         /\ line.closedAt \in 1..Now /\ \E i \in Exits(line.ticket, Now) : i >= from
<1>1. PICK t \in Traded(from) : line = RowOf(t, from)
  BY RowsShown
<1>2. /\ t \in 1..Issued /\ TradeOf(t, from).ticket = t /\ TradeOf(t, from).side = position[t].side
      /\ TradeOf(t, from).closedAt \in 1..Now /\ \E i \in Exits(t, Now) : i >= from
  BY TradeKnown
<1>3. /\ line.ticket = t /\ line.side = position[t].side /\ line.copied = (t \in StrategyByTicket(from))
      /\ line.closedAt = TradeOf(t, from).closedAt
  BY <1>1, <1>2 DEF RowOf
<1> QED
  BY <1>1, <1>2, <1>3

LEMMA AddedKnown ==
  ASSUME BookInvariant, NEW from, NEW reached \in BOOLEAN, NEW m \in Added(from, reached)
  PROVE  /\ m \in Copies /\ Ever(m) /\ copy[m].ticket \in 1..Issued /\ copy[m].side = position[copy[m].ticket].side
         /\ Live(m) \/ copy[m].status = "CLOSED"
<1>1. m \in Copies /\ (Live(m) \/ copy[m].status = "CLOSED")
  BY DEF Added, Mappings
<1>2. Ever(m)
  BY <1>1 DEF Live, Ever
<1> QED
  BY <1>1, <1>2 DEF BookInvariant, CopyKnown

LEMMA OneRowEach ==
  ASSUME BookInvariant, NEW from \in Int, NEW reached \in BOOLEAN,
         NEW a \in History(from, reached), NEW b \in History(from, reached), a.ticket = b.ticket
  PROVE  a = b \/ venue.netting
<1> DEFINE R == Rows0(from, reached)
           A == Added(from, reached)
<1>1. History(from, reached) = R \cup {CopyRow(m) : m \in A}
  BY RowsShown
<1>2. ASSUME NEW x \in R, NEW y \in R, x.ticket = y.ticket PROVE x = y
  BY <1>2, RowKnown
<1>3. ASSUME NEW x \in R, NEW m \in A PROVE x.ticket # CopyRow(m).ticket
  BY <1>3 DEF Added, CopyRow
<1>4. ASSUME NEW m \in A, NEW n \in A, CopyRow(m).ticket = CopyRow(n).ticket, ~venue.netting PROVE m = n
  <2>1. /\ m \in Copies /\ Ever(m) /\ n \in Copies /\ Ever(n)
    BY AddedKnown
  <2>2. copy[m].ticket \in Held(m) \cap Held(n)
    BY <1>4 DEF CopyRow, Held
  <2> QED
    BY <1>4, <2>1, <2>2 DEF BookInvariant, Apart
<1> HIDE DEF R, A
<1>5. CASE a \in R /\ b \in R
  BY <1>2, <1>5
<1>6. ASSUME NEW m \in A, a = CopyRow(m) PROVE a = b \/ venue.netting
  <2>1. b \notin R
    BY <1>3, <1>6
  <2>2. PICK n \in A : b = CopyRow(n)
    BY <1>1, <2>1
  <2> QED
    BY <1>4, <1>6, <2>2
<1>7. ASSUME NEW m \in A, b = CopyRow(m), a \in R PROVE FALSE
  BY <1>3, <1>7
<1> QED
  BY <1>1, <1>5, <1>6, <1>7

LEMMA RowSides ==
  ASSUME BookInvariant, NEW from \in Int, NEW reached \in BOOLEAN, NEW line \in History(from, reached)
  PROVE  /\ line.side = position[line.ticket].side
         /\ line.copied => \E m \in Copies : line.ticket \in Held(m)
<1>1. CASE line \in Rows0(from, reached)
  <2>1. line.side = position[line.ticket].side /\ line.copied = (line.ticket \in StrategyByTicket(from))
    BY <1>1, RowKnown
  <2>2. ASSUME line.ticket \in StrategyByTicket(from) PROVE \E m \in Copies : line.ticket \in Held(m)
    BY <2>2 DEF StrategyByTicket, Mappings, Held
  <2> QED
    BY <2>1, <2>2
<1>2. ASSUME NEW m \in Added(from, reached), line = CopyRow(m)
      PROVE  line.side = position[line.ticket].side /\ \E n \in Copies : line.ticket \in Held(n)
  <2>1. m \in Copies /\ copy[m].side = position[copy[m].ticket].side
    BY AddedKnown
  <2>2. line.ticket = copy[m].ticket /\ line.side = copy[m].side
    BY <1>2 DEF CopyRow
  <2> QED
    BY <2>1, <2>2 DEF Held
<1> QED
  BY <1>1, <1>2, RowsShown

LEMMA CopiesMarked ==
  ASSUME BookInvariant, NEW from \in Int, NEW reached \in BOOLEAN, NEW line \in History(from, reached),
         NEW m \in Copies \ early, line.ticket \in Held(m)
  PROVE  line.copied
<1>1. CASE line \in Rows0(from, reached)
  <2>1. /\ line.ticket \in 1..Issued /\ line.copied = (line.ticket \in StrategyByTicket(from))
    BY <1>1, RowKnown
  <2>2. PICK i \in Exits(line.ticket, Now) : i >= from
    BY <1>1, RowKnown
  <2>3. /\ CopyKnown(m) /\ ResultKnown(m) /\ copy[m] \in CopyType
    BY DEF BookInvariant, BookType
  <2>4. Ever(m)
    <3>1. CASE ~Ever(m)
      <4>1. Held(m) = {0}
        BY <2>3, <3>1 DEF CopyKnown, Held, NoCopy
      <4> QED
        BY <2>1, <4>1
    <3> QED
      BY <3>1
  <2>5. Live(m) \/ copy[m].status = "CLOSED"
    BY <2>3, <2>4 DEF Live, Ever, CopyType
  <2>6. copy[m].status = "CLOSED" => copy[m].closedAt >= from
    <3> HAVE copy[m].status = "CLOSED"
    <3>1. i <= copy[m].closedAt
      BY <2>3 DEF ResultKnown
    <3>2. i \in Int /\ copy[m].closedAt \in Int
      <4>1. i \in Int
        BY DEF Exits
      <4>2. copy[m].closedAt \in 0..MaxDeals
        BY <2>3 DEF CopyType
      <4> QED
        BY <4>1, <4>2
    <3> QED
      BY <2>2, <3>1, <3>2
  <2>7. m \in Mappings(from)
    BY <2>5, <2>6 DEF Mappings
  <2> QED
    BY <2>1, <2>7 DEF StrategyByTicket, Held
<1>2. ASSUME NEW n \in Added(from, reached), line = CopyRow(n) PROVE line.copied
  BY <1>2 DEF CopyRow
<1> QED
  BY <1>1, <1>2, RowsShown

LEMMA OpenShown ==
  ASSUME BookInvariant, NEW from \in Int, NEW reached \in BOOLEAN, NEW m \in Copies, Live(m)
  PROVE  \E line \in History(from, reached) :
           line.ticket = copy[m].ticket /\ (line.closedAt = 0 \/ PartlyClosed(line.ticket) \/ position[line.ticket].volume = 0)
<1>1. CASE m \in Added(from, reached)
  <2>1. CopyRow(m) \in History(from, reached)
    BY <1>1, RowsShown
  <2>2. CopyRow(m).ticket = copy[m].ticket /\ CopyRow(m).closedAt = 0
    BY DEF CopyRow
  <2> QED
    BY <2>1, <2>2
<1>2. CASE m \notin Added(from, reached)
  <2>1. PICK line \in Rows0(from, reached) : line.ticket = copy[m].ticket
    BY <1>2 DEF Added, Mappings
  <2>2. line \in History(from, reached)
    BY RowsShown
  <2>3. line.ticket \in 1..Issued
    BY RowKnown
  <2>4. Exits(line.ticket, Now) # {}
    BY RowKnown
  <2>5. position[line.ticket].volume > 0 \/ position[line.ticket].volume = 0
    BY <2>3, DealTypes DEF BookInvariant
  <2> QED
    BY <2>1, <2>2, <2>4, <2>5 DEF PartlyClosed
<1> QED
  BY <1>1, <1>2

LEMMA NothingMissing ==
  ASSUME BookInvariant, NEW from \in Int, NEW reached \in BOOLEAN, reached, reported = Now,
         NEW t \in 1..Issued, NEW i \in Exits(t, Now), i >= from
  PROVE  t \in Traded(from) /\ \E line \in Rows0(from, reached) : line.ticket = t
<1>1. t \in Traded(from)
  BY DEF Traded
<1>2. RowOf(t, from) \in Rows0(from, reached)
  BY <1>1, RowsShown
<1>3. RowOf(t, from).ticket = t
  BY <1>1, TradeKnown DEF RowOf
<1> QED
  BY <1>1, <1>2, <1>3

\* The rows of the whole history add up to what every position that was closed moved.
LEMMA TotalShown ==
  ASSUME BookInvariant, NEW from \in Int, from = 1, NEW reached \in BOOLEAN, reached, reported = Now, ~Simulated
  PROVE  TotalProfit(History(from, reached)) = Money({i \in 1..Now : Exits(deal[i].ticket, Now) # {}})
<1> DEFINE R == Rows0(from, reached)
           rows == History(from, reached)
           closed == {line \in rows : line.closedAt # 0}
           T == Traded(from)
<1>1. BookType /\ DealsKnown /\ Now \in Nat /\ Issued \in Nat
  BY DealTypes DEF BookInvariant
<1>2. \A t : \A i \in Exits(t, Now) : i >= from
  BY <1>1 DEF Exits
<1>3. closed = R
  <2>1. ASSUME NEW line \in R PROVE line \in closed
    <3>1. line \in rows
      BY RowsShown
    <3>2. line.closedAt \in 1..Now
      BY RowKnown
    <3>3. line.closedAt # 0
      <4> DEFINE at == line.closedAt
      <4>1. at \in 1..Now
        BY <3>2
      <4> HIDE DEF at
      <4>2. at # 0
        BY <1>1, <4>1
      <4> QED
        BY <4>2 DEF at
    <3> QED
      BY <3>1, <3>3
  <2>2. ASSUME NEW m \in Added(from, reached) PROVE CopyRow(m).closedAt = 0
    <3>1. CASE Live(m)
      BY <3>1 DEF CopyRow
    <3>2. CASE ~Live(m)
      <4>1. copy[m].status = "CLOSED" /\ copy[m].ticket \in 1..Issued /\ m \in Copies
        BY <3>2, AddedKnown
      <4>2. Exits(copy[m].ticket, Now) # {}
        BY <1>1, <4>1 DEF BookInvariant, CopyKnown, DealsKnown
      <4>3. \E line \in R : line.ticket = copy[m].ticket
        BY <1>2, <4>1, <4>2, NothingMissing
      <4> QED
        BY <2>2, <4>3 DEF Added
    <3> QED
      BY <3>1, <3>2
  <2>3. rows = R \cup {CopyRow(m) : m \in Added(from, reached)}
    BY RowsShown
  <2> HIDE DEF R, rows
  <2> QED
    BY <2>1, <2>2, <2>3
<1>4. (\A line \in R : \E t \in T : line = RowOf(t, from)) /\ \A t \in T : RowOf(t, from) \in R
  <2>1. ASSUME NEW line \in R PROVE \E t \in T : line = RowOf(t, from)
    BY RowKnown
  <2>2. ASSUME NEW t \in T PROVE RowOf(t, from) \in R
    BY RowsShown
  <2> QED
    BY <2>1, <2>2
<1>5. IsFiniteSet(R)
  <2> DEFINE f == [t \in T |-> RowOf(t, from)]
             I == 1..Issued
  <2>1. T \in SUBSET I /\ IsFiniteSet(I)
    BY <1>1, FS_Interval DEF Traded
  <2>2. IsFiniteSet(T)
    <3> HIDE DEF T, I
    <3> QED
      BY <2>1, FS_Subset
  <2> HIDE DEF T, R
  <2>3. f \in Surjection(T, R)
    BY <1>4 DEF Surjection
  <2> QED
    BY <2>2, <2>3, FS_Surjection
<1> DEFINE S == {i \in 1..Now : Exits(deal[i].ticket, Now) # {}}
           g == [line \in R |-> line.profit]
           F == [line \in R |-> OfTicket(line.ticket, Now)]
           f == [i \in 1..Now |-> deal[i].money]
<1>6. ASSUME NEW line \in R
      PROVE  /\ line.profit = Money(OfTicket(line.ticket, Now)) /\ Exits(line.ticket, Now) # {}
             /\ OfTicket(line.ticket, Now) \in SUBSET (1..Now)
  <2>1. line = RowOf(line.ticket, from) /\ Exits(line.ticket, Now) # {}
    BY RowKnown
  <2>2. \A t : {i \in OfTicket(t, reported) : i >= from} = OfTicket(t, Now)
    BY <1>1 DEF OfTicket
  <2>3. \A t : TradeOf(t, from).profit = Money(OfTicket(t, Now))
    BY <2>2 DEF TradeOf
  <2>4. \A t : RowOf(t, from).profit = Money(OfTicket(t, Now))
    BY <2>3 DEF RowOf
  <2> QED
    BY <2>1, <2>4 DEF OfTicket
<1>7. UNION {F[line] : line \in R} = S
  <2>1. ASSUME NEW line \in R, NEW i \in F[line] PROVE i \in S
    <3>1. i \in 1..Now /\ deal[i].ticket = line.ticket
      BY <2>1 DEF OfTicket
    <3> QED
      BY <1>6, <3>1
  <2>2. ASSUME NEW i \in S PROVE \E line \in R : i \in F[line]
    <3>1. i \in 1..Now /\ deal[i].ticket \in 1..Issued /\ Exits(deal[i].ticket, Now) # {}
      BY <1>1, <2>2 DEF DealsKnown
    <3>2. PICK line \in R : line.ticket = deal[i].ticket
      BY <1>2, <3>1, NothingMissing
    <3> QED
      BY <3>1, <3>2 DEF OfTicket
  <2> HIDE DEF F, R, S
  <2> QED
    BY <2>1, <2>2
<1>8. \A line \in R : IsFiniteSet(F[line])
  BY <1>1, <1>6, MoneyType
<1>9. \A q, line \in R : q # line => F[q] \cap F[line] = {}
  <2> TAKE q, line \in R
  <2> HAVE q # line
  <2>1. q = RowOf(q.ticket, from) /\ line = RowOf(line.ticket, from)
    BY RowKnown
  <2> QED
    BY <2>1 DEF OfTicket
<1>10. \A line \in R : \A i \in F[line] : f[i] \in Int
  BY <1>1, <1>6, DealTypes
<1>11. ASSUME NEW U \in SUBSET (1..Now) PROVE Money(U) = Total(f, U)
  <2> DEFINE h == [i \in U |-> deal[i].money]
  <2>1. \A i \in U : h[i] = f[i]
    OBVIOUS
  <2>2. Money(U) = Total(h, U)
    BY DEF Money, Total
  <2> HIDE DEF h, f
  <2> QED
    BY <2>1, <2>2, TotalsAgree
<1>12. \A line \in R : g[line] = Total(f, F[line])
  BY <1>6, <1>11
<1>13. TotalProfit(rows) = Total(g, R)
  <2>1. TotalProfit(rows) = SumFunction([line \in closed |-> line.profit])
    BY DEF TotalProfit
  <2>2. TotalProfit(rows) = SumFunction(g)
    BY <1>3, <2>1
  <2>3. DOMAIN g = R
    OBVIOUS
  <2> HIDE DEF R, g, rows
  <2> QED
    BY <2>2, <2>3 DEF SumFunction, Total
<1>14. Total(g, R) = Total(f, S)
  <2> HIDE DEF R, F, f, g, S
  <2>1. Total(g, R) = Total(f, UNION {F[line] : line \in R})
    <3>1. AddsParts(g, R, f, F)
      BY <1>5, <1>8, <1>9, <1>10, <1>12 DEF AddsParts
    <3> QED
      BY <3>1, TotalOfParts
  <2> QED
    BY <1>7, <2>1
<1>15. S \in SUBSET (1..Now)
  OBVIOUS
<1>16. Money(S) = Total(f, S)
  <2> HIDE DEF S, f
  <2> QED
    BY <1>11, <1>15
<1> QED
  BY <1>13, <1>14, <1>16

LEMMA BookShows == BookInvariant => HistoryIsRight
<1> SUFFICES ASSUME BookInvariant, NEW from \in 1..(Now + 1), NEW reached \in BOOLEAN
             PROVE  LET rows == History(from, reached)
                    IN /\ \A a, b \in rows : a.ticket = b.ticket => a = b \/ venue.netting
                       /\ \A line \in rows : line.side = position[line.ticket].side
                       /\ \A line \in rows : line.copied => \E m \in Copies : line.ticket \in Held(m)
                       /\ \A line \in rows, m \in Copies \ early : line.ticket \in Held(m) => line.copied
                       /\ \A m \in Copies : Live(m) =>
                            \E line \in rows : line.ticket = copy[m].ticket /\ (line.closedAt = 0 \/ PartlyClosed(line.ticket)
                                                                              \/ position[line.ticket].volume = 0)
                       /\ reached /\ reported = Now =>
                            \A t \in 1..Issued : (\E i \in Exits(t, Now) : i >= from) => \E line \in rows : line.ticket = t
                       /\ reached /\ reported = Now /\ from = 1 /\ venue.provider = "metaapi" =>
                            TotalProfit(rows) = Money({i \in 1..Now : Exits(deal[i].ticket, Now) # {}})
  BY DEF HistoryIsRight
<1> DEFINE rows == History(from, reached)
<1>1. from \in Int
  OBVIOUS
<1>2. \A a, b \in rows : a.ticket = b.ticket => a = b \/ venue.netting
  BY <1>1, OneRowEach
<1>3. \A line \in rows : line.side = position[line.ticket].side /\ (line.copied => \E m \in Copies : line.ticket \in Held(m))
  BY <1>1, RowSides
<1>4. \A line \in rows, m \in Copies \ early : line.ticket \in Held(m) => line.copied
  BY <1>1, CopiesMarked
<1>5. \A m \in Copies : Live(m) =>
        \E line \in rows : line.ticket = copy[m].ticket /\ (line.closedAt = 0 \/ PartlyClosed(line.ticket)
                                                          \/ position[line.ticket].volume = 0)
  BY <1>1, OpenShown
<1>6. ASSUME reached, reported = Now, NEW t \in 1..Issued, NEW i \in Exits(t, Now), i >= from
      PROVE  \E line \in rows : line.ticket = t
  <2>1. PICK line \in Rows0(from, reached) : line.ticket = t
    BY <1>1, <1>6, NothingMissing
  <2>2. line \in History(from, reached)
    BY RowsShown
  <2> QED
    BY <1>6, <2>1, <2>2
<1>7. ASSUME reached, reported = Now, from = 1, venue.provider = "metaapi"
      PROVE  TotalProfit(rows) = Money({i \in 1..Now : Exits(deal[i].ticket, Now) # {}})
  <2>1. ~Simulated
    BY <1>7 DEF Simulated
  <2> QED
    BY <1>1, <1>7, <2>1, TotalShown
<1> QED
  BY <1>2, <1>3, <1>4, <1>5, <1>6, <1>7

\* However late the broker reports, whatever it closes by itself and whichever window a member
\* asks for: the history page shows each position once, of its side, marked copied when it is,
\* nothing open or reported missing, and adds up to what the account moved; and the result
\* recorded of a copy is the broker's, but for those read too early (getAccountTradeHistory,
\* getClosedPosition, reconcileAccount).
THEOREM BookIsAlwaysRight == DeskSpec => []BookIsRight
<1>1. DeskInit => BookInvariant
  BY BookStart DEF DeskInit
<1>2. BookInvariant /\ [DeskNext]_<<part, svars, bvars, lvars>> => BookInvariant'
  <2>1. [DeskNext]_<<part, svars, bvars, lvars>> => [BookNext]_bvars
    BY DEF DeskNext
  <2> QED
    BY <2>1, BookStep
<1>3. BookInvariant => BookIsRight
  BY BookRecords, BookShows DEF BookIsRight, BookInvariant
<1> QED
  BY <1>1, <1>2, <1>3, PTL DEF DeskSpec
=============================================================================
