---------------------------- MODULE ConsoleProofs ----------------------------
(***************************************************************************)
(* Proofs about the console: about Access, for any number of users,        *)
(* browsers, reset links and requests, and about the pages, for any broker *)
(* directory, number of tabs, uploads, polls and payments.                 *)
(*                                                                         *)
(* Requests of two browsers about one user may overlap anywhere; what is   *)
(* proved is about users of whom no two ever did (those not in raced).  Of *)
(* such a user one browser is at work at most, so that what its request    *)
(* has read still holds when it writes (Duty), and what the rows of a user *)
(* promise (Held) is touched by that browser only.                         *)
(***************************************************************************)
EXTENDS Console, WellFoundedInduction, FiniteSetTheorems, TLAPS

-----------------------------------------------------------------------------
(* The inductive invariant.                                                *)

\* A request has what its next step takes from it.
Shaped(t) ==
  /\ pc[t] \in {"fail", "succeed", "session", "count", "write", "suspend", "revoke", "blockers", "remove"}
       => saw[t] \in UserType
  /\ pc[t] = "reset" => input[t].link \in DOMAIN link /\ link[input[t].link].user = subject[t]
  /\ pc[t] = "change" => session[t] # NoSession /\ session[t].user = subject[t]

TypeInvariant ==
  /\ TypeOK
  /\ Cardinality(DOMAIN link) \in Nat
  /\ \A t \in Tabs : Shaped(t)

\* Browser t works on user u.
Working(t, u) == pc[t] # "idle" /\ subject[t] = u

\* One browser at a time works on a user who is not in raced.
Alone(u) == u \notin raced => \A s, t \in Tabs : Working(s, u) /\ Working(t, u) => s = t

\* What a request has read of such a user is so until it writes.
SeesRow(t) ==
  LET row == user[subject[t]] IN
  /\ row # Absent
  /\ saw[t].role = row.role /\ saw[t].status = row.status /\ saw[t].password = row.password
  /\ pc[t] = "fail" => saw[t].failed = row.failed
Duty(t) ==
  pc[t] # "idle" /\ subject[t] \notin raced =>
    /\ pc[t] \in {"fail", "succeed", "session", "count", "write", "blockers", "remove"} => SeesRow(t)
    /\ pc[t] \in {"succeed", "session", "start", "change"} =>
         user[subject[t]] # Absent /\ user[subject[t]].status = "ACTIVE"
    /\ pc[t] = "token" => \A k \in DOMAIN link : link[k].user = subject[t] => ~link[k].usable
    /\ pc[t] = "reset" => link[input[t].link].uses = 0

\* The counter is exact, and locks.
Counted(u) ==
  user[u] # Absent => user[u].failed = misses[u] /\ (misses[u] >= MaxFailed => user[u].lock # "none")

\* One link can be used at most, and not again.
Linked(u) ==
  \A k \in DOMAIN link : link[k].user = u =>
    /\ link[k].uses <= 1 /\ (link[k].usable => link[k].uses = 0)
    /\ \A j \in DOMAIN link : link[j].user = u /\ link[j].usable /\ link[k].usable => j = k

\* Sessions that were not revoked know the password.
Knowing(u) ==
  \A t \in Tabs : session[t] # NoSession /\ session[t].user = u /\ ~session[t].revoked =>
    user[u] # Absent /\ session[t].password = user[u].password

\* Who is suspended is still, or about to be.
Stilled(u) ==
  crashes = 0 /\ user[u] # Absent /\ user[u].status = "SUSPENDED" =>
    \/ \E t \in Tabs : Working(t, u) /\ pc[t] = "suspend"
    \/ /\ u \notin copying
       /\ \A t \in Tabs : session[t] # NoSession /\ session[t].user = u => session[t].revoked

Held(u) == u \notin raced => Counted(u) /\ Linked(u) /\ Knowing(u) /\ Stilled(u)

AccessInvariant ==
  /\ TypeInvariant
  /\ \A u \in Users : Alone(u) /\ Held(u)
  /\ \A t \in Tabs : Duty(t)

\* A request is about to take an administrator away.
Admins == {v \in Users : user[v] # Absent /\ user[v].role = "ADMIN" /\ user[v].status = "ACTIVE"}
Threatens(t) ==
  /\ pc[t] \in {"write", "remove"} /\ saw[t].role = "ADMIN"
  /\ pc[t] = "write" => input[t].role # "ADMIN" \/ input[t].status # "ACTIVE"

\* As long as no two requests met, one at most is, and another administrator is left.
AdminInvariant ==
  /\ AccessInvariant
  /\ raced = {} =>
       /\ (\E u \in Users : user[u] # Absent) \/ (\E t \in Tabs : pc[t] = "create" /\ ~input[t].first) => Admins # {}
       /\ \A t \in Tabs : Threatens(t) => Admins \ {subject[t]} # {}
       /\ \A s, t \in Tabs : Threatens(s) /\ Threatens(t) => s = t

-----------------------------------------------------------------------------
(* Types.                                                                  *)

RowsType ==
  /\ user \in [Users -> UserType \cup {Absent}]
  /\ session \in [Tabs -> SessionType \cup {NoSession}]
  /\ link \in [1..Cardinality(DOMAIN link) -> LinkType] /\ Cardinality(DOMAIN link) \in Nat
  /\ copying \subseteq {u \in Users : user[u] # Absent}
  /\ misses \in [Users -> Nat]
TrafficType ==
  /\ pc \in [Tabs -> Steps]
  /\ subject \in [Tabs -> Users]
  /\ saw \in [Tabs -> UserType \cup {Absent}]
  /\ input \in [Tabs -> InputType]
  /\ raced \subseteq Users \cup {"admins"}
  /\ requests \in 0..MaxRequests /\ crashes \in 0..MaxCrashes

LEMMA TypeParts == TypeInvariant <=> RowsType /\ TrafficType /\ \A t \in Tabs : Shaped(t)
BY DEF TypeInvariant, TypeOK, RowsType, TrafficType

\* Rows are told from their absence.
LEMMA RowsAreRows == Absent \notin UserType /\ NoSession \notin SessionType
BY AccessAssumption DEF UserType, SessionType, AccessAssumption

\* Links are numbered.
LEMMA LinkRows ==
  ASSUME TypeInvariant
  PROVE  \E n \in Nat : /\ n = Cardinality(DOMAIN link) /\ DOMAIN link = 1..n
                         /\ \A k \in DOMAIN link : link[k] \in LinkType /\ k \in Nat
<1>1. PICK n \in Nat : n = Cardinality(DOMAIN link)
  BY DEF TypeInvariant
<1>2. link \in [1..n -> LinkType]
  BY <1>1 DEF TypeInvariant, TypeOK
<1>3. DOMAIN link = 1..n /\ \A k \in 1..n : link[k] \in LinkType /\ k \in Nat
  BY <1>2
<1> QED
  BY <1>1, <1>3

\* A link more.
LEMMA OneMore ==
  ASSUME NEW n \in Nat
  PROVE  Cardinality(1..n) = n
BY FS_Interval

\* What the administrator's form sends.
LEMMA FormsAreInput == \A filled \in Forms : filled \in InputType
<1>1. {FALSE} \subseteq BOOLEAN /\ {0} \subseteq Nat
  OBVIOUS
<1> QED
  BY <1>1 DEF Forms, InputType

\* What a browser's request moves: itself, for the user it is about.
Moves(t, u) ==
  /\ \A s \in Tabs \ {t} :
       pc'[s] = pc[s] /\ subject'[s] = subject[s] /\ saw'[s] = saw[s] /\ input'[s] = input[s]
  /\ subject'[t] = u /\ (pc[t] # "idle" => subject[t] = u)
  /\ raced \subseteq raced' /\ (crashes' = 0 => crashes = 0)
  /\ pc[t] = "idle" /\ u \notin raced' => \A s \in Tabs \ {t} : ~Working(s, u)
\* What it leaves alone: the rows of others.
Keeps(v) ==
  /\ user'[v] = user[v] /\ misses'[v] = misses[v] /\ (v \in copying' <=> v \in copying)
  /\ \A s \in Tabs : session'[s] # NoSession /\ session'[s].user = v => session'[s] = session[s]
  /\ \A k \in DOMAIN link' : link'[k].user = v => k \in DOMAIN link /\ link'[k] = link[k]

\* Links keep their owners, and the session of a browser at work its user.
Stays(t) ==
  /\ \A k \in DOMAIN link : k \in DOMAIN link' /\ link'[k].user = link[k].user /\ (link'[k].uses # link[k].uses => link[k].user = subject'[t])
  /\ \A s \in Tabs \ {t} : session[s] # NoSession => session'[s] # NoSession /\ session'[s].user = session[s].user

Own(t, u) == Counted(u) /\ Linked(u) /\ Knowing(u) /\ Stilled(u) /\ Duty(t)

\* A step of browser t about user u.
Acts(t, u) ==
  /\ RowsType' /\ TrafficType' /\ Shaped(t)'
  /\ Moves(t, u) /\ Stays(t) /\ (\A v \in Users \ {u} : Keeps(v))
  /\ u \notin raced' => Own(t, u)'

LEMMA OthersShaped ==
  ASSUME NEW t \in Tabs, NEW u \in Users, Acts(t, u), NEW s \in Tabs \ {t}, Shaped(s)
  PROVE  Shaped(s)'
BY DEF Acts, Moves, Stays, Shaped

LEMMA OthersAlone ==
  ASSUME NEW t \in Tabs, NEW u \in Users, Acts(t, u), NEW v \in Users, \A w \in Users : Alone(w)
  PROVE  Alone(v)'
<1> SUFFICES ASSUME v \notin raced', NEW r \in Tabs, NEW s \in Tabs, Working(r, v)', Working(s, v)'
             PROVE  r = s
  BY DEF Alone
<1>1. /\ \A x \in Tabs \ {t} : pc'[x] = pc[x] /\ subject'[x] = subject[x]
      /\ subject'[t] = u /\ (pc[t] # "idle" => subject[t] = u) /\ v \notin raced
      /\ pc[t] = "idle" /\ u \notin raced' => \A x \in Tabs \ {t} : ~Working(x, u)
  BY DEF Acts, Moves
<1>2. \A x \in Tabs \ {t} : Working(x, v)' <=> Working(x, v)
  BY <1>1 DEF Working
<1>3. Working(t, v)' => u = v
  BY <1>1 DEF Working
<1>4. ASSUME Working(t, v)', NEW x \in Tabs \ {t}, Working(x, v)
      PROVE  FALSE
  <2>1. pc[t] # "idle" => Working(t, v)
    BY <1>1, <1>3, <1>4 DEF Working
  <2> QED
    BY <1>1, <1>3, <1>4, <2>1 DEF Alone
<1> QED
  BY <1>1, <1>2, <1>4 DEF Alone

LEMMA OthersOnDuty ==
  ASSUME NEW t \in Tabs, NEW u \in Users, Acts(t, u), NEW s \in Tabs \ {t}, Duty(s), \A w \in Users : Alone(w),
         TypeInvariant
  PROVE  Duty(s)'
<1> SUFFICES ASSUME pc'[s] # "idle", subject'[s] \notin raced' PROVE Duty(s)'
  BY DEF Duty
<1>1. /\ pc'[s] = pc[s] /\ subject'[s] = subject[s] /\ saw'[s] = saw[s] /\ input'[s] = input[s]
      /\ subject'[t] = u /\ (pc[t] # "idle" => subject[t] = u) /\ subject[s] \notin raced
      /\ pc[t] = "idle" /\ u \notin raced' => \A x \in Tabs \ {t} : ~Working(x, u)
  BY DEF Acts, Moves
<1>2. PICK v \in Users : v = subject[s]
  BY DEF TypeInvariant, TypeOK
<1>3. v # u
  <2> SUFFICES ASSUME v = u PROVE FALSE
    OBVIOUS
  <2>1. Working(s, u)
    BY <1>1, <1>2 DEF Working
  <2>2. pc[t] # "idle"
    BY <1>1, <1>2, <2>1
  <2>3. Working(t, u)
    BY <1>1, <2>2 DEF Working
  <2> QED
    BY <1>1, <1>2, <2>1, <2>3 DEF Alone
<1>4. user'[v] = user[v] /\ \A k \in DOMAIN link' : link'[k].user = v => k \in DOMAIN link /\ link'[k] = link[k]
  BY <1>3 DEF Acts, Keeps
<1>5. SeesRow(s) => SeesRow(s)'
  BY <1>1, <1>2, <1>4 DEF SeesRow
<1>6. pc[s] = "reset" => link'[input[s].link].uses = link[input[s].link].uses
  BY <1>1, <1>2, <1>3 DEF Acts, Stays, TypeInvariant, Shaped
<1> QED
  BY <1>1, <1>2, <1>4, <1>5, <1>6 DEF Duty

LEMMA OthersHeld ==
  ASSUME NEW t \in Tabs, NEW u \in Users, Acts(t, u), NEW v \in Users \ {u}, Held(v), TypeInvariant
  PROVE  Held(v)'
<1> SUFFICES ASSUME v \notin raced' PROVE Counted(v)' /\ Linked(v)' /\ Knowing(v)' /\ Stilled(v)'
  BY DEF Held
<1>1. Keeps(v) /\ v \notin raced /\ (crashes' = 0 => crashes = 0)
  BY DEF Acts, Moves
<1>2. Counted(v)'
  BY <1>1 DEF Keeps, Held, Counted
<1>3. Linked(v)'
  BY <1>1 DEF Keeps, Held, Linked
<1>4. Knowing(v)'
  BY <1>1 DEF Keeps, Held, Knowing
<1>5. Stilled(v)'
  <2>1. ASSUME NEW s \in Tabs, Working(s, v), pc[s] = "suspend"
        PROVE  Working(s, v)' /\ pc'[s] = "suspend"
    <3>1. s # t
      BY <2>1 DEF Acts, Moves, Working
    <3> QED
      BY <2>1, <3>1 DEF Acts, Moves, Working
  <2> QED
    BY <1>1, <2>1 DEF Keeps, Held, Stilled
<1> QED
  BY <1>2, <1>3, <1>4, <1>5

\* So a step of a browser keeps the invariant, if it does for its own user.
LEMMA ActsHold ==
  ASSUME AccessInvariant, NEW t \in Tabs, NEW u \in Users, Acts(t, u)
  PROVE  AccessInvariant'
<1>1. TypeInvariant /\ (\A v \in Users : Alone(v) /\ Held(v)) /\ \A s \in Tabs : Duty(s)
  BY DEF AccessInvariant
<1>2. \A s \in Tabs : Shaped(s)'
  BY <1>1, OthersShaped DEF Acts, TypeInvariant
<1>3. TypeInvariant'
  BY <1>2 DEF Acts, TypeInvariant, TypeOK, RowsType, TrafficType
<1>4. \A v \in Users : Alone(v)'
  BY <1>1, OthersAlone
<1>5. \A v \in Users : Held(v)'
  BY <1>1, OthersHeld DEF Acts, Own, Held
<1>6. \A s \in Tabs : Duty(s)'
  <2>1. Duty(t)'
    BY DEF Acts, Moves, Own, Duty
  <2> QED
    BY <1>1, <2>1, OthersOnDuty
<1> QED
  BY <1>3, <1>4, <1>5, <1>6 DEF AccessInvariant

-----------------------------------------------------------------------------
(* How requests begin, go on and end.                                      *)

LEMMA Sends ==
  ASSUME TypeInvariant, NEW t \in Tabs, NEW u \in Users, NEW step \in Steps, Send(t, u, step), crashes' = crashes,
         NEW x \in UserType \cup {Absent}, NEW y \in InputType,
         saw' = [saw EXCEPT ![t] = x], input' = [input EXCEPT ![t] = y]
  PROVE  /\ TrafficType' /\ Moves(t, u)
         /\ pc[t] = "idle" /\ pc'[t] = step /\ subject'[t] = u /\ saw'[t] = x /\ input'[t] = y
<1>1. TrafficType
  BY TypeParts
<1>2. /\ pc[t] = "idle" /\ requests < MaxRequests /\ requests' = requests + 1
      /\ pc' = [pc EXCEPT ![t] = step] /\ subject' = [subject EXCEPT ![t] = u]
      /\ raced' = IF \E s \in Tabs \ {t} : pc[s] # "idle" /\ subject[s] = u THEN raced \cup {u} ELSE raced
  BY DEF Send
<1>3. requests' \in 0..MaxRequests
  BY <1>1, <1>2, AccessAssumption DEF TrafficType, AccessAssumption
<1>4. TrafficType'
  BY <1>1, <1>2, <1>3 DEF TrafficType
<1>5. /\ pc'[t] = step /\ subject'[t] = u /\ saw'[t] = x /\ input'[t] = y
      /\ \A s \in Tabs \ {t} :
           pc'[s] = pc[s] /\ subject'[s] = subject[s] /\ saw'[s] = saw[s] /\ input'[s] = input[s]
  BY <1>1, <1>2 DEF TrafficType
<1>6. Moves(t, u)
  BY <1>2, <1>5 DEF Moves, Working
<1> QED
  BY <1>2, <1>4, <1>5, <1>6

\* A request that was sent and changed nothing yet.
LEMMA Unread ==
  ASSUME TypeInvariant, NEW t \in Tabs
  PROVE  /\ saw[t] \in UserType \cup {Absent} /\ saw = [saw EXCEPT ![t] = saw[t]]
         /\ input[t] \in InputType /\ input = [input EXCEPT ![t] = input[t]]
BY DEF TypeInvariant, TypeOK

LEMMA Ends ==
  ASSUME TypeInvariant, NEW t \in Tabs, NEW u \in Users, u = subject[t], pc[t] # "idle", Done(t)
  PROVE  TrafficType' /\ Moves(t, u) /\ pc'[t] = "idle" /\ Shaped(t)' /\ Duty(t)' /\ crashes' = crashes /\ raced' = raced
<1>1. TrafficType
  BY TypeParts
<1>2. /\ pc' = [pc EXCEPT ![t] = "idle"] /\ saw' = [saw EXCEPT ![t] = Absent] /\ input' = [input EXCEPT ![t] = Nothing]
      /\ subject' = subject /\ raced' = raced /\ requests' = requests /\ crashes' = crashes
  BY DEF Done
<1>3. "idle" \in Steps /\ Nothing \in InputType
  BY DEF Steps, Nothing, InputType
<1>4. TrafficType'
  BY <1>1, <1>2, <1>3 DEF TrafficType
<1>5. /\ pc'[t] = "idle"
      /\ \A s \in Tabs \ {t} :
           pc'[s] = pc[s] /\ subject'[s] = subject[s] /\ saw'[s] = saw[s] /\ input'[s] = input[s]
  BY <1>1, <1>2 DEF TrafficType
<1>6. Shaped(t)' /\ Duty(t)'
  BY <1>5 DEF Shaped, Duty
<1>7. Moves(t, u)
  BY <1>2, <1>5 DEF Moves
<1> QED
  BY <1>2, <1>4, <1>5, <1>6, <1>7

LEMMA GoesOn ==
  ASSUME TypeInvariant, NEW t \in Tabs, NEW u \in Users, u = subject[t], pc[t] # "idle", NEW step \in Steps,
         pc' = [pc EXCEPT ![t] = step], NEW x \in UserType \cup {Absent}, saw' = [saw EXCEPT ![t] = x],
         raced' \in {raced, raced \cup {"admins"}}, UNCHANGED <<subject, input, requests, crashes>>
  PROVE  TrafficType' /\ Moves(t, u) /\ pc'[t] = step /\ subject'[t] = u /\ saw'[t] = x /\ input'[t] = input[t]
<1>1. TrafficType
  BY TypeParts
<1>2. TrafficType'
  BY <1>1 DEF TrafficType
<1>3. /\ pc'[t] = step /\ saw'[t] = x /\ input'[t] = input[t] /\ subject'[t] = u
      /\ \A s \in Tabs \ {t} :
           pc'[s] = pc[s] /\ subject'[s] = subject[s] /\ saw'[s] = saw[s] /\ input'[s] = input[s]
  BY <1>1 DEF TrafficType
<1> QED
  BY <1>2, <1>3 DEF Moves, Working

LEMMA Going ==
  ASSUME TypeInvariant, NEW t \in Tabs, NEW u \in Users, u = subject[t], pc[t] # "idle", NEW step \in Steps, Go(t, step)
  PROVE  /\ TrafficType' /\ Moves(t, u) /\ crashes' = crashes /\ raced' = raced
         /\ pc'[t] = step /\ subject'[t] = u /\ saw'[t] = saw[t] /\ input'[t] = input[t]
<1>1. /\ pc' = [pc EXCEPT ![t] = step] /\ saw' = [saw EXCEPT ![t] = saw[t]] /\ saw[t] \in UserType \cup {Absent}
      /\ raced' \in {raced, raced \cup {"admins"}} /\ UNCHANGED <<subject, input, requests, crashes>>
  BY Unread DEF Go
<1>2. /\ TrafficType' /\ Moves(t, u)
      /\ pc'[t] = step /\ subject'[t] = u /\ saw'[t] = saw[t] /\ input'[t] = input[t]
  BY <1>1, GoesOn
<1>3. crashes' = crashes /\ raced' = raced
  BY DEF Go
<1> QED
  BY <1>2, <1>3

\* A step that writes no row.
LEMMA RowsStay ==
  ASSUME AccessInvariant, NEW t \in Tabs, NEW u \in Users, UNCHANGED <<user, session, link, copying, misses>>,
         TrafficType', Moves(t, u), Shaped(t)', crashes' = 0 => pc[t] # "suspend", u \notin raced' => Duty(t)'
  PROVE  Acts(t, u)
<1>1. RowsType /\ Held(u)
  BY TypeParts DEF AccessInvariant
<1>2. RowsType'
  BY <1>1 DEF RowsType
<1>3. Stays(t) /\ \A v \in Users \ {u} : Keeps(v)
  BY DEF Stays, Keeps
<1>4. ASSUME u \notin raced'
      PROVE  Own(t, u)'
  <2>1. u \notin raced /\ (crashes' = 0 => crashes = 0)
    BY <1>4 DEF Moves
  <2>2. Counted(u)' /\ Linked(u)' /\ Knowing(u)'
    BY <1>1, <2>1 DEF Held, Counted, Linked, Knowing
  <2>3. Stilled(u)'
    <3>1. ASSUME NEW s \in Tabs, Working(s, u), pc[s] = "suspend", crashes' = 0
          PROVE  Working(s, u)' /\ pc'[s] = "suspend"
      BY <3>1 DEF Moves, Working
    <3> QED
      BY <1>1, <2>1, <3>1 DEF Held, Stilled
  <2> QED
    BY <1>4, <2>2, <2>3 DEF Own
<1> QED
  BY <1>2, <1>3, <1>4 DEF Acts
-----------------------------------------------------------------------------
(* Requests that are sent.                                                 *)

LEMMA RegisterActs ==
  ASSUME AccessInvariant, NEW t \in Tabs, NEW u \in Users, Register(t, u)
  PROVE  Acts(t, u)
<1>1. TypeInvariant
  BY DEF AccessInvariant
<1>2. PICK y : y = [input[t] EXCEPT !.first = (\A v \in Users : user[v] = Absent)]
  OBVIOUS
<1>3. input' = [input EXCEPT ![t] = y]
  BY <1>2 DEF Register
<1>4. y \in InputType
  <2>1. PICK b \in BOOLEAN : b = (\A v \in Users : user[v] = Absent)
    OBVIOUS
  <2>2. y = [input[t] EXCEPT !.first = b]
    BY <1>2, <2>1
  <2> QED
    BY <1>1, <2>2, Unread DEF InputType
<1>5. "create" \in Steps
  BY DEF Steps
<1>6. TrafficType' /\ Moves(t, u) /\ pc[t] = "idle" /\ pc'[t] = "create"
  BY <1>1, <1>3, <1>4, <1>5, Sends, Unread DEF Register
<1>7. Shaped(t)' /\ Duty(t)'
  BY <1>6 DEF Shaped, Duty
<1> QED
  BY <1>6, <1>7, RowsStay DEF Register

LEMMA LoginActs ==
  ASSUME AccessInvariant, NEW t \in Tabs, NEW u \in Users, NEW correct \in BOOLEAN, Login(t, u, correct)
  PROVE  Acts(t, u)
<1>1. TypeInvariant
  BY DEF AccessInvariant
<1>2. PICK step : step = IF correct THEN "succeed" ELSE "fail"
  OBVIOUS
<1>3. step \in Steps /\ Send(t, u, step)
  BY <1>2 DEF Steps, Login
<1>4. user[u] \in UserType
  BY <1>1 DEF TypeInvariant, TypeOK, Login
<1>5. /\ TrafficType' /\ Moves(t, u) /\ pc[t] = "idle" /\ pc'[t] = step /\ subject'[t] = u /\ saw'[t] = user[u]
      /\ user' = user
  <2>1. /\ saw' = [saw EXCEPT ![t] = user[u]] /\ input' = [input EXCEPT ![t] = input[t]] /\ input[t] \in InputType
        /\ user' = user /\ crashes' = crashes
    BY <1>1, Unread DEF Login
  <2> QED
    BY <1>1, <1>3, <1>4, <2>1, Sends
<1>6. Shaped(t)'
  BY <1>2, <1>4, <1>5 DEF Shaped
<1>7. user[u] # Absent /\ (step = "succeed" => user[u].status = "ACTIVE")
  BY <1>2 DEF Login
<1>8. SeesRow(t)'
  BY <1>5, <1>7 DEF SeesRow
<1>9. Duty(t)'
  BY <1>2, <1>5, <1>7, <1>8 DEF Duty
<1> QED
  BY <1>5, <1>6, <1>9, RowsStay DEF Login

LEMMA OpenLinkActs ==
  ASSUME AccessInvariant, NEW t \in Tabs, NEW k \in DOMAIN link, OpenLink(t, k)
  PROVE  \E u \in Users : Acts(t, u)
<1>1. TypeInvariant
  BY DEF AccessInvariant
<1>2. link[k] \in LinkType /\ k \in Nat
  BY <1>1, LinkRows
<1>3. PICK u \in Users : u = link[k].user
  BY <1>2 DEF LinkType
<1>4. PICK y : y = [input[t] EXCEPT !.link = k]
  OBVIOUS
<1>5. y \in InputType /\ y.link = k
  BY <1>1, <1>2, <1>4, Unread DEF InputType
<1>6. "reset" \in Steps
  BY DEF Steps
<1>7. /\ TrafficType' /\ Moves(t, u) /\ pc[t] = "idle" /\ pc'[t] = "reset" /\ subject'[t] = u /\ input'[t].link = k
      /\ link' = link /\ link[k].usable
  <2>1. /\ Send(t, u, "reset") /\ saw' = [saw EXCEPT ![t] = saw[t]] /\ saw[t] \in UserType \cup {Absent}
        /\ input' = [input EXCEPT ![t] = y] /\ crashes' = crashes /\ link' = link /\ link[k].usable
    BY <1>1, <1>3, <1>4, Unread DEF OpenLink, ResetForm
  <2>2. /\ TrafficType' /\ Moves(t, u)
        /\ pc[t] = "idle" /\ pc'[t] = "reset" /\ subject'[t] = u /\ input'[t] = y
    BY <1>1, <1>5, <1>6, <2>1, Sends
  <2> QED
    BY <1>5, <2>1, <2>2
<1>8. Shaped(t)'
  BY <1>3, <1>7 DEF Shaped
<1>9. ASSUME u \notin raced' PROVE Duty(t)'
  <2>1. Linked(u)
    BY <1>7, <1>9 DEF Moves, AccessInvariant, Held
  <2>2. link[k].uses = 0
    BY <1>3, <1>7, <2>1 DEF Linked
  <2> QED
    BY <1>7, <2>2 DEF Duty
<1>10. Acts(t, u)
  BY <1>7, <1>8, <1>9, RowsStay DEF OpenLink
<1> QED
  BY <1>10

\* The password form and the start button are those of who is signed in.
LEMMA MemberActs ==
  ASSUME AccessInvariant, NEW t \in Tabs, BeginChange(t) \/ BeginStart(t)
  PROVE  \E u \in Users : Acts(t, u)
<1>1. TypeInvariant
  BY DEF AccessInvariant
<1>2. PICK step \in {"change", "start"} :
        SignedIn(t) /\ Send(t, session[t].user, step) /\ UNCHANGED <<user, session, link, copying, saw, input, misses, crashes>>
  BY DEF BeginChange, BeginStart, PasswordForm
<1>3. session[t] \in SessionType /\ user[session[t].user] # Absent /\ user[session[t].user].status = "ACTIVE"
  BY <1>1, <1>2 DEF SignedIn, TypeInvariant, TypeOK
<1>4. PICK u \in Users : u = session[t].user
  BY <1>3 DEF SessionType
<1>5. step \in Steps
  BY DEF Steps
<1>6. /\ TrafficType' /\ Moves(t, u) /\ pc[t] = "idle" /\ pc'[t] = step /\ subject'[t] = u
      /\ UNCHANGED <<user, session, link, copying, misses>>
  BY <1>1, <1>2, <1>4, <1>5, Sends, Unread
<1>7. Shaped(t)'
  BY <1>3, <1>4, <1>6, RowsAreRows DEF Shaped
<1>8. Duty(t)'
  BY <1>3, <1>4, <1>6 DEF Duty
<1>9. Acts(t, u)
  BY <1>6, <1>7, <1>8, RowsStay
<1> QED
  BY <1>9

\* The administrator's dialogs read the row they are about.
LEMMA DialogActs ==
  ASSUME AccessInvariant, NEW t \in Tabs, NEW u \in Users,
         BeginDelete(t, u) \/ \E filled \in Forms : UpdateMember(t, u, filled)
  PROVE  Acts(t, u)
<1>1. TypeInvariant
  BY DEF AccessInvariant
<1>2. PICK step \in {"count", "write", "blockers"}, y \in InputType :
        /\ user[u] # Absent /\ Send(t, u, step)
        /\ saw' = [saw EXCEPT ![t] = user[u]] /\ input' = [input EXCEPT ![t] = y]
        /\ UNCHANGED <<user, session, link, copying, misses, crashes>>
  <2>1. CASE BeginDelete(t, u)
    BY <1>1, <2>1, Unread DEF BeginDelete, DeleteDialog
  <2>2. ASSUME NEW filled \in Forms, UpdateMember(t, u, filled)
        PROVE  \E step \in {"count", "write", "blockers"}, y \in InputType :
                 /\ user[u] # Absent /\ Send(t, u, step)
                 /\ saw' = [saw EXCEPT ![t] = user[u]] /\ input' = [input EXCEPT ![t] = y]
                 /\ UNCHANGED <<user, session, link, copying, misses, crashes>>
    <3>1. filled \in InputType
      BY FormsAreInput
    <3>2. Send(t, u, "count") \/ Send(t, u, "write")
      BY <2>2 DEF UpdateMember
    <3> QED
      BY <2>2, <3>1, <3>2 DEF UpdateMember, EditDialog
  <2> QED
    BY <2>1, <2>2
<1>3. user[u] \in UserType
  BY <1>1, <1>2 DEF TypeInvariant, TypeOK
<1>4. step \in Steps
  BY DEF Steps
<1>5. TrafficType' /\ Moves(t, u) /\ pc[t] = "idle" /\ pc'[t] = step /\ subject'[t] = u /\ saw'[t] = user[u]
  BY <1>1, <1>2, <1>3, <1>4, Sends
<1>6. Shaped(t)'
  BY <1>3, <1>5 DEF Shaped
<1>7. SeesRow(t)'
  BY <1>2, <1>5 DEF SeesRow
<1>8. Duty(t)'
  BY <1>5, <1>7 DEF Duty
<1> QED
  BY <1>2, <1>5, <1>6, <1>8, RowsStay

-----------------------------------------------------------------------------
(* What a step about one's own user may count on, and must show.           *)

LEMMA Mine ==
  ASSUME AccessInvariant, NEW t \in Tabs, NEW u \in Users, Moves(t, u), u \notin raced'
  PROVE  /\ u \notin raced /\ (crashes' = 0 => crashes = 0)
         /\ Counted(u) /\ Linked(u) /\ Knowing(u) /\ Stilled(u) /\ Duty(t)
         /\ \A s \in Tabs \ {t} : ~Working(s, u) /\ ~Working(s, u)'
<1>1. u \notin raced /\ (crashes' = 0 => crashes = 0) /\ Alone(u) /\ Held(u) /\ Duty(t)
  BY DEF Moves, AccessInvariant
<1>2. \A s \in Tabs \ {t} : ~Working(s, u)
  <2>1. CASE pc[t] = "idle"
    BY <2>1 DEF Moves
  <2>2. CASE pc[t] # "idle"
    <3>1. Working(t, u)
      BY <2>2 DEF Moves, Working
    <3> QED
      BY <1>1, <3>1 DEF Alone
  <2> QED
    BY <2>1, <2>2
<1>3. \A s \in Tabs \ {t} : ~Working(s, u)'
  BY <1>2 DEF Moves, Working
<1> QED
  BY <1>1, <1>2, <1>3 DEF Held

\* Who is suspended stays still, if nothing of theirs starts.
LEMMA StilledStays ==
  ASSUME NEW t \in Tabs, NEW u \in Users, Stilled(u), \A s \in Tabs \ {t} : ~Working(s, u), pc[t] # "suspend",
         crashes' = 0 => crashes = 0, u \in copying' => u \in copying,
         user'[u] # Absent /\ user'[u].status = "SUSPENDED" => user[u] # Absent /\ user[u].status = "SUSPENDED",
         \A s \in Tabs : session'[s] # NoSession /\ session'[s].user = u =>
           session[s] # NoSession /\ session[s].user = u /\ (session[s].revoked => session'[s].revoked)
  PROVE  Stilled(u)'
BY DEF Stilled

\* What a login writes of a session, and what ends one.
LEMMA Revoking ==
  ASSUME RowsType, NEW u \in Users, NEW tabs \in SUBSET Tabs, NEW new, new = Revoked(u, tabs)
  PROVE  /\ new \in [Tabs -> SessionType \cup {NoSession}]
         /\ \A s \in Tabs :
              /\ new[s] = NoSession <=> session[s] = NoSession
              /\ session[s] # NoSession =>
                   /\ new[s].user = session[s].user /\ new[s].password = session[s].password
                   /\ session[s].revoked => new[s].revoked
                   /\ session[s].user = u /\ s \in tabs => new[s].revoked
                   /\ session[s].user # u => new[s] = session[s]
<1>1. session \in [Tabs -> SessionType \cup {NoSession}]
  BY DEF RowsType
<1>2. ASSUME NEW s \in Tabs, s \in tabs, session[s] # NoSession, session[s].user = u
      PROVE  new[s] \in SessionType /\ new[s].user = u /\ new[s].password = session[s].password /\ new[s].revoked
  <2>1. new[s] = [session[s] EXCEPT !.revoked = TRUE] /\ session[s] \in SessionType
    BY <1>1, <1>2 DEF Revoked
  <2> QED
    BY <1>2, <2>1 DEF SessionType
<1>3. \A s \in Tabs : ~(s \in tabs /\ session[s] # NoSession /\ session[s].user = u) => new[s] = session[s]
  BY DEF Revoked
<1>4. new = [s \in Tabs |-> new[s]]
  BY DEF Revoked
<1>5. \A s \in Tabs : new[s] \in SessionType \cup {NoSession}
  BY <1>1, <1>2, <1>3
<1>6. new \in [Tabs -> SessionType \cup {NoSession}]
  BY <1>4, <1>5
<1> QED
  BY <1>2, <1>3, <1>6, RowsAreRows

-----------------------------------------------------------------------------
(* Sent, and writing at once.                                              *)

LEMMA RequestResetActs ==
  ASSUME AccessInvariant, NEW t \in Tabs, NEW u \in Users, RequestReset(t, u)
  PROVE  Acts(t, u)
<1>1. TypeInvariant /\ RowsType
  BY TypeParts DEF AccessInvariant
<1>2. /\ TrafficType' /\ Moves(t, u) /\ pc[t] = "idle" /\ pc'[t] = "token" /\ subject'[t] = u
  <2>1. "token" \in Steps
    BY DEF Steps
  <2>2. Send(t, u, "token") /\ saw' = [saw EXCEPT ![t] = saw[t]] /\ input' = [input EXCEPT ![t] = input[t]] /\ crashes' = crashes
    BY <1>1, Unread DEF RequestReset
  <2> QED
    BY <1>1, <2>1, <2>2, Sends, Unread
<1>3. PICK n \in Nat : /\ n = Cardinality(DOMAIN link) /\ DOMAIN link = 1..n
                       /\ \A k \in DOMAIN link : link[k] \in LinkType /\ k \in Nat
  BY <1>1, LinkRows
<1>4. /\ link' = [k \in DOMAIN link |-> IF link[k].user = u THEN [link[k] EXCEPT !.usable = FALSE] ELSE link[k]]
      /\ UNCHANGED <<user, session, copying, misses>>
  BY DEF RequestReset
<1>5. /\ DOMAIN link' = DOMAIN link
      /\ \A k \in DOMAIN link :
           /\ link'[k] \in LinkType /\ link'[k].user = link[k].user /\ link'[k].uses = link[k].uses
           /\ link[k].user = u => link'[k].usable = FALSE
           /\ link[k].user # u => link'[k] = link[k]
  BY <1>3, <1>4 DEF LinkType
<1>6. RowsType'
  <2>1. link' \in [1..n -> LinkType] /\ Cardinality(DOMAIN link') = n
    BY <1>3, <1>4, <1>5
  <2> QED
    BY <1>1, <1>4, <2>1 DEF RowsType
<1>7. Shaped(t)'
  BY <1>2 DEF Shaped
<1>8. Stays(t) /\ \A v \in Users \ {u} : Keeps(v)
  BY <1>4, <1>5 DEF Stays, Keeps
<1>9. ASSUME u \notin raced'
      PROVE  Own(t, u)'
  <2>1. Counted(u)' /\ Knowing(u)'
    BY <1>2, <1>4, <1>9, Mine DEF Counted, Knowing
  <2>2. Linked(u)'
    BY <1>2, <1>5, <1>9, Mine DEF Linked
  <2>3. Stilled(u)'
    BY <1>2, <1>4, <1>9, Mine, StilledStays
  <2>4. Duty(t)'
    BY <1>2, <1>5 DEF Duty
  <2> QED
    BY <2>1, <2>2, <2>3, <2>4 DEF Own
<1> QED
  BY <1>2, <1>6, <1>7, <1>8, <1>9 DEF Acts

LEMMA StopActs ==
  ASSUME AccessInvariant, NEW t \in Tabs, StopCopying(t) \/ Logout(t)
  PROVE  \E u \in Users : Acts(t, u)
<1>1. TypeInvariant /\ RowsType
  BY TypeParts DEF AccessInvariant
<1>2. /\ session[t] # NoSession /\ Send(t, session[t].user, "idle")
      /\ UNCHANGED <<user, link, saw, input, misses, crashes>>
      /\ \/ copying' = copying \ {session[t].user} /\ session' = session
         \/ session' = [session EXCEPT ![t] = NoSession] /\ copying' = copying
  BY DEF StopCopying, Logout, SignedIn, UserMenu
<1>3. PICK u \in Users : u = session[t].user
  BY <1>1, <1>2 DEF RowsType, SessionType
<1>4. TrafficType' /\ Moves(t, u) /\ pc[t] = "idle" /\ pc'[t] = "idle" /\ subject'[t] = u
  <2>1. "idle" \in Steps
    BY DEF Steps
  <2>2. Send(t, u, "idle") /\ saw' = [saw EXCEPT ![t] = saw[t]] /\ input' = [input EXCEPT ![t] = input[t]] /\ crashes' = crashes
    BY <1>1, <1>2, <1>3, Unread
  <2> QED
    BY <1>1, <2>1, <2>2, Sends, Unread
<1>5. /\ session' \in [Tabs -> SessionType \cup {NoSession}]
      /\ \A s \in Tabs : session'[s] = session[s] \/ (s = t /\ session'[s] = NoSession)
      /\ \A v \in Users : (v \in copying' => v \in copying) /\ (v # u => (v \in copying' <=> v \in copying))
  BY <1>1, <1>2, <1>3 DEF RowsType
<1>6. RowsType'
  BY <1>1, <1>2, <1>5 DEF RowsType
<1>7. Shaped(t)' /\ Duty(t)'
  BY <1>4 DEF Shaped, Duty
<1>8. Stays(t) /\ \A v \in Users \ {u} : Keeps(v)
  BY <1>2, <1>5 DEF Stays, Keeps
<1>9. ASSUME u \notin raced'
      PROVE  Own(t, u)'
  <2>1. Counted(u)' /\ Linked(u)'
    BY <1>2, <1>4, <1>9, Mine DEF Counted, Linked
  <2>2. Knowing(u)'
    BY <1>2, <1>4, <1>5, <1>9, Mine DEF Knowing
  <2>3. Stilled(u)'
    BY <1>2, <1>4, <1>5, <1>9, Mine, StilledStays
  <2> QED
    BY <1>7, <2>1, <2>2, <2>3 DEF Own
<1>10. Acts(t, u)
  BY <1>4, <1>6, <1>7, <1>8, <1>9 DEF Acts
<1> QED
  BY <1>10

-----------------------------------------------------------------------------
(* Steps that write no row.                                                *)

LEMMA EndsActs ==
  ASSUME AccessInvariant, NEW t \in Tabs, pc[t] \notin {"idle", "suspend"}, Done(t),
         UNCHANGED <<user, session, link, copying, misses>>
  PROVE  \E u \in Users : Acts(t, u)
<1>1. TypeInvariant
  BY DEF AccessInvariant
<1>2. PICK u \in Users : u = subject[t]
  BY <1>1 DEF TypeInvariant, TypeOK
<1>3. TrafficType' /\ Moves(t, u) /\ Shaped(t)' /\ Duty(t)'
  BY <1>1, <1>2, Ends
<1>4. Acts(t, u)
  BY <1>3, RowsStay
<1> QED
  BY <1>4

\* The count is over: the request may be one of two that counted.
LEMMA CountedActs ==
  ASSUME AccessInvariant, NEW t \in Tabs, NEW before \in {"count", "blockers"}, NEW after \in {"write", "remove"},
         pc[t] = before, pc' = [pc EXCEPT ![t] = after], raced' = CountRace(t),
         UNCHANGED <<subject, saw, input, requests, crashes>>, UNCHANGED <<user, session, link, copying, misses>>
  PROVE  \E u \in Users : Acts(t, u)
<1>1. TypeInvariant /\ Shaped(t) /\ Duty(t)
  BY DEF AccessInvariant, TypeInvariant
<1>2. PICK u \in Users : u = subject[t]
  BY <1>1 DEF TypeInvariant, TypeOK
<1>3. raced' \in {raced, raced \cup {"admins"}}
  BY DEF CountRace
<1>4. after \in Steps /\ pc[t] # "idle" /\ saw[t] \in UserType /\ saw' = [saw EXCEPT ![t] = saw[t]]
  BY <1>1, Unread DEF Steps, Shaped
<1>5. TrafficType' /\ Moves(t, u) /\ pc'[t] = after /\ subject'[t] = u /\ saw'[t] = saw[t] /\ input'[t] = input[t]
  <2>1. PICK x \in UserType \cup {Absent} : x = saw[t]
    BY <1>4
  <2>2. saw' = [saw EXCEPT ![t] = x]
    BY <1>4, <2>1
  <2>3. TrafficType' /\ Moves(t, u) /\ pc'[t] = after /\ subject'[t] = u /\ saw'[t] = x /\ input'[t] = input[t]
    BY <1>1, <1>2, <1>3, <1>4, <2>2, GoesOn
  <2> QED
    BY <2>1, <2>3
<1>6. Shaped(t)'
  BY <1>4, <1>5 DEF Shaped
<1>7. ASSUME u \notin raced' PROVE Duty(t)'
  <2>1. SeesRow(t)
    BY <1>1, <1>2, <1>3, <1>4, <1>7 DEF Duty
  <2>2. SeesRow(t)'
    BY <1>2, <1>5, <2>1 DEF SeesRow
  <2> QED
    BY <1>5, <2>2 DEF Duty
<1>8. Acts(t, u)
  BY <1>5, <1>6, <1>7, RowsStay
<1> QED
  BY <1>8

LEMMA CountsActs ==
  ASSUME AccessInvariant, NEW t \in Tabs, CountAdmins(t) \/ CheckBlockers(t)
  PROVE  \E u \in Users : Acts(t, u)
<1>1. CASE CountAdmins(t)
  <2>1. pc[t] = "count" /\ UNCHANGED <<user, session, link, copying, misses>>
    BY <1>1 DEF CountAdmins, At
  <2>2. CASE Done(t)
    BY <2>1, <2>2, EndsActs
  <2>3. CASE pc' = [pc EXCEPT ![t] = "write"] /\ raced' = CountRace(t) /\ UNCHANGED <<subject, saw, input, requests, crashes>>
    BY <2>1, <2>3, CountedActs
  <2> QED
    BY <1>1, <2>2, <2>3 DEF CountAdmins
<1>2. CASE CheckBlockers(t)
  <2>1. pc[t] = "blockers" /\ UNCHANGED <<user, session, link, copying, misses>>
    BY <1>2 DEF CheckBlockers, At
  <2>2. CASE Done(t)
    BY <2>1, <2>2, EndsActs
  <2>3. CASE pc' = [pc EXCEPT ![t] = "remove"] /\ raced' = CountRace(t) /\ UNCHANGED <<subject, saw, input, requests, crashes>>
    BY <2>1, <2>3, CountedActs
  <2> QED
    BY <1>2, <2>2, <2>3 DEF CheckBlockers
<1> QED
  BY <1>1, <1>2

LEMMA DieActs ==
  ASSUME AccessInvariant, NEW t \in Tabs, Die(t)
  PROVE  \E u \in Users : Acts(t, u)
<1>1. TypeInvariant /\ TrafficType
  BY TypeParts DEF AccessInvariant
<1>2. PICK u \in Users : u = subject[t]
  BY <1>1 DEF TrafficType
<1>3. /\ pc[t] # "idle" /\ crashes < MaxCrashes /\ crashes' = crashes + 1
      /\ pc' = [pc EXCEPT ![t] = "idle"] /\ saw' = [saw EXCEPT ![t] = Absent] /\ input' = [input EXCEPT ![t] = Nothing]
      /\ UNCHANGED <<user, session, link, copying, subject, misses, raced, requests>>
  BY DEF Die
<1>4. crashes' \in 0..MaxCrashes /\ crashes' # 0
  BY <1>1, <1>3, AccessAssumption DEF TrafficType, AccessAssumption
<1>5. "idle" \in Steps /\ Nothing \in InputType
  BY DEF Steps, Nothing, InputType
<1>6. TrafficType'
  BY <1>1, <1>3, <1>4, <1>5 DEF TrafficType
<1>7. /\ pc'[t] = "idle"
      /\ \A s \in Tabs \ {t} :
           pc'[s] = pc[s] /\ subject'[s] = subject[s] /\ saw'[s] = saw[s] /\ input'[s] = input[s]
  BY <1>1, <1>3 DEF TrafficType
<1>8. Shaped(t)' /\ Duty(t)'
  BY <1>7 DEF Shaped, Duty
<1>9. Moves(t, u)
  BY <1>2, <1>3, <1>4, <1>7 DEF Moves
<1>10. Acts(t, u)
  BY <1>3, <1>4, <1>6, <1>8, <1>9, RowsStay
<1> QED
  BY <1>10
-----------------------------------------------------------------------------
(* Registration, login and sessions.                                       *)

LEMMA CreateUserActs ==
  ASSUME AccessInvariant, NEW t \in Tabs, CreateUser(t)
  PROVE  \E u \in Users : Acts(t, u)
<1>1. TypeInvariant /\ RowsType /\ pc[t] = "create"
  BY TypeParts DEF AccessInvariant, CreateUser, At
<1>2. PICK u \in Users : u = subject[t]
  BY <1>1 DEF TypeInvariant, TypeOK
<1>3. CASE user[u] # Absent
  <2>1. Done(t) /\ UNCHANGED <<user, session, link, copying, misses>>
    BY <1>2, <1>3 DEF CreateUser
  <2> QED
    BY <1>1, <2>1, EndsActs
<1>4. CASE user[u] = Absent
  <2>1. PICK row : row = Person(IF input[t].first THEN "ADMIN" ELSE "MEMBER")
    OBVIOUS
  <2>2. /\ row \in UserType /\ row.status = "ACTIVE" /\ row.failed = 0 /\ row.lock = "none"
    <3>1. PICK role \in {"ADMIN", "MEMBER"} : row = Person(role)
      BY <2>1
    <3> QED
      BY <3>1 DEF Person, UserType
  <2>3. /\ user' = [user EXCEPT ![u] = row] /\ pc' = [pc EXCEPT ![t] = "session"] /\ saw' = [saw EXCEPT ![t] = user'[u]]
        /\ misses' = [misses EXCEPT ![u] = 0] /\ UNCHANGED <<subject, input, raced, requests, crashes, session, link, copying>>
    BY <1>2, <1>4, <2>1 DEF CreateUser, Done
  <2>4. user'[u] = row /\ misses'[u] = 0 /\ \A v \in Users \ {u} : user'[v] = user[v] /\ misses'[v] = misses[v]
    BY <1>1, <2>3 DEF RowsType
  <2>5. TrafficType' /\ Moves(t, u) /\ pc'[t] = "session" /\ subject'[t] = u /\ saw'[t] = row
    <3>1. "session" \in Steps /\ raced' \in {raced, raced \cup {"admins"}} /\ saw' = [saw EXCEPT ![t] = row]
      BY <2>3, <2>4 DEF Steps
    <3>2. /\ pc' = [pc EXCEPT ![t] = "session"] /\ UNCHANGED <<subject, input, requests, crashes>>
          /\ row \in UserType \cup {Absent} /\ pc[t] # "idle"
      BY <1>1, <2>2, <2>3
    <3> QED
      BY <1>1, <1>2, <3>1, <3>2, GoesOn
  <2>6. RowsType'
    BY <1>1, <2>2, <2>3, RowsAreRows DEF RowsType
  <2>7. Shaped(t)'
    BY <2>2, <2>5 DEF Shaped
  <2>8. Stays(t) /\ \A v \in Users \ {u} : Keeps(v)
    BY <2>3, <2>4 DEF Stays, Keeps
  <2>9. ASSUME u \notin raced'
        PROVE  Own(t, u)'
    <3>1. Counted(u)'
      BY <2>2, <2>4, AccessAssumption DEF Counted, AccessAssumption
    <3>2. Linked(u)'
      BY <2>3, <2>5, <2>9, Mine DEF Linked
    <3>3. Knowing(u)'
      BY <1>4, <2>3, <2>5, <2>9, Mine DEF Knowing
    <3>4. Stilled(u)'
      BY <2>2, <2>4 DEF Stilled
    <3>5. SeesRow(t)'
      BY <2>2, <2>4, <2>5, RowsAreRows DEF SeesRow
    <3>6. Duty(t)'
      BY <2>2, <2>4, <2>5, <3>5, RowsAreRows DEF Duty
    <3> QED
      BY <3>1, <3>2, <3>3, <3>4, <3>6 DEF Own
  <2>10. Acts(t, u)
    BY <2>5, <2>6, <2>7, <2>8, <2>9 DEF Acts
  <2> QED
    BY <2>10
<1> QED
  BY <1>3, <1>4
\* A login is recorded: the counter is the one read, as nobody else was at work on the row.
LEMMA LoginCounted ==
  ASSUME AccessInvariant, NEW t \in Tabs, RegisterFailed(t)
  PROVE  \E u \in Users : Acts(t, u)
<1>1. TypeInvariant /\ RowsType /\ TrafficType /\ pc[t] = "fail" /\ saw[t] \in UserType /\ Done(t)
  BY TypeParts DEF AccessInvariant, TypeInvariant, Shaped, RegisterFailed, At
<1>2. PICK u \in Users : u = subject[t]
  BY <1>1 DEF TrafficType
<1>3. PICK attempts : attempts = saw[t].failed + 1
  OBVIOUS
<1>4. attempts \in Nat
  BY <1>1, <1>3 DEF UserType
<1>5. PICK lock \in {"none", "held", "expired"} : lock = IF attempts >= MaxFailed THEN "held" ELSE "none"
  OBVIOUS
<1>6. /\ user[u] # Absent /\ user' = [user EXCEPT ![u].failed = attempts, ![u].lock = lock]
      /\ misses' = [misses EXCEPT ![u] = @ + 1] /\ UNCHANGED <<session, link, copying>>
  BY <1>2, <1>3, <1>5 DEF RegisterFailed
<1>7. PICK row \in UserType : row = user[u]
  BY <1>1, <1>6 DEF RowsType
<1>8. PICK new : new = [row EXCEPT !.failed = attempts, !.lock = lock]
  OBVIOUS
<1>9. new \in UserType
  BY <1>4, <1>8 DEF UserType
<1>10. new.failed = attempts /\ new.lock = lock /\ new.status = row.status /\ new.password = row.password
  BY <1>8 DEF UserType
<1>11. /\ user' = [user EXCEPT ![u] = new] /\ user'[u] = new /\ misses'[u] = misses[u] + 1 /\ misses[u] \in Nat
       /\ \A v \in Users \ {u} : user'[v] = user[v] /\ misses'[v] = misses[v]
  BY <1>1, <1>6, <1>7, <1>8 DEF RowsType
<1>12. RowsType'
  <2>1. user' \in [Users -> UserType \cup {Absent}] /\ misses' \in [Users -> Nat]
    BY <1>1, <1>6, <1>9, <1>11 DEF RowsType
  <2>2. copying' \subseteq {v \in Users : user'[v] # Absent}
    BY <1>1, <1>6, <1>9, <1>11, RowsAreRows DEF RowsType
  <2> QED
    BY <1>1, <1>6, <2>1, <2>2 DEF RowsType
<1>13. TrafficType' /\ Moves(t, u) /\ Shaped(t)' /\ Duty(t)'
  BY <1>1, <1>2, Ends
<1>14. Stays(t) /\ \A v \in Users \ {u} : Keeps(v)
  BY <1>6, <1>11 DEF Stays, Keeps
<1>15. ASSUME u \notin raced'
       PROVE  Own(t, u)'
  <2>1. Counted(u)'
    <3>1. SeesRow(t) /\ Counted(u)
      BY <1>1, <1>2, <1>13, <1>15, Mine DEF Duty
    <3>2. attempts = misses[u] + 1
      BY <1>1, <1>2, <1>3, <1>6, <3>1 DEF SeesRow, Counted
    <3> QED
      BY <1>5, <1>10, <1>11, <3>2 DEF Counted
  <2>2. Linked(u)'
    BY <1>6, <1>13, <1>15, Mine DEF Linked
  <2>3. Knowing(u)'
    BY <1>6, <1>7, <1>9, <1>10, <1>11, <1>13, <1>15, Mine, RowsAreRows DEF Knowing
  <2>4. Stilled(u)'
    BY <1>1, <1>6, <1>7, <1>10, <1>11, <1>13, <1>15, Mine, StilledStays
  <2> QED
    BY <1>13, <2>1, <2>2, <2>3, <2>4 DEF Own
<1>16. Acts(t, u)
  BY <1>12, <1>13, <1>14, <1>15 DEF Acts
<1> QED
  BY <1>16

LEMMA LoginCleared ==
  ASSUME AccessInvariant, NEW t \in Tabs, RegisterSuccess(t)
  PROVE  \E u \in Users : Acts(t, u)
<1>1. TypeInvariant /\ RowsType /\ TrafficType /\ pc[t] = "succeed" /\ saw[t] \in UserType /\ Go(t, "session")
  BY TypeParts DEF AccessInvariant, TypeInvariant, Shaped, RegisterSuccess, At
<1>2. PICK u \in Users : u = subject[t]
  BY <1>1 DEF TrafficType
<1>3. /\ user[u] # Absent /\ user' = [user EXCEPT ![u].failed = 0, ![u].lock = "none"]
      /\ misses' = [misses EXCEPT ![u] = 0] /\ UNCHANGED <<session, link, copying>>
  BY <1>2 DEF RegisterSuccess
<1>4. PICK row \in UserType : row = user[u]
  BY <1>1, <1>3 DEF RowsType
<1>5. PICK new : new = [row EXCEPT !.failed = 0, !.lock = "none"]
  OBVIOUS
<1>6. new \in UserType
  BY <1>5 DEF UserType
<1>7. /\ new.failed = 0 /\ new.lock = "none"
      /\ new.status = row.status /\ new.password = row.password /\ new.role = row.role
  BY <1>5 DEF UserType
<1>8. /\ user' = [user EXCEPT ![u] = new] /\ user'[u] = new /\ misses'[u] = 0
      /\ \A v \in Users \ {u} : user'[v] = user[v] /\ misses'[v] = misses[v]
  BY <1>1, <1>3, <1>4, <1>5 DEF RowsType
<1>9. RowsType'
  BY <1>1, <1>3, <1>6, <1>8, RowsAreRows DEF RowsType
<1>10. TrafficType' /\ Moves(t, u) /\ pc'[t] = "session" /\ subject'[t] = u /\ saw'[t] = saw[t]
  <2>1. "session" \in Steps /\ pc[t] # "idle"
    BY <1>1 DEF Steps
  <2> QED
    BY <1>1, <1>2, <2>1, Going
<1>11. Shaped(t)'
  BY <1>1, <1>10 DEF Shaped
<1>12. Stays(t) /\ \A v \in Users \ {u} : Keeps(v)
  BY <1>3, <1>8 DEF Stays, Keeps
<1>13. ASSUME u \notin raced'
       PROVE  Own(t, u)'
  <2>1. Counted(u)'
    BY <1>7, <1>8, AccessAssumption DEF Counted, AccessAssumption
  <2>2. Linked(u)'
    BY <1>3, <1>10, <1>13, Mine DEF Linked
  <2>3. Knowing(u)'
    BY <1>3, <1>4, <1>6, <1>7, <1>8, <1>10, <1>13, Mine, RowsAreRows DEF Knowing
  <2>4. Stilled(u)'
    <3>1. Stilled(u) /\ (\A s \in Tabs \ {t} : ~Working(s, u)) /\ (crashes' = 0 => crashes = 0)
      BY <1>10, <1>13, Mine
    <3>2. pc[t] # "suspend" /\ user'[u].status = user[u].status
      BY <1>1, <1>4, <1>7, <1>8
    <3> QED
      BY <1>3, <3>1, <3>2, StilledStays
  <2>5. SeesRow(t) /\ user[u].status = "ACTIVE"
    BY <1>1, <1>2, <1>10, <1>13, Mine DEF Duty
  <2>6. SeesRow(t)'
    BY <1>2, <1>4, <1>6, <1>7, <1>8, <1>10, <2>5, RowsAreRows DEF SeesRow
  <2>7. Duty(t)'
    BY <1>4, <1>6, <1>7, <1>8, <1>10, <2>5, <2>6, RowsAreRows DEF Duty
  <2> QED
    BY <2>1, <2>2, <2>3, <2>4, <2>7 DEF Own
<1>14. Acts(t, u)
  BY <1>9, <1>10, <1>11, <1>12, <1>13 DEF Acts
<1> QED
  BY <1>14

LEMMA SessionStarts ==
  ASSUME AccessInvariant, NEW t \in Tabs, StartSession(t)
  PROVE  \E u \in Users : Acts(t, u)
<1>1. TypeInvariant /\ RowsType /\ TrafficType /\ pc[t] = "session" /\ saw[t] \in UserType /\ Done(t)
  BY TypeParts DEF AccessInvariant, TypeInvariant, Shaped, StartSession, At
<1>2. PICK u \in Users : u = subject[t]
  BY <1>1 DEF TrafficType
<1>3. PICK new : new = [user |-> u, password |-> saw[t].password, revoked |-> FALSE]
  OBVIOUS
<1>4. new \in SessionType
  BY <1>1, <1>3 DEF SessionType, UserType
<1>5. new.user = u /\ new.password = saw[t].password
  BY <1>3
<1>6. user[u] # Absent /\ session' = [session EXCEPT ![t] = new] /\ UNCHANGED <<user, link, copying, misses>>
  BY <1>2, <1>3 DEF StartSession
<1>7. session'[t] = new /\ \A s \in Tabs \ {t} : session'[s] = session[s]
  BY <1>1, <1>6 DEF RowsType
<1>8. RowsType'
  BY <1>1, <1>4, <1>6 DEF RowsType
<1>9. TrafficType' /\ Moves(t, u) /\ Shaped(t)' /\ Duty(t)'
  BY <1>1, <1>2, Ends
<1>10. Stays(t) /\ \A v \in Users \ {u} : Keeps(v)
  BY <1>5, <1>6, <1>7 DEF Stays, Keeps
<1>11. ASSUME u \notin raced'
       PROVE  Own(t, u)'
  <2>1. Counted(u)' /\ Linked(u)'
    BY <1>6, <1>9, <1>11, Mine DEF Counted, Linked
  <2>2. SeesRow(t) /\ user[u].status = "ACTIVE"
    BY <1>1, <1>2, <1>9, <1>11, Mine DEF Duty
  <2>3. Knowing(u)'
    <3>1. new.password = user[u].password
      BY <1>2, <1>5, <2>2 DEF SeesRow
    <3> QED
      BY <1>5, <1>6, <1>7, <1>9, <1>11, <3>1, Mine DEF Knowing
  <2>4. Stilled(u)'
    BY <1>6, <2>2 DEF Stilled
  <2> QED
    BY <1>9, <2>1, <2>3, <2>4 DEF Own
<1>12. Acts(t, u)
  BY <1>8, <1>9, <1>10, <1>11 DEF Acts
<1> QED
  BY <1>12
-----------------------------------------------------------------------------
(* Passwords.                                                              *)

LEMMA LinkCreated ==
  ASSUME AccessInvariant, NEW t \in Tabs, CreateLink(t)
  PROVE  \E u \in Users : Acts(t, u)
<1>1. TypeInvariant /\ RowsType /\ TrafficType /\ pc[t] = "token" /\ Done(t) /\ UNCHANGED <<user, session, copying, misses>>
  BY TypeParts DEF AccessInvariant, CreateLink, At
<1>2. PICK u \in Users : u = subject[t]
  BY <1>1 DEF TrafficType
<1>3. PICK n \in Nat : /\ n = Cardinality(DOMAIN link) /\ DOMAIN link = 1..n
                       /\ \A k \in DOMAIN link : link[k] \in LinkType /\ k \in Nat
  BY <1>1, LinkRows
<1>4. PICK new : new = [user |-> u, usable |-> TRUE, uses |-> 0]
  OBVIOUS
<1>5. new \in LinkType /\ new.user = u /\ new.uses = 0
  BY <1>4 DEF LinkType
<1>6. link' = [k \in 1..(n + 1) |-> IF k \in DOMAIN link THEN link[k] ELSE new]
  BY <1>2, <1>3, <1>4 DEF CreateLink
<1>7. /\ DOMAIN link' = 1..(n + 1) /\ n + 1 \in Nat /\ link' \in [1..(n + 1) -> LinkType]
      /\ link'[n + 1] = new /\ \A k \in 1..n : link'[k] = link[k]
      /\ DOMAIN link' = DOMAIN link \cup {n + 1} /\ n + 1 \notin DOMAIN link
  <2>1. 1..(n + 1) = 1..n \cup {n + 1} /\ n + 1 \notin 1..n /\ n + 1 \in Nat
    OBVIOUS
  <2>2. DOMAIN link' = 1..(n + 1) /\ link' = [k \in 1..(n + 1) |-> link'[k]]
    BY <1>6
  <2>3. link'[n + 1] = new /\ \A k \in 1..n : link'[k] = link[k]
    BY <1>3, <1>6, <2>1
  <2>4. \A k \in 1..(n + 1) : link'[k] \in LinkType
    BY <1>3, <1>5, <2>1, <2>3
  <2>5. link' \in [1..(n + 1) -> LinkType]
    BY <2>2, <2>4
  <2> QED
    BY <1>3, <2>1, <2>2, <2>3, <2>5
<1>8. RowsType'
  <2>1. Cardinality(DOMAIN link') = n + 1
    BY <1>7, OneMore
  <2> QED
    BY <1>1, <1>7, <2>1 DEF RowsType
<1>9. TrafficType' /\ Moves(t, u) /\ Shaped(t)' /\ Duty(t)'
  BY <1>1, <1>2, Ends
<1>10. Stays(t) /\ \A v \in Users \ {u} : Keeps(v)
  BY <1>1, <1>3, <1>5, <1>7 DEF Stays, Keeps
<1>11. ASSUME u \notin raced'
       PROVE  Own(t, u)'
  <2>1. Counted(u)' /\ Knowing(u)'
    BY <1>1, <1>9, <1>11, Mine DEF Counted, Knowing
  <2>2. Linked(u) /\ \A k \in DOMAIN link : link[k].user = u => ~link[k].usable
    BY <1>1, <1>2, <1>9, <1>11, Mine DEF Duty
  <2>3. Linked(u)'
    <3> SUFFICES ASSUME NEW k \in DOMAIN link', link'[k].user = u
                 PROVE  /\ link'[k].uses <= 1 /\ (link'[k].usable => link'[k].uses = 0)
                        /\ \A j \in DOMAIN link' : link'[j].user = u /\ link'[j].usable /\ link'[k].usable => j = k
      BY DEF Linked
    <3>1. \A j \in DOMAIN link' : j = n + 1 \/ (j \in DOMAIN link /\ link'[j] = link[j])
      BY <1>3, <1>7
    <3>2. \A j \in DOMAIN link' : link'[j].user = u /\ link'[j].usable => j = n + 1
      BY <2>2, <3>1
    <3>3. link'[k].uses <= 1 /\ (link'[k].usable => link'[k].uses = 0)
      BY <1>5, <1>7, <2>2, <3>1 DEF Linked
    <3> QED
      BY <3>2, <3>3
  <2>4. Stilled(u)'
    BY <1>1, <1>9, <1>11, Mine, StilledStays
  <2> QED
    BY <1>9, <2>1, <2>3, <2>4 DEF Own
<1>12. Acts(t, u)
  BY <1>8, <1>9, <1>10, <1>11 DEF Acts
<1> QED
  BY <1>12
\* The row a new password leaves.
LEMMA PasswordWritten ==
  ASSUME RowsType, NEW u \in Users, user[u] # Absent, NEW new, new = NewPassword(u), user' = [user EXCEPT ![u] = new],
         misses' = [misses EXCEPT ![u] = 0]
  PROVE  /\ new \in UserType /\ new # Absent /\ new.failed = 0 /\ new.lock = "none"
         /\ new.status = user[u].status /\ new.role = user[u].role /\ new.password = user[u].password + 1
         /\ user' \in [Users -> UserType \cup {Absent}] /\ misses' \in [Users -> Nat]
         /\ {v \in Users : user[v] # Absent} \subseteq {v \in Users : user'[v] # Absent}
         /\ user'[u] = new /\ misses'[u] = 0
         /\ \A v \in Users \ {u} : user'[v] = user[v] /\ misses'[v] = misses[v]
         /\ Counted(u)'
<1>1. PICK row \in UserType : row = user[u]
  BY DEF RowsType
<1>2. PICK m \in Nat : m = row.password + 1
  BY <1>1 DEF UserType
<1>3. new = [row EXCEPT !.password = m, !.failed = 0, !.lock = "none"]
  BY <1>1, <1>2 DEF NewPassword
<1>4. new \in UserType
  <2>1. [row EXCEPT !.password = m] \in UserType
    BY DEF UserType
  <2>2. PICK half \in UserType : half = [row EXCEPT !.password = m]
    BY <2>1
  <2>3. [half EXCEPT !.failed = 0] \in UserType
    BY DEF UserType
  <2>4. PICK most \in UserType : most = [half EXCEPT !.failed = 0]
    BY <2>3
  <2>5. [most EXCEPT !.lock = "none"] \in UserType
    BY DEF UserType
  <2>6. new = [most EXCEPT !.lock = "none"]
    BY <1>3, <2>2, <2>4
  <2> QED
    BY <2>5, <2>6
<1>5. new.failed = 0 /\ new.lock = "none" /\ new.status = row.status /\ new.role = row.role /\ new.password = m
  BY <1>3 DEF UserType
<1>6. new # Absent
  BY <1>4, RowsAreRows
<1>7. /\ user' \in [Users -> UserType \cup {Absent}] /\ user'[u] = new
      /\ \A v \in Users \ {u} : user'[v] = user[v]
  BY <1>4 DEF RowsType
<1>8. /\ misses' \in [Users -> Nat] /\ misses'[u] = 0
      /\ \A v \in Users \ {u} : misses'[v] = misses[v]
  BY DEF RowsType
<1>9. {v \in Users : user[v] # Absent} \subseteq {v \in Users : user'[v] # Absent}
  BY <1>6, <1>7
<1>10. Counted(u)'
  BY <1>5, <1>7, <1>8, AccessAssumption DEF Counted, AccessAssumption
<1> QED
  BY <1>1, <1>2, <1>4, <1>5, <1>6, <1>7, <1>8, <1>9, <1>10

LEMMA PasswordReset ==
  ASSUME AccessInvariant, NEW t \in Tabs, ResetPassword(t)
  PROVE  \E u \in Users : Acts(t, u)
<1>1. TypeInvariant /\ RowsType /\ TrafficType /\ Shaped(t) /\ pc[t] = "reset" /\ Done(t)
  BY TypeParts DEF AccessInvariant, TypeInvariant, ResetPassword, At
<1>2. PICK u \in Users : u = subject[t]
  BY <1>1 DEF TrafficType
<1>3. PICK i : i = input[t].link
  OBVIOUS
<1>4. PICK n \in Nat : /\ n = Cardinality(DOMAIN link) /\ DOMAIN link = 1..n
                       /\ \A k \in DOMAIN link : link[k] \in LinkType /\ k \in Nat
  BY <1>1, LinkRows
<1>5. i \in DOMAIN link /\ link[i].user = u
  BY <1>1, <1>2, <1>3 DEF Shaped
<1>6. PICK row : row = NewPassword(u)
  OBVIOUS
<1>7. /\ user[u] # Absent /\ user' = [user EXCEPT ![u] = row]
      /\ link' = [link EXCEPT ![i].usable = FALSE, ![i].uses = @ + 1]
      /\ session' = Revoked(u, Tabs) /\ misses' = [misses EXCEPT ![u] = 0] /\ copying' = copying
  BY <1>2, <1>3, <1>6 DEF ResetPassword
<1>8. /\ DOMAIN link' = 1..n /\ \A k \in DOMAIN link : k # i => link'[k] = link[k]
      /\ link'[i] \in LinkType /\ link'[i].user = u /\ link'[i].usable = FALSE /\ link'[i].uses = link[i].uses + 1
  <2>1. link'[i] = [link[i] EXCEPT !.usable = FALSE, !.uses = link[i].uses + 1]
    BY <1>4, <1>5, <1>7 DEF LinkType
  <2>2. PICK row1 \in LinkType : row1 = link[i]
    BY <1>4, <1>5
  <2>3. DOMAIN link' = 1..n /\ \A k \in DOMAIN link : k # i => link'[k] = link[k]
    BY <1>4, <1>7
  <2>4. PICK m \in Nat : m = row1.uses + 1
    BY <2>2 DEF LinkType
  <2>5. link'[i] = [row1 EXCEPT !.usable = FALSE, !.uses = m]
    BY <2>1, <2>2, <2>4
  <2>6. link'[i] \in LinkType /\ link'[i].user = row1.user /\ link'[i].usable = FALSE /\ link'[i].uses = m
    BY <2>5 DEF LinkType
  <2> QED
    BY <1>5, <2>2, <2>3, <2>4, <2>6
<1>9. link' \in [1..n -> LinkType]
  <2>1. link' = [k \in 1..n |-> link'[k]]
    BY <1>4, <1>7
  <2>2. \A k \in 1..n : link'[k] \in LinkType
    BY <1>4, <1>8
  <2> QED
    BY <2>1, <2>2
<1>10. /\ user' \in [Users -> UserType \cup {Absent}] /\ misses' \in [Users -> Nat]
       /\ {v \in Users : user[v] # Absent} \subseteq {v \in Users : user'[v] # Absent}
       /\ user'[u] = row /\ row.status = user[u].status /\ Counted(u)'
       /\ \A v \in Users \ {u} : user'[v] = user[v] /\ misses'[v] = misses[v]
  BY <1>1, <1>6, <1>7, PasswordWritten
<1>11. /\ session' \in [Tabs -> SessionType \cup {NoSession}]
       /\ \A s \in Tabs :
            /\ session'[s] = NoSession <=> session[s] = NoSession
            /\ session[s] # NoSession =>
                 /\ session'[s].user = session[s].user
                 /\ session[s].revoked => session'[s].revoked
                 /\ session[s].user = u => session'[s].revoked
                 /\ session[s].user # u => session'[s] = session[s]
  <2>1. Tabs \in SUBSET Tabs
    OBVIOUS
  <2> QED
    BY <1>1, <1>7, <2>1, Revoking
<1>12. RowsType'
  BY <1>1, <1>4, <1>7, <1>8, <1>9, <1>10, <1>11 DEF RowsType
<1>13. TrafficType' /\ Moves(t, u) /\ Shaped(t)' /\ Duty(t)' /\ subject'[t] = u
  BY <1>1, <1>2, Ends DEF Moves
<1>14. Stays(t)
  <2>1. \A k \in DOMAIN link : k \in DOMAIN link' /\ link'[k].user = link[k].user
                               /\ (link'[k].uses # link[k].uses => link[k].user = u)
    BY <1>4, <1>5, <1>8
  <2> QED
    BY <1>11, <1>13, <2>1 DEF Stays
<1>15. \A v \in Users \ {u} : Keeps(v)
  BY <1>4, <1>5, <1>7, <1>8, <1>10, <1>11 DEF Keeps
<1>16. ASSUME u \notin raced'
       PROVE  Own(t, u)'
  <2>1. Linked(u) /\ link[i].uses = 0
    BY <1>1, <1>2, <1>3, <1>13, <1>16, Mine DEF Duty
  <2>2. Linked(u)'
    BY <1>4, <1>5, <1>8, <2>1 DEF Linked
  <2>3. Knowing(u)'
    BY <1>11 DEF Knowing
  <2>4. Stilled(u)'
    <3>1. Stilled(u) /\ (\A s \in Tabs \ {t} : ~Working(s, u)) /\ (crashes' = 0 => crashes = 0)
      BY <1>13, <1>16, Mine
    <3>2. pc[t] # "suspend"
      BY <1>1
    <3> QED
      BY <1>7, <1>10, <1>11, <3>1, <3>2, StilledStays
  <2> QED
    BY <1>10, <1>13, <2>2, <2>3, <2>4 DEF Own
<1>17. Acts(t, u)
  BY <1>12, <1>13, <1>14, <1>15, <1>16 DEF Acts
<1> QED
  BY <1>17

LEMMA PasswordChanged ==
  ASSUME AccessInvariant, NEW t \in Tabs, ChangePassword(t)
  PROVE  \E u \in Users : Acts(t, u)
<1>1. TypeInvariant /\ RowsType /\ TrafficType /\ Shaped(t) /\ pc[t] = "change" /\ Done(t)
  BY TypeParts DEF AccessInvariant, TypeInvariant, ChangePassword, At
<1>2. PICK u \in Users : u = subject[t]
  BY <1>1 DEF TrafficType
<1>3. PICK row : row = NewPassword(u)
  OBVIOUS
<1>4. PICK revoked : revoked = Revoked(u, Tabs \ {t})
  OBVIOUS
<1>5. PICK password : password = user[u].password + 1
  OBVIOUS
<1>6. /\ user[u] # Absent /\ user' = [user EXCEPT ![u] = row]
      /\ session' = [revoked EXCEPT ![t].password = password]
      /\ misses' = [misses EXCEPT ![u] = 0] /\ link' = link /\ copying' = copying
  BY <1>2, <1>3, <1>4, <1>5 DEF ChangePassword
<1>7. /\ row \in UserType /\ row # Absent /\ row.password = password /\ row.status = user[u].status
      /\ user' \in [Users -> UserType \cup {Absent}] /\ misses' \in [Users -> Nat]
      /\ {v \in Users : user[v] # Absent} \subseteq {v \in Users : user'[v] # Absent}
      /\ user'[u] = row /\ Counted(u)'
      /\ \A v \in Users \ {u} : user'[v] = user[v] /\ misses'[v] = misses[v]
  BY <1>1, <1>3, <1>5, <1>6, PasswordWritten
<1>8. session[t] # NoSession /\ session[t].user = u
  BY <1>1, <1>2 DEF Shaped
<1>9. /\ revoked \in [Tabs -> SessionType \cup {NoSession}]
      /\ \A s \in Tabs :
           /\ revoked[s] = NoSession <=> session[s] = NoSession
           /\ session[s] # NoSession =>
                /\ revoked[s].user = session[s].user
                /\ session[s].revoked => revoked[s].revoked
                /\ session[s].user = u /\ s \in Tabs \ {t} => revoked[s].revoked
                /\ session[s].user # u => revoked[s] = session[s]
  <2>1. Tabs \ {t} \in SUBSET Tabs
    OBVIOUS
  <2> QED
    BY <1>1, <1>4, <2>1, Revoking
<1>10. /\ session'[t] \in SessionType /\ session'[t].user = u /\ session'[t].password = password
       /\ session'[t].revoked = revoked[t].revoked
  <2>1. revoked[t] \in SessionType /\ session'[t] = [revoked[t] EXCEPT !.password = password] /\ revoked[t].user = u
    BY <1>6, <1>8, <1>9
  <2>2. password \in Nat
    BY <1>7 DEF UserType
  <2> QED
    BY <2>1, <2>2 DEF SessionType
<1>11. \A s \in Tabs \ {t} : session'[s] = revoked[s]
  BY <1>6, <1>9
<1>12. session' \in [Tabs -> SessionType \cup {NoSession}]
  <2>1. session' = [s \in Tabs |-> session'[s]]
    BY <1>6, <1>9
  <2> QED
    BY <1>9, <1>10, <1>11, <2>1
<1>13. \A s \in Tabs :
         /\ session'[s] = NoSession <=> session[s] = NoSession
         /\ session[s] # NoSession =>
              /\ session'[s].user = session[s].user
              /\ session[s].revoked => session'[s].revoked
              /\ session[s].user = u /\ s # t => session'[s].revoked
              /\ session[s].user # u => session'[s] = session[s]
  BY <1>8, <1>9, <1>10, <1>11, RowsAreRows
<1>14. RowsType'
  BY <1>1, <1>6, <1>7, <1>12 DEF RowsType
<1>15. TrafficType' /\ Moves(t, u) /\ Shaped(t)' /\ Duty(t)' /\ subject'[t] = u
  BY <1>1, <1>2, Ends DEF Moves
<1>16. Stays(t) /\ \A v \in Users \ {u} : Keeps(v)
  BY <1>6, <1>7, <1>13 DEF Stays, Keeps
<1>17. ASSUME u \notin raced'
       PROVE  Own(t, u)'
  <2>1. Linked(u)'
    BY <1>6, <1>15, <1>17, Mine DEF Linked
  <2>2. Knowing(u)'
    BY <1>7, <1>10, <1>13 DEF Knowing
  <2>3. Stilled(u)'
    <3>1. Stilled(u) /\ (\A s \in Tabs \ {t} : ~Working(s, u)) /\ (crashes' = 0 => crashes = 0)
      BY <1>15, <1>17, Mine
    <3>2. pc[t] # "suspend"
      BY <1>1
    <3> QED
      BY <1>6, <1>7, <1>13, <3>1, <3>2, StilledStays
  <2> QED
    BY <1>7, <1>15, <2>1, <2>2, <2>3 DEF Own
<1>18. Acts(t, u)
  BY <1>14, <1>15, <1>16, <1>17 DEF Acts
<1> QED
  BY <1>18
-----------------------------------------------------------------------------
(* Copying, and the writes of administrators.                              *)

LEMMA CopyingStarts ==
  ASSUME AccessInvariant, NEW t \in Tabs, StartCopying(t)
  PROVE  \E u \in Users : Acts(t, u)
<1>1. TypeInvariant /\ RowsType /\ pc[t] = "start" /\ Done(t) /\ UNCHANGED <<user, session, link, misses>>
  BY TypeParts DEF AccessInvariant, StartCopying, At
<1>2. PICK u \in Users : u = subject[t]
  BY <1>1 DEF TypeInvariant, TypeOK
<1>3. user[u] # Absent /\ copying' = copying \cup {u}
  BY <1>2 DEF StartCopying
<1>4. RowsType'
  BY <1>1, <1>3 DEF RowsType
<1>5. TrafficType' /\ Moves(t, u) /\ Shaped(t)' /\ Duty(t)'
  BY <1>1, <1>2, Ends
<1>6. Stays(t) /\ \A v \in Users \ {u} : Keeps(v)
  BY <1>1, <1>3 DEF Stays, Keeps
<1>7. ASSUME u \notin raced'
      PROVE  Own(t, u)'
  <2>1. Counted(u)' /\ Linked(u)' /\ Knowing(u)'
    BY <1>1, <1>5, <1>7, Mine DEF Counted, Linked, Knowing
  <2>2. user'[u].status = "ACTIVE"
    BY <1>1, <1>2, <1>5, <1>7, Mine DEF Duty
  <2>3. Stilled(u)'
    BY <2>2 DEF Stilled
  <2> QED
    BY <1>5, <2>1, <2>3 DEF Own
<1>8. Acts(t, u)
  BY <1>4, <1>5, <1>6, <1>7 DEF Acts
<1> QED
  BY <1>8

\* Who is suspended was so before, or the request goes on to still them.
LEMMA MemberWritten ==
  ASSUME AccessInvariant, NEW t \in Tabs, WriteMember(t)
  PROVE  \E u \in Users : Acts(t, u)
<1>1. TypeInvariant /\ RowsType /\ pc[t] = "write" /\ saw[t] \in UserType /\ UNCHANGED <<session, link, copying>>
  BY TypeParts DEF AccessInvariant, TypeInvariant, Shaped, WriteMember, At
<1>2. PICK u \in Users : u = subject[t]
  BY <1>1 DEF TypeInvariant, TypeOK
<1>3. PICK filled \in InputType : filled = input[t]
  BY <1>1 DEF TypeInvariant, TypeOK
<1>4. PICK old \in UserType : old = user[u] /\ user[u] # Absent
  BY <1>1, <1>2 DEF RowsType, WriteMember
<1>5. PICK row : row = [old EXCEPT !.role = filled.role, !.status = filled.status]
  OBVIOUS
<1>6. /\ row \in UserType /\ row.status = filled.status /\ row.role = filled.role
      /\ row.password = old.password /\ row.failed = old.failed /\ row.lock = old.lock
  BY <1>5 DEF UserType, InputType
<1>7. PICK new : new = IF filled.unlock THEN [row EXCEPT !.failed = 0, !.lock = "none"] ELSE row
  OBVIOUS
<1>8. /\ new \in UserType /\ new.status = filled.status /\ new.role = filled.role /\ new.password = old.password
      /\ filled.unlock => new.failed = 0 /\ new.lock = "none"
      /\ ~filled.unlock => new.failed = old.failed /\ new.lock = old.lock
  <2>1. CASE filled.unlock
    <3>1. new = [row EXCEPT !.failed = 0, !.lock = "none"]
      BY <1>7, <2>1
    <3> QED
      BY <1>6, <2>1, <3>1 DEF UserType
  <2>2. CASE ~filled.unlock
    BY <1>6, <1>7, <2>2
  <2> QED
    BY <2>1, <2>2
<1>9. /\ user' = [user EXCEPT ![u] = new]
      /\ misses' = IF filled.unlock THEN [misses EXCEPT ![u] = 0] ELSE misses
  BY <1>2, <1>3, <1>4, <1>5, <1>7 DEF WriteMember
<1>10. /\ user'[u] = new /\ new # Absent /\ \A v \in Users \ {u} : user'[v] = user[v] /\ misses'[v] = misses[v]
       /\ filled.unlock => misses'[u] = 0
       /\ ~filled.unlock => misses'[u] = misses[u]
  BY <1>1, <1>8, <1>9, RowsAreRows DEF RowsType
<1>11. RowsType'
  <2>1. user' \in [Users -> UserType \cup {Absent}] /\ misses' \in [Users -> Nat]
    BY <1>1, <1>8, <1>9 DEF RowsType
  <2>2. copying' \subseteq {v \in Users : user'[v] # Absent}
    BY <1>1, <1>10 DEF RowsType
  <2> QED
    BY <1>1, <2>1, <2>2 DEF RowsType
<1>12. /\ TrafficType' /\ Moves(t, u) /\ Shaped(t)' /\ Duty(t)' /\ crashes' = crashes
       /\ Suspends(t) => Working(t, u)' /\ pc'[t] = "suspend"
  <2>1. ASSUME NEW step \in {"suspend", "revoke"}, Go(t, step)
        PROVE  /\ TrafficType' /\ Moves(t, u) /\ Shaped(t)' /\ Duty(t)' /\ crashes' = crashes
               /\ pc'[t] = step /\ subject'[t] = u
    <3>1. step \in Steps /\ pc[t] # "idle"
      BY <1>1 DEF Steps
    <3>2. /\ TrafficType' /\ Moves(t, u) /\ crashes' = crashes
          /\ pc'[t] = step /\ subject'[t] = u /\ saw'[t] = saw[t]
      BY <1>1, <1>2, <2>1, <3>1, Going
    <3>3. Shaped(t)' /\ Duty(t)'
      BY <1>1, <3>2 DEF Shaped, Duty
    <3> QED
      BY <3>2, <3>3
  <2>2. CASE Suspends(t) /\ Go(t, "suspend")
    BY <2>1, <2>2 DEF Working
  <2>3. CASE ~Suspends(t) /\ Go(t, "revoke")
    BY <2>1, <2>3
  <2>4. CASE ~Suspends(t) /\ Done(t)
    BY <1>1, <1>2, <2>4, Ends
  <2> QED
    BY <2>2, <2>3, <2>4 DEF WriteMember
<1>13. Stays(t) /\ \A v \in Users \ {u} : Keeps(v)
  BY <1>1, <1>10 DEF Stays, Keeps
<1>14. ASSUME u \notin raced'
       PROVE  Own(t, u)'
  <2>1. /\ Counted(u) /\ Stilled(u) /\ Duty(t) /\ (\A s \in Tabs \ {t} : ~Working(s, u))
        /\ (crashes' = 0 => crashes = 0)
    BY <1>12, <1>14, Mine
  <2>2. Counted(u)'
    BY <1>4, <1>8, <1>10, <2>1, AccessAssumption DEF Counted, AccessAssumption
  <2>3. Linked(u)'
    BY <1>1, <1>12, <1>14, Mine DEF Linked
  <2>4. Knowing(u)'
    BY <1>1, <1>4, <1>8, <1>10, <1>12, <1>14, Mine DEF Knowing
  <2>5. Stilled(u)'
    <3>1. CASE Suspends(t)
      BY <1>12, <3>1 DEF Stilled
    <3>2. CASE ~Suspends(t)
      <4>1. saw[t].status = old.status
        BY <1>1, <1>2, <1>4, <1>12, <1>14, <2>1 DEF Duty, SeesRow, Moves
      <4>2. new.status = "SUSPENDED" => old.status = "SUSPENDED"
        BY <1>3, <1>4, <1>8, <3>2, <4>1 DEF Suspends, UserType
      <4>3. user'[u] # Absent /\ user'[u].status = "SUSPENDED" => user[u] # Absent /\ user[u].status = "SUSPENDED"
        BY <1>4, <1>10, <4>2
      <4> QED
        BY <1>1, <2>1, <4>3, StilledStays
    <3> QED
      BY <3>1, <3>2
  <2> QED
    BY <1>12, <2>2, <2>3, <2>4, <2>5 DEF Own
<1>15. Acts(t, u)
  BY <1>11, <1>12, <1>13, <1>14 DEF Acts
<1> QED
  BY <1>15
\* The sessions of a user end; what they own stays or goes with it.
LEMMA SessionsEnd ==
  ASSUME AccessInvariant, NEW t \in Tabs, NEW u \in Users, u = subject[t], pc[t] \in {"suspend", "revoke"},
         session' = Revoked(u, Tabs), copying' \in {copying, copying \ {u}}, pc[t] = "suspend" => u \notin copying',
         UNCHANGED <<user, link, misses>>, Done(t) \/ (pc[t] = "suspend" /\ Go(t, "revoke"))
  PROVE  Acts(t, u)
<1>1. TypeInvariant /\ RowsType /\ pc[t] # "idle" /\ saw[t] \in UserType
  BY TypeParts DEF AccessInvariant, TypeInvariant, Shaped
<1>2. /\ session' \in [Tabs -> SessionType \cup {NoSession}]
      /\ \A s \in Tabs :
           /\ session'[s] = NoSession <=> session[s] = NoSession
           /\ session[s] # NoSession =>
                /\ session'[s].user = session[s].user
                /\ session[s].revoked => session'[s].revoked
                /\ session[s].user = u => session'[s].revoked
                /\ session[s].user # u => session'[s] = session[s]
  <2>1. Tabs \in SUBSET Tabs
    OBVIOUS
  <2> QED
    BY <1>1, <2>1, Revoking
<1>3. RowsType'
  BY <1>1, <1>2 DEF RowsType
<1>4. TrafficType' /\ Moves(t, u) /\ Shaped(t)' /\ Duty(t)' /\ crashes' = crashes
  <2>1. CASE Done(t)
    BY <1>1, <2>1, Ends
  <2>2. CASE Go(t, "revoke")
    <3>1. "revoke" \in Steps
      BY DEF Steps
    <3>2. TrafficType' /\ Moves(t, u) /\ crashes' = crashes /\ pc'[t] = "revoke" /\ saw'[t] = saw[t]
      BY <1>1, <2>2, <3>1, Going
    <3>3. Shaped(t)' /\ Duty(t)'
      BY <1>1, <3>2 DEF Shaped, Duty
    <3> QED
      BY <3>2, <3>3
  <2> QED
    BY <2>1, <2>2
<1>5. Stays(t)
  BY <1>2 DEF Stays
<1>6. \A v \in Users \ {u} : Keeps(v)
  BY <1>2 DEF Keeps
<1>7. ASSUME u \notin raced'
      PROVE  Own(t, u)'
  <2>1. Counted(u)' /\ Linked(u)'
    BY <1>4, <1>7, Mine DEF Counted, Linked
  <2>2. \A s \in Tabs : session'[s] # NoSession /\ session'[s].user = u => session'[s].revoked
    BY <1>2
  <2>3. Knowing(u)'
    BY <2>2 DEF Knowing
  <2>4. Stilled(u)'
    <3>1. CASE pc[t] = "suspend"
      BY <2>2, <3>1 DEF Stilled
    <3>2. CASE pc[t] # "suspend"
      <4>1. Stilled(u) /\ (\A s \in Tabs \ {t} : ~Working(s, u)) /\ (crashes' = 0 => crashes = 0)
        BY <1>4, <1>7, Mine
      <4>2. \A s \in Tabs : session'[s] # NoSession /\ session'[s].user = u =>
              session[s] # NoSession /\ session[s].user = u /\ (session[s].revoked => session'[s].revoked)
        BY <1>2
      <4>3. u \in copying' => u \in copying
        OBVIOUS
      <4> QED
        BY <3>2, <4>1, <4>2, <4>3, StilledStays
    <3> QED
      BY <3>1, <3>2
  <2> QED
    BY <1>4, <2>1, <2>3, <2>4 DEF Own
<1> QED
  BY <1>3, <1>4, <1>5, <1>6, <1>7 DEF Acts

LEMMA SuspensionActs ==
  ASSUME AccessInvariant, NEW t \in Tabs, SuspendActivity(t) \/ RevokeSessions(t)
  PROVE  \E u \in Users : Acts(t, u)
<1>1. PICK u \in Users : u = subject[t]
  BY DEF AccessInvariant, TypeInvariant, TypeOK
<1>2. CASE SuspendActivity(t)
  <2>1. pc[t] = "suspend" /\ session' = Revoked(u, Tabs) /\ copying' = copying \ {u} /\ UNCHANGED <<user, link, misses>>
    BY <1>1, <1>2 DEF SuspendActivity, At
  <2>2. Done(t) \/ Go(t, "revoke")
    BY <1>2 DEF SuspendActivity
  <2>3. Acts(t, u)
    BY <1>1, <2>1, <2>2, SessionsEnd
  <2> QED
    BY <2>3
<1>3. CASE RevokeSessions(t)
  <2>1. pc[t] = "revoke" /\ session' = Revoked(u, Tabs) /\ copying' = copying /\ UNCHANGED <<user, link, misses>> /\ Done(t)
    BY <1>1, <1>3 DEF RevokeSessions, At
  <2>2. Acts(t, u)
    BY <1>1, <2>1, SessionsEnd
  <2> QED
    BY <2>2
<1> QED
  BY <1>2, <1>3

\* With the row goes all that hung on it.
LEMMA UserDeleted ==
  ASSUME AccessInvariant, NEW t \in Tabs, DeleteUser(t)
  PROVE  \E u \in Users : Acts(t, u)
<1>1. TypeInvariant /\ RowsType /\ pc[t] = "remove" /\ Done(t) /\ misses' = misses
  BY TypeParts DEF AccessInvariant, DeleteUser, At
<1>2. PICK u \in Users : u = subject[t]
  BY <1>1 DEF TypeInvariant, TypeOK
<1>3. /\ user' = [user EXCEPT ![u] = Absent] /\ session' = Revoked(u, Tabs) /\ copying' = copying \ {u}
      /\ link' = [k \in DOMAIN link |-> IF link[k].user = u THEN [link[k] EXCEPT !.usable = FALSE] ELSE link[k]]
  BY <1>2 DEF DeleteUser
<1>4. PICK n \in Nat : /\ n = Cardinality(DOMAIN link) /\ DOMAIN link = 1..n
                       /\ \A k \in DOMAIN link : link[k] \in LinkType /\ k \in Nat
  BY <1>1, LinkRows
<1>5. /\ DOMAIN link' = DOMAIN link
      /\ \A k \in DOMAIN link :
           /\ link'[k] \in LinkType /\ link'[k].user = link[k].user /\ link'[k].uses = link[k].uses
           /\ link[k].user = u => link'[k].usable = FALSE
           /\ link[k].user # u => link'[k] = link[k]
  BY <1>3, <1>4 DEF LinkType
<1>6. /\ session' \in [Tabs -> SessionType \cup {NoSession}]
      /\ \A s \in Tabs :
           /\ session'[s] = NoSession <=> session[s] = NoSession
           /\ session[s] # NoSession =>
                /\ session'[s].user = session[s].user
                /\ session[s].user = u => session'[s].revoked
                /\ session[s].user # u => session'[s] = session[s]
  <2>1. Tabs \in SUBSET Tabs
    OBVIOUS
  <2> QED
    BY <1>1, <1>3, <2>1, Revoking
<1>7. /\ user'[u] = Absent /\ user' \in [Users -> UserType \cup {Absent}]
      /\ \A v \in Users \ {u} : user'[v] = user[v]
  BY <1>1, <1>3 DEF RowsType
<1>8. RowsType'
  <2>1. link' \in [1..n -> LinkType] /\ Cardinality(DOMAIN link') = n
    BY <1>3, <1>4, <1>5
  <2>2. copying' \subseteq {v \in Users : user'[v] # Absent}
    BY <1>1, <1>3, <1>7 DEF RowsType
  <2> QED
    BY <1>1, <1>6, <1>7, <2>1, <2>2 DEF RowsType
<1>9. TrafficType' /\ Moves(t, u) /\ Shaped(t)' /\ Duty(t)'
  BY <1>1, <1>2, Ends
<1>10. Stays(t)
  BY <1>5, <1>6 DEF Stays
<1>11. \A v \in Users \ {u} : Keeps(v)
  BY <1>1, <1>3, <1>5, <1>6, <1>7 DEF Keeps
<1>12. ASSUME u \notin raced'
       PROVE  Own(t, u)'
  <2>1. Counted(u)' /\ Stilled(u)'
    BY <1>7 DEF Counted, Stilled
  <2>2. Linked(u)'
    BY <1>5, <1>9, <1>12, Mine DEF Linked
  <2>3. Knowing(u)'
    BY <1>6 DEF Knowing
  <2> QED
    BY <1>9, <2>1, <2>2, <2>3 DEF Own
<1>13. Acts(t, u)
  BY <1>8, <1>9, <1>10, <1>11, <1>12 DEF Acts
<1> QED
  BY <1>13

LEMMA GoneActs ==
  ASSUME AccessInvariant, NEW t \in Tabs, Gone(t)
  PROVE  \E u \in Users : Acts(t, u)
<1>1. pc[t] \notin {"idle", "suspend"} /\ Done(t) /\ UNCHANGED <<user, session, link, copying, misses>>
  BY DEF Gone
<1> QED
  BY <1>1, EndsActs

-----------------------------------------------------------------------------
(* Time.                                                                   *)

LEMMA LockEnds ==
  ASSUME AccessInvariant, NEW u \in Users, LockExpires(u)
  PROVE  AccessInvariant'
<1>1. RowsType /\ TrafficType /\ \A t \in Tabs : Shaped(t)
  BY TypeParts DEF AccessInvariant
<1>2. /\ user[u] # Absent /\ user' = [user EXCEPT ![u].lock = "expired"]
      /\ UNCHANGED <<session, link, copying, pc, subject, saw, input, misses, raced, requests, crashes>>
  BY DEF LockExpires
<1>3. PICK row \in UserType : row = user[u]
  BY <1>1, <1>2 DEF RowsType
<1>4. PICK new : new = [row EXCEPT !.lock = "expired"]
  OBVIOUS
<1>5. new \in UserType
  BY <1>4 DEF UserType
<1>6. /\ new.failed = row.failed /\ new.lock = "expired" /\ new.status = row.status
      /\ new.password = row.password /\ new.role = row.role
  BY <1>4 DEF UserType
<1>7. user' = [user EXCEPT ![u] = new] /\ user'[u] = new /\ \A v \in Users \ {u} : user'[v] = user[v]
  BY <1>1, <1>2, <1>3, <1>4 DEF RowsType
<1>8. TypeInvariant'
  <2>1. RowsType'
    BY <1>1, <1>2, <1>5, <1>7, RowsAreRows DEF RowsType
  <2>2. TrafficType'
    BY <1>1, <1>2 DEF TrafficType
  <2>3. \A t \in Tabs : Shaped(t)'
    BY <1>1, <1>2 DEF Shaped
  <2> QED
    BY <2>1, <2>2, <2>3 DEF TypeInvariant, TypeOK, RowsType, TrafficType
<1>9. \A v \in Users : /\ user'[v] = Absent <=> user[v] = Absent
                       /\ user[v] # Absent =>
                            /\ user'[v].failed = user[v].failed /\ user'[v].status = user[v].status
                            /\ user'[v].password = user[v].password /\ user'[v].role = user[v].role
                            /\ user'[v].lock = user[v].lock \/ user'[v].lock = "expired"
  BY <1>2, <1>3, <1>5, <1>6, <1>7, RowsAreRows
<1>10. \A v \in Users : Alone(v)'
  BY <1>2 DEF AccessInvariant, Alone, Working
<1>11. ASSUME NEW v \in Users
       PROVE  Held(v)'
  <2> SUFFICES ASSUME v \notin raced PROVE Counted(v)' /\ Linked(v)' /\ Knowing(v)' /\ Stilled(v)'
    BY <1>2 DEF Held
  <2>1. Counted(v) /\ Linked(v) /\ Knowing(v) /\ Stilled(v)
    BY DEF AccessInvariant, Held
  <2>2. Counted(v)'
    BY <1>2, <1>9, <2>1 DEF Counted
  <2>3. Linked(v)'
    BY <1>2, <2>1 DEF Linked
  <2>4. Knowing(v)'
    BY <1>2, <1>9, <2>1 DEF Knowing
  <2>5. Stilled(v)'
    BY <1>2, <1>9, <2>1 DEF Stilled, Working
  <2> QED
    BY <2>2, <2>3, <2>4, <2>5
<1>12. ASSUME NEW t \in Tabs
       PROVE  Duty(t)'
  <2>1. PICK v \in Users : v = subject[t]
    BY <1>1 DEF TrafficType
  <2>2. SeesRow(t) => SeesRow(t)'
    BY <1>2, <1>9, <2>1 DEF SeesRow
  <2>3. Duty(t)
    BY DEF AccessInvariant
  <2> QED
    BY <1>2, <1>9, <2>1, <2>2, <2>3 DEF Duty
<1> QED
  BY <1>8, <1>10, <1>11, <1>12 DEF AccessInvariant

LEMMA LinkEnds ==
  ASSUME AccessInvariant, NEW i \in DOMAIN link, LinkExpires(i)
  PROVE  AccessInvariant'
<1>1. RowsType /\ TrafficType /\ \A t \in Tabs : Shaped(t)
  BY TypeParts DEF AccessInvariant
<1>2. /\ link' = [link EXCEPT ![i].usable = FALSE]
      /\ UNCHANGED <<user, session, copying, pc, subject, saw, input, misses, raced, requests, crashes>>
  BY DEF LinkExpires
<1>3. PICK n \in Nat : /\ n = Cardinality(DOMAIN link) /\ DOMAIN link = 1..n
                       /\ \A k \in DOMAIN link : link[k] \in LinkType /\ k \in Nat
  BY LinkRows DEF AccessInvariant
<1>4. PICK row \in LinkType : row = link[i]
  BY <1>3
<1>5. link'[i] = [row EXCEPT !.usable = FALSE] /\ DOMAIN link' = DOMAIN link /\ \A k \in DOMAIN link : k # i => link'[k] = link[k]
  BY <1>2, <1>4
<1>6. link'[i] \in LinkType /\ link'[i].user = row.user /\ link'[i].usable = FALSE /\ link'[i].uses = row.uses
  BY <1>5 DEF LinkType
<1>7. \A k \in DOMAIN link :
        /\ link'[k] \in LinkType /\ link'[k].user = link[k].user /\ link'[k].uses = link[k].uses
        /\ link'[k].usable => link[k].usable
  BY <1>3, <1>4, <1>5, <1>6
<1>8. TypeInvariant'
  <2>1. link' = [k \in 1..n |-> link'[k]] /\ \A k \in 1..n : link'[k] \in LinkType
    BY <1>2, <1>3, <1>7
  <2>2. link' \in [1..n -> LinkType] /\ Cardinality(DOMAIN link') = n
    BY <1>3, <1>5, <2>1
  <2>3. RowsType'
    BY <1>1, <1>2, <2>2 DEF RowsType
  <2>4. TrafficType'
    BY <1>1, <1>2 DEF TrafficType
  <2>5. \A t \in Tabs : Shaped(t)'
    BY <1>1, <1>2, <1>5, <1>7 DEF Shaped
  <2> QED
    BY <2>3, <2>4, <2>5 DEF TypeInvariant, TypeOK, RowsType, TrafficType
<1>9. \A v \in Users : Alone(v)'
  BY <1>2 DEF AccessInvariant, Alone, Working
<1>10. ASSUME NEW v \in Users
       PROVE  Held(v)'
  <2> SUFFICES ASSUME v \notin raced PROVE Counted(v)' /\ Linked(v)' /\ Knowing(v)' /\ Stilled(v)'
    BY <1>2 DEF Held
  <2>1. Counted(v) /\ Linked(v) /\ Knowing(v) /\ Stilled(v)
    BY DEF AccessInvariant, Held
  <2>2. Counted(v)'
    BY <1>2, <2>1 DEF Counted
  <2>3. Linked(v)'
    BY <1>5, <1>7, <2>1 DEF Linked
  <2>4. Knowing(v)'
    BY <1>2, <2>1 DEF Knowing
  <2>5. Stilled(v)'
    BY <1>2, <2>1 DEF Stilled, Working
  <2> QED
    BY <2>2, <2>3, <2>4, <2>5
<1>11. ASSUME NEW t \in Tabs
       PROVE  Duty(t)'
  <2>1. SeesRow(t) => SeesRow(t)'
    BY <1>2 DEF SeesRow
  <2>2. Duty(t)
    BY DEF AccessInvariant
  <2>3. pc[t] = "reset" => link'[input[t].link].uses = link[input[t].link].uses
    BY <1>1, <1>7 DEF Shaped
  <2> QED
    BY <1>2, <1>5, <1>7, <2>1, <2>2, <2>3 DEF Duty
<1> QED
  BY <1>8, <1>9, <1>10, <1>11 DEF AccessInvariant
-----------------------------------------------------------------------------
(* The invariant is inductive.                                             *)

LEMMA AccessInit == Init => AccessInvariant
<1> SUFFICES ASSUME Init PROVE AccessInvariant
  OBVIOUS
<1>1. /\ link = << >> /\ copying = {} /\ pc = [t \in Tabs |-> "idle"] /\ saw = [t \in Tabs |-> Absent]
      /\ input = [t \in Tabs |-> Nothing] /\ misses = [u \in Users |-> 0]
      /\ raced = {} /\ requests = 0 /\ crashes = 0
  BY DEF Init
<1>2. PICK member : member = Person("MEMBER")
  OBVIOUS
<1>3. PICK admin : admin = Person("ADMIN")
  OBVIOUS
<1>4. /\ member \in UserType /\ member.failed = 0 /\ member.status = "ACTIVE" /\ member.password = 0 /\ member.lock = "none"
      /\ admin \in UserType /\ admin.failed = 0 /\ admin.status = "ACTIVE" /\ admin.password = 0 /\ admin.lock = "none"
  BY <1>2, <1>3 DEF Person, UserType
<1>5. user \in [Users -> {Absent, member, admin}]
  BY <1>2, <1>3 DEF Init
<1>6. \A u \in Users : user[u] # Absent =>
        user[u] \in UserType /\ user[u].failed = 0 /\ user[u].status = "ACTIVE" /\ user[u].password = 0 /\ user[u].lock = "none"
  BY <1>4, <1>5
<1>7. session \in [Tabs -> {NoSession} \cup [user : {u \in Users : user[u] # Absent}, password : {0}, revoked : {FALSE}]]
  BY DEF Init
<1>8. \A t \in Tabs : session[t] # NoSession =>
        session[t] \in SessionType /\ session[t].password = 0 /\ user[session[t].user] # Absent
  <2> TAKE t \in Tabs
  <2> HAVE session[t] # NoSession
  <2>1. PICK row : row = session[t]
    OBVIOUS
  <2>2. row \in [user : {u \in Users : user[u] # Absent}, password : {0}, revoked : {FALSE}]
    BY <1>7, <2>1
  <2>3. row.user \in Users /\ user[row.user] # Absent /\ row.password = 0 /\ row.revoked \in BOOLEAN
    BY <2>2
  <2>4. row = [user |-> row.user, password |-> row.password, revoked |-> row.revoked]
    BY <2>2
  <2>5. row \in SessionType
    BY <2>3, <2>4 DEF SessionType
  <2> QED
    BY <2>1, <2>3, <2>5
<1>9. subject \in [Tabs -> Users]
  <2>1. (CHOOSE u \in Users : TRUE) \in Users
    BY AccessAssumption DEF AccessAssumption
  <2> QED
    BY <2>1 DEF Init
<1>10. DOMAIN link = {} /\ DOMAIN link = 1..0 /\ Cardinality(DOMAIN link) = 0 /\ link \in [1..0 -> LinkType]
  BY <1>1, FS_EmptySet
<1>11. RowsType
  <2>1. user \in [Users -> UserType \cup {Absent}]
    BY <1>4, <1>5
  <2>2. session \in [Tabs -> SessionType \cup {NoSession}]
    BY <1>7, <1>8
  <2> QED
    BY <1>1, <1>10, <2>1, <2>2 DEF RowsType
<1>12. TrafficType
  <2>1. Nothing \in InputType /\ "idle" \in Steps
    BY DEF Nothing, InputType, Steps
  <2>2. requests \in 0..MaxRequests /\ crashes \in 0..MaxCrashes
    BY <1>1, AccessAssumption DEF AccessAssumption
  <2> QED
    BY <1>1, <1>9, <2>1, <2>2 DEF TrafficType
<1>13. \A t \in Tabs : pc[t] = "idle"
  BY <1>1
<1>14. \A t \in Tabs : Shaped(t) /\ Duty(t)
  BY <1>13 DEF Shaped, Duty
<1>15. ASSUME NEW u \in Users
       PROVE  Alone(u) /\ Held(u)
  <2>1. Alone(u)
    BY <1>13 DEF Alone, Working
  <2>2. Counted(u)
    BY <1>1, <1>6, AccessAssumption DEF Counted, AccessAssumption
  <2>3. Linked(u)
    BY <1>10 DEF Linked
  <2>4. Knowing(u)
    BY <1>6, <1>8 DEF Knowing
  <2>5. Stilled(u)
    BY <1>6 DEF Stilled
  <2> QED
    BY <2>1, <2>2, <2>3, <2>4, <2>5 DEF Held
<1> QED
  BY <1>11, <1>12, <1>14, <1>15, TypeParts DEF AccessInvariant

LEMMA AccessStutters == AccessInvariant /\ UNCHANGED vars => AccessInvariant'
<1> SUFFICES ASSUME AccessInvariant, UNCHANGED vars PROVE AccessInvariant'
  OBVIOUS
<1>1. UNCHANGED <<user, session, link, copying, pc, subject, saw, input, misses, raced, requests, crashes>>
  BY DEF vars
<1>2. TypeInvariant'
  BY <1>1 DEF AccessInvariant, TypeInvariant, TypeOK, Shaped
<1>3. ASSUME NEW u \in Users
      PROVE  Alone(u)' /\ Held(u)'
  <2>1. Alone(u) /\ Held(u)
    BY DEF AccessInvariant
  <2>2. Alone(u)'
    BY <1>1, <2>1 DEF Alone, Working
  <2>3. Held(u)'
    BY <1>1, <2>1 DEF Held, Counted, Linked, Knowing, Stilled, Working
  <2> QED
    BY <2>2, <2>3
<1>4. \A t \in Tabs : Duty(t)'
  BY <1>1 DEF AccessInvariant, Duty, SeesRow
<1> QED
  BY <1>2, <1>3, <1>4 DEF AccessInvariant

\* What a browser does next: a request is sent, or a step of one is done.
Sent(t) ==
  \/ \E u \in Users : Register(t, u) \/ RequestReset(t, u) \/ BeginDelete(t, u)
  \/ \E u \in Users, correct \in BOOLEAN : Login(t, u, correct)
  \/ \E u \in Users, filled \in Forms : UpdateMember(t, u, filled)
  \/ \E k \in DOMAIN link : OpenLink(t, k)
  \/ BeginChange(t) \/ BeginStart(t) \/ StopCopying(t) \/ Logout(t)

LEMMA NextParts ==
  Next <=> \/ \E t \in Tabs : Sent(t) \/ TabStep(t) \/ Die(t)
           \/ \E u \in Users : LockExpires(u)
           \/ \E k \in DOMAIN link : LinkExpires(k)
BY DEF Next, Sent
LEMMA SentHolds ==
  ASSUME AccessInvariant, NEW t \in Tabs, Sent(t)
  PROVE  \E u \in Users : Acts(t, u)
<1>1. ASSUME NEW u \in Users, Register(t, u) \/ RequestReset(t, u) \/ BeginDelete(t, u)
      PROVE  \E w \in Users : Acts(t, w)
  <2>1. Acts(t, u)
    BY <1>1, RegisterActs, RequestResetActs, DialogActs
  <2> QED
    BY <2>1
<1>2. ASSUME NEW u \in Users, NEW correct \in BOOLEAN, Login(t, u, correct)
      PROVE  \E w \in Users : Acts(t, w)
  BY <1>2, LoginActs
<1>3. ASSUME NEW u \in Users, NEW filled \in Forms, UpdateMember(t, u, filled)
      PROVE  \E w \in Users : Acts(t, w)
  <2>1. Acts(t, u)
    BY <1>3, DialogActs
  <2> QED
    BY <2>1
<1>4. ASSUME NEW k \in DOMAIN link, OpenLink(t, k)
      PROVE  \E w \in Users : Acts(t, w)
  BY <1>4, OpenLinkActs
<1>5. CASE BeginChange(t) \/ BeginStart(t)
  BY <1>5, MemberActs
<1>6. CASE StopCopying(t) \/ Logout(t)
  BY <1>6, StopActs
<1> QED
  BY <1>1, <1>2, <1>3, <1>4, <1>5, <1>6 DEF Sent

LEMMA TabStepHolds ==
  ASSUME AccessInvariant, NEW t \in Tabs, TabStep(t)
  PROVE  \E u \in Users : Acts(t, u)
<1>1. CASE CreateUser(t)
  BY <1>1, CreateUserActs
<1>2. CASE RegisterFailed(t)
  BY <1>2, LoginCounted
<1>3. CASE RegisterSuccess(t)
  BY <1>3, LoginCleared
<1>4. CASE StartSession(t)
  BY <1>4, SessionStarts
<1>5. CASE CreateLink(t)
  BY <1>5, LinkCreated
<1>6. CASE ResetPassword(t)
  BY <1>6, PasswordReset
<1>7. CASE ChangePassword(t)
  BY <1>7, PasswordChanged
<1>8. CASE StartCopying(t)
  BY <1>8, CopyingStarts
<1>9. CASE CountAdmins(t) \/ CheckBlockers(t)
  BY <1>9, CountsActs
<1>10. CASE WriteMember(t)
  BY <1>10, MemberWritten
<1>11. CASE SuspendActivity(t) \/ RevokeSessions(t)
  BY <1>11, SuspensionActs
<1>12. CASE DeleteUser(t)
  BY <1>12, UserDeleted
<1>13. CASE Gone(t)
  BY <1>13, GoneActs
<1> QED
  BY <1>1, <1>2, <1>3, <1>4, <1>5, <1>6, <1>7, <1>8, <1>9, <1>10, <1>11, <1>12, <1>13 DEF TabStep

LEMMA AccessNext == AccessInvariant /\ [Next]_vars => AccessInvariant'
<1> SUFFICES ASSUME AccessInvariant, [Next]_vars PROVE AccessInvariant'
  OBVIOUS
<1>1. ASSUME NEW t \in Tabs, Sent(t) \/ TabStep(t) \/ Die(t)
      PROVE  AccessInvariant'
  <2>1. PICK u \in Users : Acts(t, u)
    BY <1>1, SentHolds, TabStepHolds, DieActs
  <2> QED
    BY <2>1, ActsHold
<1>2. ASSUME NEW u \in Users, LockExpires(u)
      PROVE  AccessInvariant'
  BY <1>2, LockEnds
<1>3. ASSUME NEW k \in DOMAIN link, LinkExpires(k)
      PROVE  AccessInvariant'
  BY <1>3, LinkEnds
<1>4. CASE UNCHANGED vars
  BY <1>4, AccessStutters
<1> QED
  BY <1>1, <1>2, <1>3, <1>4, NextParts

-----------------------------------------------------------------------------
(* What the invariant says.                                                *)

\* Of links no two of which can be used, one can at most.
LEMMA OneUsableLink ==
  ASSUME AccessInvariant, NEW u \in Users, u \notin raced
  PROVE  Cardinality({k \in DOMAIN link : link[k].user = u /\ link[k].usable}) <= 1
<1>1. Linked(u)
  BY DEF AccessInvariant, Held
<1>2. PICK usable : usable = {k \in DOMAIN link : link[k].user = u /\ link[k].usable}
  OBVIOUS
<1>3. CASE usable = {}
  <2>1. Cardinality(usable) = 0
    BY <1>3, FS_EmptySet
  <2> QED
    BY <1>2, <2>1
<1>4. CASE usable # {}
  <2>1. PICK k \in usable : TRUE
    BY <1>4
  <2>2. usable = {k}
    BY <1>1, <1>2, <2>1 DEF Linked
  <2>3. Cardinality(usable) = 1
    BY <2>2, FS_Singleton
  <2> QED
    BY <1>2, <2>3
<1> QED
  BY <1>3, <1>4

LEMMA InvariantImpliesCredentials == AccessInvariant => CredentialsHold
<1> SUFFICES ASSUME AccessInvariant PROVE CredentialsHold
  OBVIOUS
<1>1. TypeOK
  BY DEF AccessInvariant, TypeInvariant
<1>2. FailuresLock
  BY DEF AccessInvariant, Held, Counted, FailuresLock, Orderly
<1>3. ASSUME NEW u \in Users, Orderly(u)
      PROVE  /\ Cardinality({k \in DOMAIN link : link[k].user = u /\ link[k].usable}) <= 1
             /\ \A k \in DOMAIN link : link[k].user = u => link[k].uses <= 1
  <2>1. u \notin raced
    BY <1>3 DEF Orderly
  <2>2. Linked(u)
    BY <2>1 DEF AccessInvariant, Held
  <2> QED
    BY <2>1, <2>2, OneUsableLink DEF Linked
<1>4. OneLink
  BY <1>3 DEF OneLink
<1>5. ASSUME NEW t \in Tabs, SignedIn(t), Orderly(session[t].user)
      PROVE  session[t].password = user[session[t].user].password
  <2>1. session[t] # NoSession /\ ~session[t].revoked /\ session[t] \in SessionType
    BY <1>1, <1>5 DEF SignedIn, TypeOK
  <2>2. PICK u \in Users : u = session[t].user
    BY <2>1 DEF SessionType
  <2>3. Knowing(u)
    BY <1>5, <2>2 DEF AccessInvariant, Held, Orderly
  <2> QED
    BY <2>1, <2>2, <2>3 DEF Knowing
<1>6. SessionKnowsPassword
  BY <1>5 DEF SessionKnowsPassword
<1> QED
  BY <1>1, <1>2, <1>4, <1>6 DEF CredentialsHold

LEMMA InvariantImpliesStill == AccessInvariant => SuspendedIsStill
<1> SUFFICES ASSUME AccessInvariant, NEW u \in Users, user[u] # Absent, user[u].status = "SUSPENDED",
                    Orderly(u), crashes = 0, \A t \in Tabs : subject[t] = u => pc[t] = "idle"
             PROVE  /\ u \notin copying
                    /\ \A t \in Tabs : session[t] # NoSession /\ session[t].user = u => session[t].revoked
  BY DEF SuspendedIsStill
<1>1. Stilled(u)
  BY DEF AccessInvariant, Held, Orderly
<1>2. \A t \in Tabs : ~Working(t, u)
  BY DEF Working
<1> QED
  BY <1>1, <1>2 DEF Stilled
-----------------------------------------------------------------------------
(* Administrators.                                                         *)

\* A step that takes no administrator away, and threatens none before another request.
LEMMA AdminsStay ==
  ASSUME AdminInvariant, NEW t \in Tabs, NEW u \in Users, Acts(t, u),
         Admins \subseteq Admins',
         (\E v \in Users : user'[v] # Absent) =>
           (\E v \in Users : user[v] # Absent) \/ Admins' # {},
         pc'[t] = "create" /\ ~input'[t].first => \E v \in Users : user[v] # Absent,
         raced' = {} /\ Threatens(t)' => Admins \ {u} # {} /\ \A s \in Tabs \ {t} : ~Threatens(s)
  PROVE  AdminInvariant'
<1>1. AccessInvariant'
  BY ActsHold DEF AdminInvariant
<1> SUFFICES ASSUME raced' = {}
             PROVE  /\ (\E v \in Users : user'[v] # Absent) \/ (\E s \in Tabs : pc'[s] = "create" /\ ~input'[s].first)
                         => Admins' # {}
                    /\ \A s \in Tabs : Threatens(s)' => Admins' \ {subject'[s]} # {}
                    /\ \A r, s \in Tabs : Threatens(r)' /\ Threatens(s)' => r = s
  BY <1>1 DEF AdminInvariant
<1>2. /\ raced = {} /\ subject'[t] = u
      /\ \A s \in Tabs \ {t} :
           pc'[s] = pc[s] /\ subject'[s] = subject[s] /\ saw'[s] = saw[s] /\ input'[s] = input[s]
  BY DEF Acts, Moves
<1>3. /\ (\E v \in Users : user[v] # Absent) \/ (\E s \in Tabs : pc[s] = "create" /\ ~input[s].first) => Admins # {}
      /\ \A s \in Tabs : Threatens(s) => Admins \ {subject[s]} # {}
      /\ \A r, s \in Tabs : Threatens(r) /\ Threatens(s) => r = s
  BY <1>2 DEF AdminInvariant
<1>4. \A s \in Tabs \ {t} : Threatens(s)' <=> Threatens(s)
  BY <1>2 DEF Threatens
<1>5. ASSUME (\E v \in Users : user'[v] # Absent) \/ (\E s \in Tabs : pc'[s] = "create" /\ ~input'[s].first)
      PROVE  Admins' # {}
  <2>1. CASE \E v \in Users : user'[v] # Absent
    BY <1>3, <2>1
  <2>2. CASE \E s \in Tabs : pc'[s] = "create" /\ ~input'[s].first
    BY <1>2, <1>3, <2>2
  <2> QED
    BY <1>5, <2>1, <2>2
<1>6. \A s \in Tabs : Threatens(s)' => Admins' \ {subject'[s]} # {}
  BY <1>2, <1>3, <1>4
<1>7. \A r, s \in Tabs : Threatens(r)' /\ Threatens(s)' => r = s
  BY <1>3, <1>4
<1> QED
  BY <1>5, <1>6, <1>7

\* The one request that may takes one of the administrators away.
LEMMA AdminTaken ==
  ASSUME AdminInvariant, NEW t \in Tabs, NEW u \in Users, Acts(t, u), Threatens(t),
         pc'[t] \notin {"create", "write", "remove"}
  PROVE  AdminInvariant'
<1>1. AccessInvariant'
  BY ActsHold DEF AdminInvariant
<1> SUFFICES ASSUME raced' = {}
             PROVE  /\ Admins' # {}
                    /\ \A s \in Tabs : ~Threatens(s)'
  BY <1>1 DEF AdminInvariant
<1>2. /\ raced = {} /\ subject[t] = u
      /\ \A s \in Tabs \ {t} :
           pc'[s] = pc[s] /\ saw'[s] = saw[s] /\ input'[s] = input[s]
  BY DEF Acts, Moves, Threatens
<1>3. Admins \ {u} # {} /\ \A s \in Tabs \ {t} : ~Threatens(s)
  BY <1>2 DEF AdminInvariant
<1>4. \A v \in Users \ {u} : user'[v] = user[v]
  BY DEF Acts, Keeps
<1>5. Admins' # {}
  BY <1>3, <1>4 DEF Admins
<1>6. \A s \in Tabs : ~Threatens(s)'
  BY <1>2, <1>3 DEF Threatens
<1> QED
  BY <1>5, <1>6

\* A step about no row's role or status that neither counts nor registers.
SameAdmins == \A v \in Users : (v \in Admins' <=> v \in Admins) /\ (user'[v] # Absent <=> user[v] # Absent)
Quiet(t) == SameAdmins /\ pc'[t] \notin {"create", "write", "remove"}

LEMMA QuietKeeps ==
  ASSUME AdminInvariant, NEW t \in Tabs, NEW u \in Users, Acts(t, u), Quiet(t)
  PROVE  AdminInvariant'
<1>1. Admins \subseteq Admins'
  BY DEF Quiet, SameAdmins, Admins
<1>2. (\E v \in Users : user'[v] # Absent) => (\E v \in Users : user[v] # Absent)
  BY DEF Quiet, SameAdmins
<1>3. ~Threatens(t)' /\ pc'[t] # "create"
  BY DEF Quiet, Threatens
<1> QED
  BY <1>1, <1>2, <1>3, AdminsStay

LEMMA RankKept ==
  ASSUME RowsType, NEW u \in Users, NEW row \in UserType, row = user[u], NEW new \in UserType, user' = [user EXCEPT ![u] = new],
         new.role = row.role, new.status = row.status
  PROVE  SameAdmins
<1>1. user'[u] = new /\ new # Absent /\ row # Absent /\ \A v \in Users \ {u} : user'[v] = user[v]
  BY RowsAreRows DEF RowsType
<1> QED
  BY <1>1 DEF SameAdmins, Admins

LEMMA QuietSent ==
  ASSUME AccessInvariant, NEW t \in Tabs,
         \/ \E u \in Users : RequestReset(t, u) \/ BeginDelete(t, u)
         \/ \E u \in Users, correct \in BOOLEAN : Login(t, u, correct)
         \/ \E k \in DOMAIN link : OpenLink(t, k)
         \/ BeginChange(t) \/ BeginStart(t) \/ StopCopying(t) \/ Logout(t)
  PROVE  Quiet(t)
<1>1. pc \in [Tabs -> Steps]
  BY DEF AccessInvariant, TypeInvariant, TypeOK
<1>2. user' = user
  BY DEF RequestReset, BeginDelete, Login, OpenLink, BeginChange, BeginStart, StopCopying, Logout
<1>3. SameAdmins
  BY <1>2 DEF SameAdmins, Admins
<1>4. \E step \in {"token", "blockers", "succeed", "fail", "reset", "change", "start", "idle"} :
        pc' = [pc EXCEPT ![t] = step]
  BY DEF RequestReset, BeginDelete, Login, OpenLink, BeginChange, BeginStart, StopCopying, Logout, Send
<1>5. pc'[t] \notin {"create", "write", "remove"}
  BY <1>1, <1>4
<1> QED
  BY <1>3, <1>5 DEF Quiet

LEMMA QuietDone ==
  ASSUME AccessInvariant, NEW t \in Tabs,
         \/ StartSession(t) \/ CreateLink(t) \/ StartCopying(t) \/ SuspendActivity(t) \/ RevokeSessions(t)
         \/ Gone(t) \/ Die(t)
  PROVE  Quiet(t)
<1>1. pc \in [Tabs -> Steps]
  BY DEF AccessInvariant, TypeInvariant, TypeOK
<1>2. user' = user
  BY DEF StartSession, CreateLink, StartCopying, SuspendActivity, RevokeSessions, Gone, Die
<1>3. SameAdmins
  BY <1>2 DEF SameAdmins, Admins
<1>4. pc' = [pc EXCEPT ![t] = "idle"] \/ pc' = [pc EXCEPT ![t] = "revoke"]
  BY DEF StartSession, CreateLink, StartCopying, SuspendActivity, RevokeSessions, Gone, Die, Done, Go
<1>5. pc'[t] \notin {"create", "write", "remove"}
  BY <1>1, <1>4
<1> QED
  BY <1>3, <1>5 DEF Quiet

LEMMA QuietWrites ==
  ASSUME AccessInvariant, NEW t \in Tabs,
         RegisterFailed(t) \/ RegisterSuccess(t) \/ ResetPassword(t) \/ ChangePassword(t)
  PROVE  Quiet(t)
<1>1. RowsType /\ TrafficType
  BY TypeParts DEF AccessInvariant
<1>2. PICK u \in Users : u = subject[t]
  BY <1>1 DEF TrafficType
<1>3. user[u] # Absent
  BY <1>2 DEF RegisterFailed, RegisterSuccess, ResetPassword, ChangePassword
<1>4. PICK row \in UserType : row = user[u]
  BY <1>1, <1>3 DEF RowsType
<1>5. pc' = [pc EXCEPT ![t] = "idle"] \/ pc' = [pc EXCEPT ![t] = "session"]
  BY DEF RegisterFailed, RegisterSuccess, ResetPassword, ChangePassword, Done, Go
<1>6. pc'[t] \notin {"create", "write", "remove"}
  BY <1>1, <1>5 DEF TrafficType
<1>7. CASE RegisterFailed(t) \/ RegisterSuccess(t)
  <2>1. ASSUME NEW failed \in Nat, NEW lock \in {"none", "held", "expired"},
               user' = [user EXCEPT ![u].failed = failed, ![u].lock = lock]
        PROVE  SameAdmins
    <3>1. PICK new : new = [row EXCEPT !.failed = failed, !.lock = lock]
      OBVIOUS
    <3>2. new \in UserType
      BY <3>1 DEF UserType
    <3>3. new.role = row.role /\ new.status = row.status
      BY <3>1 DEF UserType
    <3>4. user' = [user EXCEPT ![u] = new]
      BY <1>1, <1>4, <2>1, <3>1 DEF RowsType
    <3> QED
      BY <1>1, <1>4, <3>2, <3>3, <3>4, RankKept
  <2>2. CASE RegisterFailed(t)
    <3>1. saw[t] \in UserType
      BY <2>2 DEF AccessInvariant, TypeInvariant, Shaped, RegisterFailed, At
    <3>2. PICK failed \in Nat : failed = saw[t].failed + 1
      BY <3>1 DEF UserType
    <3>3. PICK lock \in {"none", "held", "expired"} : lock = IF failed >= MaxFailed THEN "held" ELSE "none"
      OBVIOUS
    <3>4. user' = [user EXCEPT ![u].failed = failed, ![u].lock = lock]
      BY <1>2, <2>2, <3>2, <3>3 DEF RegisterFailed
    <3> QED
      BY <1>6, <2>1, <3>4 DEF Quiet
  <2>3. CASE RegisterSuccess(t)
    <3>1. user' = [user EXCEPT ![u].failed = 0, ![u].lock = "none"]
      BY <1>2, <2>3 DEF RegisterSuccess
    <3> QED
      BY <1>6, <2>1, <3>1 DEF Quiet
  <2> QED
    BY <1>7, <2>2, <2>3
<1>8. CASE ResetPassword(t) \/ ChangePassword(t)
  <2>1. PICK new : new = NewPassword(u)
    OBVIOUS
  <2>2. user' = [user EXCEPT ![u] = new] /\ misses' = [misses EXCEPT ![u] = 0]
    BY <1>2, <1>8, <2>1 DEF ResetPassword, ChangePassword
  <2>3. new \in UserType /\ new.role = user[u].role /\ new.status = user[u].status
    BY <1>1, <1>3, <2>1, <2>2, PasswordWritten
  <2>4. SameAdmins
    BY <1>1, <1>4, <2>2, <2>3, RankKept
  <2> QED
    BY <1>6, <2>4 DEF Quiet
<1> QED
  BY <1>7, <1>8
\* What registers, edits and counts.
LEMMA RegisterKeepsAdmins ==
  ASSUME AdminInvariant, NEW t \in Tabs, NEW u \in Users, Register(t, u)
  PROVE  AdminInvariant'
<1>1. AccessInvariant /\ TrafficType
  BY TypeParts DEF AdminInvariant, AccessInvariant
<1>2. Acts(t, u)
  BY <1>1, RegisterActs
<1>3. user' = user /\ pc' = [pc EXCEPT ![t] = "create"]
  BY DEF Register, Send
<1>4. Admins \subseteq Admins'
  BY <1>3 DEF Admins
<1>5. ~Threatens(t)'
  BY <1>1, <1>3 DEF TrafficType, Threatens
<1>6. ~input'[t].first => \E v \in Users : user[v] # Absent
  <2>1. input' = [input EXCEPT ![t].first = (\A v \in Users : user[v] = Absent)] /\ input[t] \in InputType /\ t \in DOMAIN input
    BY <1>1 DEF Register, TrafficType
  <2>2. PICK none \in BOOLEAN : none <=> \A v \in Users : user[v] = Absent
    OBVIOUS
  <2>3. PICK y : y = input[t]
    OBVIOUS
  <2>4. input' = [input EXCEPT ![t].first = none]
    BY <2>1, <2>2
  <2>5. input'[t] = [y EXCEPT !.first = none]
    BY <2>1, <2>3, <2>4
  <2>6. input'[t].first = none
    BY <2>1, <2>3, <2>5 DEF InputType
  <2> QED
    BY <2>2, <2>6
<1> QED
  BY <1>2, <1>3, <1>4, <1>5, <1>6, AdminsStay

LEMMA UpdateKeepsAdmins ==
  ASSUME AdminInvariant, NEW t \in Tabs, NEW u \in Users, NEW filled \in Forms, UpdateMember(t, u, filled)
  PROVE  AdminInvariant'
<1>1. AccessInvariant /\ TrafficType
  BY TypeParts DEF AdminInvariant, AccessInvariant
<1>2. Acts(t, u)
  BY <1>1, DialogActs
<1>3. /\ user' = user /\ user[u] # Absent
      /\ saw' = [saw EXCEPT ![t] = user[u]] /\ input' = [input EXCEPT ![t] = filled]
      /\ pc' = [pc EXCEPT ![t] = IF user[u].role = "ADMIN" /\ (filled.role # "ADMIN" \/ filled.status # "ACTIVE")
                                 THEN "count" ELSE "write"]
  BY DEF UpdateMember, EditDialog, Send
<1>4. /\ saw'[t] = user[u] /\ input'[t] = filled
      /\ pc'[t] = IF user[u].role = "ADMIN" /\ (filled.role # "ADMIN" \/ filled.status # "ACTIVE") THEN "count" ELSE "write"
  BY <1>1, <1>3 DEF TrafficType
<1>5. Admins \subseteq Admins'
  BY <1>3 DEF Admins
<1>6. ~Threatens(t)' /\ pc'[t] # "create"
  BY <1>4 DEF Threatens
<1> QED
  BY <1>2, <1>3, <1>5, <1>6, AdminsStay

\* Who goes on counted another administrator, and nobody else counted before.
LEMMA CountKeepsAdmins ==
  ASSUME AdminInvariant, NEW t \in Tabs, CountAdmins(t) \/ CheckBlockers(t)
  PROVE  AdminInvariant'
<1>1. AccessInvariant /\ TrafficType /\ Duty(t)
  BY TypeParts DEF AdminInvariant, AccessInvariant
<1>2. PICK u \in Users : Acts(t, u)
  BY <1>1, CountsActs
<1>3. u = subject[t] /\ (raced' = {} => raced = {}) /\ pc[t] \in {"count", "blockers"}
  BY <1>2 DEF Acts, Moves, CountAdmins, CheckBlockers, At
<1>4. user' = user /\ Admins \subseteq Admins'
  BY DEF CountAdmins, CheckBlockers, Admins
<1>5. CASE Done(t)
  <2>1. pc'[t] = "idle"
    BY <1>1, <1>5 DEF Done, TrafficType
  <2>2. ~Threatens(t)'
    BY <2>1 DEF Threatens
  <2> QED
    BY <1>2, <1>4, <2>1, <2>2, AdminsStay
<1>6. CASE ~Done(t)
  <2>1. /\ \/ pc' = [pc EXCEPT ![t] = "write"] /\ OtherAdmins(u) # {}
           \/ pc' = [pc EXCEPT ![t] = "remove"] /\ ~Blocked(u)
        /\ raced' = CountRace(t) /\ saw' = saw
    BY <1>3, <1>6 DEF CountAdmins, CheckBlockers
  <2>2. pc'[t] # "create"
    BY <1>1, <2>1 DEF TrafficType
  <2>3. ASSUME raced' = {}, Threatens(t)'
        PROVE  Admins \ {u} # {} /\ \A s \in Tabs \ {t} : ~Threatens(s)
    <3>1. saw[t].role = "ADMIN"
      BY <2>1, <2>3 DEF Threatens
    <3>2. user[u].role = "ADMIN"
      BY <1>1, <1>3, <2>3, <3>1 DEF Duty, SeesRow
    <3>3. OtherAdmins(u) # {}
      BY <2>1, <3>2 DEF Blocked
    <3>4. Admins \ {u} # {}
      BY <3>3 DEF OtherAdmins, Admins
    <3>5. "admins" \notin raced'
      BY <2>3
    <3>6. \A s \in Tabs \ {t} : ~Threatens(s)
      BY <2>1, <3>5 DEF CountRace, Threatens
    <3> QED
      BY <3>4, <3>6
  <2> QED
    BY <1>2, <1>4, <2>2, <2>3, AdminsStay
<1> QED
  BY <1>5, <1>6

LEMMA CreateKeepsAdmins ==
  ASSUME AdminInvariant, NEW t \in Tabs, CreateUser(t)
  PROVE  AdminInvariant'
<1>1. AccessInvariant /\ TrafficType /\ RowsType /\ pc[t] = "create"
  BY TypeParts DEF AdminInvariant, AccessInvariant, CreateUser, At
<1>2. PICK u \in Users : Acts(t, u)
  BY <1>1, CreateUserActs
<1>3. u = subject[t]
  BY <1>1, <1>2 DEF Acts, Moves
<1>4. pc' = [pc EXCEPT ![t] = "session"] \/ pc' = [pc EXCEPT ![t] = "idle"]
  BY DEF CreateUser, Done
<1>5. pc'[t] # "create" /\ ~Threatens(t)'
  BY <1>1, <1>4 DEF TrafficType, Threatens
<1>6. CASE user[u] # Absent
  <2>1. user' = user
    BY <1>3, <1>6 DEF CreateUser
  <2>2. Admins \subseteq Admins'
    BY <2>1 DEF Admins
  <2> QED
    BY <1>2, <1>5, <2>1, <2>2, AdminsStay
<1>7. CASE user[u] = Absent
  <2>1. PICK role \in {"ADMIN", "MEMBER"} : role = IF input[t].first THEN "ADMIN" ELSE "MEMBER"
    OBVIOUS
  <2>2. PICK row : row = Person(role)
    OBVIOUS
  <2>3. row \in UserType /\ row.status = "ACTIVE" /\ row.role = role
    BY <2>2 DEF Person, UserType
  <2>4. user' = [user EXCEPT ![u] = row]
    BY <1>3, <1>7, <2>1, <2>2 DEF CreateUser
  <2>5. user'[u] = row /\ row # Absent /\ \A v \in Users \ {u} : user'[v] = user[v]
    BY <1>1, <2>3, <2>4, RowsAreRows DEF RowsType
  <2>6. Admins \subseteq Admins'
    BY <1>7, <2>5 DEF Admins
  <2>7. CASE input[t].first
    <3>1. u \in Admins'
      BY <2>1, <2>3, <2>5, <2>7 DEF Admins
    <3> QED
      BY <1>2, <1>5, <2>6, <3>1, AdminsStay
  <2>8. CASE ~input[t].first
    <3>1. raced = {} => Admins # {}
      BY <1>1, <2>8 DEF AdminInvariant
    <3>2. CASE Admins # {}
      BY <1>2, <1>5, <2>6, <3>2, AdminsStay
    <3>3. CASE raced # {}
      <4>1. raced' # {}
        BY <1>2, <3>3 DEF Acts, Moves
      <4>2. AccessInvariant'
        BY <1>1, <1>2, ActsHold
      <4> QED
        BY <4>1, <4>2 DEF AdminInvariant
    <3> QED
      BY <3>1, <3>2, <3>3
  <2> QED
    BY <2>7, <2>8
<1> QED
  BY <1>6, <1>7

LEMMA RacedKeepsAdmins ==
  ASSUME AdminInvariant, NEW t \in Tabs, NEW u \in Users, Acts(t, u), raced # {}
  PROVE  AdminInvariant'
<1>1. raced' # {}
  BY DEF Acts, Moves
<1>2. AccessInvariant'
  BY ActsHold DEF AdminInvariant
<1> QED
  BY <1>1, <1>2 DEF AdminInvariant

\* Who is edited or deleted was no active administrator, stays one, or another one is left.
LEMMA WriteKeepsAdmins ==
  ASSUME AdminInvariant, NEW t \in Tabs, WriteMember(t)
  PROVE  AdminInvariant'
<1>1. AccessInvariant /\ TrafficType /\ RowsType /\ Duty(t) /\ pc[t] = "write"
  BY TypeParts DEF AdminInvariant, AccessInvariant, WriteMember, At
<1>2. PICK u \in Users : Acts(t, u)
  BY <1>1, MemberWritten
<1>3. u = subject[t] /\ user[u] # Absent
  BY <1>1, <1>2 DEF Acts, Moves, WriteMember
<1>4. \E step \in {"suspend", "revoke", "idle"} : pc' = [pc EXCEPT ![t] = step]
  BY DEF WriteMember, Go, Done
<1>5. pc'[t] \notin {"create", "write", "remove"}
  BY <1>1, <1>4 DEF TrafficType
<1>6. CASE Threatens(t)
  BY <1>2, <1>5, <1>6, AdminTaken
<1>7. CASE raced # {}
  BY <1>2, <1>7, RacedKeepsAdmins
<1>8. CASE ~Threatens(t) /\ raced = {}
  <2>1. saw[t].role = user[u].role
    BY <1>1, <1>3, <1>8 DEF Duty, SeesRow
  <2>2. user[u].role = "ADMIN" => input[t].role = "ADMIN" /\ input[t].status = "ACTIVE"
    BY <1>1, <1>8, <2>1 DEF Threatens
  <2>3. PICK filled \in InputType : filled = input[t]
    BY <1>1 DEF TrafficType
  <2>4. PICK old \in UserType : old = user[u]
    BY <1>1, <1>3 DEF RowsType
  <2>5. PICK row : row = [old EXCEPT !.role = filled.role, !.status = filled.status]
    OBVIOUS
  <2>6. row \in UserType /\ row.role = filled.role /\ row.status = filled.status
    BY <2>5 DEF UserType, InputType
  <2>7. PICK new : new = IF filled.unlock THEN [row EXCEPT !.failed = 0, !.lock = "none"] ELSE row
    OBVIOUS
  <2>8. new \in UserType /\ new.role = filled.role /\ new.status = filled.status
    <3>1. CASE filled.unlock
      <4>1. new = [row EXCEPT !.failed = 0, !.lock = "none"]
        BY <2>7, <3>1
      <4> QED
        BY <2>6, <4>1 DEF UserType
    <3>2. CASE ~filled.unlock
      BY <2>6, <2>7, <3>2
    <3> QED
      BY <3>1, <3>2
  <2>9. user' = [user EXCEPT ![u] = new]
    BY <1>3, <2>3, <2>4, <2>5, <2>7 DEF WriteMember
  <2>10. user'[u] = new /\ new # Absent /\ \A v \in Users \ {u} : user'[v] = user[v]
    BY <1>1, <2>8, <2>9, RowsAreRows DEF RowsType
  <2>11. Admins \subseteq Admins'
    BY <2>2, <2>3, <2>4, <2>8, <2>10 DEF Admins
  <2>12. ~Threatens(t)' /\ pc'[t] # "create"
    BY <1>5 DEF Threatens
  <2> QED
    BY <1>2, <1>3, <2>11, <2>12, AdminsStay
<1> QED
  BY <1>6, <1>7, <1>8

LEMMA DeleteKeepsAdmins ==
  ASSUME AdminInvariant, NEW t \in Tabs, DeleteUser(t)
  PROVE  AdminInvariant'
<1>1. AccessInvariant /\ TrafficType /\ RowsType /\ Duty(t) /\ pc[t] = "remove"
  BY TypeParts DEF AdminInvariant, AccessInvariant, DeleteUser, At
<1>2. PICK u \in Users : Acts(t, u)
  BY <1>1, UserDeleted
<1>3. u = subject[t] /\ user[u] # Absent
  BY <1>1, <1>2 DEF Acts, Moves, DeleteUser
<1>4. pc' = [pc EXCEPT ![t] = "idle"] /\ user' = [user EXCEPT ![u] = Absent]
  BY <1>3 DEF DeleteUser, Done
<1>5. pc'[t] = "idle"
  BY <1>1, <1>4 DEF TrafficType
<1>6. CASE Threatens(t)
  BY <1>2, <1>5, <1>6, AdminTaken
<1>7. CASE raced # {}
  BY <1>2, <1>7, RacedKeepsAdmins
<1>8. CASE ~Threatens(t) /\ raced = {}
  <2>1. user[u].role # "ADMIN"
    BY <1>1, <1>3, <1>8 DEF Duty, SeesRow, Threatens
  <2>2. \A v \in Users \ {u} : user'[v] = user[v]
    BY <1>1, <1>4 DEF RowsType
  <2>3. Admins \subseteq Admins'
    BY <2>1, <2>2 DEF Admins
  <2>4. ~Threatens(t)' /\ pc'[t] # "create"
    BY <1>5 DEF Threatens
  <2> QED
    BY <1>2, <1>3, <2>3, <2>4, AdminsStay
<1> QED
  BY <1>6, <1>7, <1>8
LEMMA TimeKeepsAdmins ==
  ASSUME AdminInvariant,
         \/ \E u \in Users : LockExpires(u)
         \/ \E k \in DOMAIN link : LinkExpires(k)
         \/ UNCHANGED vars
  PROVE  AdminInvariant'
<1>1. AccessInvariant /\ RowsType
  BY TypeParts DEF AdminInvariant, AccessInvariant
<1>2. AccessInvariant'
  BY <1>1, LockEnds, LinkEnds, AccessStutters
<1>3. UNCHANGED <<pc, subject, saw, input, raced>>
  BY DEF LockExpires, LinkExpires, vars
<1>4. SameAdmins
  <2>1. ASSUME NEW u \in Users, LockExpires(u)
        PROVE  SameAdmins
    <3>1. user[u] # Absent /\ user' = [user EXCEPT ![u].lock = "expired"]
      BY <2>1 DEF LockExpires
    <3>2. PICK row \in UserType : row = user[u]
      BY <1>1, <3>1 DEF RowsType
    <3>3. PICK new : new = [row EXCEPT !.lock = "expired"]
      OBVIOUS
    <3>4. new \in UserType
      BY <3>3 DEF UserType
    <3>5. new.role = row.role /\ new.status = row.status
      BY <3>3 DEF UserType
    <3>6. user' = [user EXCEPT ![u] = new]
      BY <1>1, <3>1, <3>2, <3>3 DEF RowsType
    <3> QED
      BY <1>1, <3>2, <3>4, <3>5, <3>6, RankKept
  <2>2. ASSUME user' = user
        PROVE  SameAdmins
    BY <2>2 DEF SameAdmins, Admins
  <2> QED
    BY <2>1, <2>2 DEF LinkExpires, vars
<1>5. Admins' = Admins /\ ((\E v \in Users : user'[v] # Absent) <=> \E v \in Users : user[v] # Absent)
  BY <1>4 DEF SameAdmins, Admins
<1>6. \A t \in Tabs : Threatens(t)' <=> Threatens(t)
  BY <1>3 DEF Threatens
<1>7. raced' = {} =>
        /\ (\E u \in Users : user'[u] # Absent) \/ (\E t \in Tabs : pc'[t] = "create" /\ ~input'[t].first) => Admins' # {}
        /\ \A t \in Tabs : Threatens(t)' => Admins' \ {subject'[t]} # {}
        /\ \A s, t \in Tabs : Threatens(s)' /\ Threatens(t)' => s = t
  BY <1>3, <1>5, <1>6 DEF AdminInvariant
<1> QED
  BY <1>2, <1>7 DEF AdminInvariant

LEMMA AdminInit == Init => AdminInvariant
<1> SUFFICES ASSUME Init PROVE AdminInvariant
  OBVIOUS
<1>1. AccessInvariant
  BY AccessInit
<1>2. \A t \in Tabs : pc[t] = "idle"
  BY DEF Init
<1>3. (\E u \in Users : user[u] # Absent) => \E u \in Users : user[u] = Person("ADMIN")
  BY DEF Init
<1>4. PICK admin : admin = Person("ADMIN")
  OBVIOUS
<1>5. admin \in UserType /\ admin.role = "ADMIN" /\ admin.status = "ACTIVE"
  BY <1>4 DEF Person, UserType
<1>6. (\E u \in Users : user[u] # Absent) => Admins # {}
  BY <1>3, <1>4, <1>5, RowsAreRows DEF Admins
<1>7. \A t \in Tabs : ~Threatens(t) /\ pc[t] # "create"
  BY <1>2 DEF Threatens
<1> QED
  BY <1>1, <1>6, <1>7 DEF AdminInvariant

LEMMA AdminNext == AdminInvariant /\ [Next]_vars => AdminInvariant'
<1> SUFFICES ASSUME AdminInvariant, [Next]_vars PROVE AdminInvariant'
  OBVIOUS
<1>1. AccessInvariant
  BY DEF AdminInvariant
<1>2. ASSUME NEW t \in Tabs, NEW u \in Users, Acts(t, u), Quiet(t)
      PROVE  AdminInvariant'
  BY <1>2, QuietKeeps
<1>3. ASSUME NEW t \in Tabs, Sent(t)
      PROVE  AdminInvariant'
  <2>1. PICK u \in Users : Acts(t, u)
    BY <1>1, <1>3, SentHolds
  <2>2. CASE \E v \in Users : Register(t, v)
    BY <2>2, RegisterKeepsAdmins
  <2>3. CASE \E v \in Users, filled \in Forms : UpdateMember(t, v, filled)
    BY <2>3, UpdateKeepsAdmins
  <2>4. CASE \/ \E v \in Users : RequestReset(t, v) \/ BeginDelete(t, v)
             \/ \E v \in Users, correct \in BOOLEAN : Login(t, v, correct)
             \/ \E k \in DOMAIN link : OpenLink(t, k)
             \/ BeginChange(t) \/ BeginStart(t) \/ StopCopying(t) \/ Logout(t)
    <3>1. Quiet(t)
      BY <1>1, <2>4, QuietSent
    <3> QED
      BY <1>2, <2>1, <3>1
  <2> QED
    BY <1>3, <2>2, <2>3, <2>4 DEF Sent
<1>4. ASSUME NEW t \in Tabs, TabStep(t) \/ Die(t)
      PROVE  AdminInvariant'
  <2>1. PICK u \in Users : Acts(t, u)
    BY <1>1, <1>4, TabStepHolds, DieActs
  <2>2. CASE CreateUser(t)
    BY <2>2, CreateKeepsAdmins
  <2>3. CASE CountAdmins(t) \/ CheckBlockers(t)
    BY <2>3, CountKeepsAdmins
  <2>4. CASE WriteMember(t)
    BY <2>4, WriteKeepsAdmins
  <2>5. CASE DeleteUser(t)
    BY <2>5, DeleteKeepsAdmins
  <2>6. CASE RegisterFailed(t) \/ RegisterSuccess(t) \/ ResetPassword(t) \/ ChangePassword(t)
    <3>1. Quiet(t)
      BY <1>1, <2>6, QuietWrites
    <3> QED
      BY <1>2, <2>1, <3>1
  <2>7. CASE \/ StartSession(t) \/ CreateLink(t) \/ StartCopying(t) \/ SuspendActivity(t) \/ RevokeSessions(t)
             \/ Gone(t) \/ Die(t)
    <3>1. Quiet(t)
      BY <1>1, <2>7, QuietDone
    <3> QED
      BY <1>2, <2>1, <3>1
  <2> QED
    BY <1>4, <2>2, <2>3, <2>4, <2>5, <2>6, <2>7 DEF TabStep
<1> QED
  BY <1>3, <1>4, TimeKeepsAdmins, NextParts

-----------------------------------------------------------------------------
(* Pages: a visit meets the right host, then a page of the visitor's.      *)

\* A visitor who is somebody has a cookie.
Known(cookie, viewer) == cookie \in BOOLEAN /\ viewer \in Viewers /\ (viewer # "none" => cookie)

\* What the visitor stays at.
Allowed(page, viewer) ==
  \/ page = "home"
  \/ page = "login" /\ viewer = "none"
  \/ page \in MemberPages /\ viewer # "none"
  \/ page = "admin" /\ viewer = "ADMIN"

\* A visit may end so.
EndsAt(d, at, viewer) ==
  /\ at.kind # "redirect"
  /\ at.kind = "page" =>
       /\ DataFor(at.page, viewer) = "data"
       /\ at.page = "login" => viewer = "none"
       /\ d.split => (at.host = "landing" <=> at.page = "home")

LEMMA RedirectIs ==
  ASSUME NEW host, NEW page
  PROVE  LET at == Redirect(host, page) IN at.kind = "redirect" /\ at.host = host /\ at.page = page
BY DEF Redirect

LEMMA ShowIs ==
  ASSUME NEW host, NEW page
  PROVE  LET at == Show(host, page) IN at.kind = "page" /\ at.host = host /\ at.page = page
BY DEF Show

\* The visitor's own page is shown, or nothing by the host of the API.
LEMMA OwnPageShown ==
  ASSUME NEW d \in Deployments, NEW host \in Hosts, NEW page \in AllPages, NEW cookie, NEW viewer,
         Known(cookie, viewer), ~WrongHost(d, host, page), Allowed(page, viewer)
  PROVE  EndsAt(d, Answer(d, host, page, cookie, viewer), viewer)
<1>1. page \in {"member", "profile", "home", "login", "admin"} /\ viewer \in {"none", "MEMBER", "ADMIN"}
  BY DEF AllPages, MemberPages, Known, Viewers
<1>2. CASE d.role = "api"
  <2>1. Answer(d, host, page, cookie, viewer) = NotFound(host, page)
    BY <1>2 DEF Answer
  <2> QED
    BY <2>1 DEF NotFound, EndsAt
<1>3. CASE d.role # "api"
  <2>1. ~(page \in Protected /\ ~cookie)
    BY DEF Allowed, Known, Protected, MemberPages
  <2>2. Answer(d, host, page, cookie, viewer) = Render(host, page, cookie, viewer)
    BY <1>3, <2>1 DEF Answer
  <2>3. Render(host, page, cookie, viewer) = Show(host, page)
    BY <1>1 DEF Render, Allowed, LoginPage, MemberLayout, AdminLayout, MemberPages
  <2>4. DataFor(page, viewer) = "data" /\ (page = "login" => viewer = "none")
    BY <1>1 DEF DataFor, Allowed, PublicViews, AdminViews, MemberPages
  <2>5. d.split => (host = "landing" <=> page = "home")
    BY <1>1 DEF WrongHost, AppPaths, AllPages, MemberPages, Hosts
  <2> QED
    BY <2>2, <2>3, <2>4, <2>5, ShowIs DEF EndsAt
<1> QED
  BY <1>2, <1>3

\* On the right host a visit ends, or is sent to such a page of that host.
LEMMA SentToOwnPage ==
  ASSUME NEW d \in Deployments, NEW host \in Hosts, NEW page \in AllPages, NEW cookie, NEW viewer,
         Known(cookie, viewer), ~WrongHost(d, host, page)
  PROVE  \/ EndsAt(d, Answer(d, host, page, cookie, viewer), viewer)
         \/ \E own \in AllPages :
              /\ Answer(d, host, page, cookie, viewer) = Redirect(host, own)
              /\ ~WrongHost(d, host, own) /\ Allowed(own, viewer)
<1> DEFINE answer == Answer(d, host, page, cookie, viewer)
<1>1. page \in {"member", "profile", "home", "login", "admin"} /\ viewer \in {"none", "MEMBER", "ADMIN"}
  BY DEF AllPages, MemberPages, Known, Viewers
<1>2. CASE Allowed(page, viewer) \/ d.role = "api"
  <2>1. CASE Allowed(page, viewer)
    BY <2>1, OwnPageShown
  <2>2. CASE d.role = "api"
    <3>1. answer = NotFound(host, page)
      BY <2>2 DEF Answer
    <3> QED
      BY <3>1 DEF NotFound, EndsAt
  <2> QED
    BY <1>2, <2>1, <2>2
<1>3. CASE ~Allowed(page, viewer) /\ d.role # "api"
  <2>1. page # "home"
    BY <1>3 DEF Allowed
  <2>2. \A own \in {"login", "member", "admin"} : own \in AllPages /\ ~WrongHost(d, host, own)
    BY <1>1, <2>1 DEF WrongHost, AppPaths, AllPages, MemberPages, Hosts
  <2>3. CASE page \in Protected /\ ~cookie
    <3>1. answer = Redirect(host, "login") /\ viewer = "none"
      BY <1>3, <2>3 DEF Answer, Known
    <3> QED
      BY <2>2, <3>1 DEF Allowed
  <2>4. CASE ~(page \in Protected /\ ~cookie)
    <3>1. answer = Render(host, page, cookie, viewer)
      BY <1>3, <2>4 DEF Answer
    <3>2. CASE viewer = "none"
      <4>1. Render(host, page, cookie, viewer) = Redirect(host, "login")
        BY <1>1, <1>3, <2>1, <3>2 DEF Render, Allowed, MemberLayout, AdminLayout, MemberPages
      <4> QED
        BY <2>2, <3>1, <3>2, <4>1 DEF Allowed
    <3>3. CASE viewer = "MEMBER"
      <4>1. Render(host, page, cookie, viewer) = Redirect(host, "member")
        BY <1>1, <1>3, <2>1, <3>3 DEF Render, Allowed, LoginPage, HomeOf, AdminLayout, MemberPages
      <4> QED
        BY <2>2, <3>1, <3>3, <4>1 DEF Allowed, MemberPages
    <3>4. CASE viewer = "ADMIN"
      <4>1. Render(host, page, cookie, viewer) = Redirect(host, "admin")
        BY <1>1, <1>3, <2>1, <3>4 DEF Render, Allowed, LoginPage, HomeOf, MemberPages
      <4> QED
        BY <2>2, <3>1, <3>4, <4>1 DEF Allowed
    <3> QED
      BY <1>1, <3>2, <3>3, <3>4
  <2> QED
    BY <2>3, <2>4
<1> QED
  BY <1>2, <1>3

\* The wrong host sends the visit to the other.
LEMMA SentToRightHost ==
  ASSUME NEW d \in Deployments, NEW host \in Hosts, NEW page \in AllPages, NEW cookie, NEW viewer,
         WrongHost(d, host, page)
  PROVE  \E right \in AllPages :
           /\ Answer(d, host, page, cookie, viewer) = Redirect("dashboard", right)
           /\ ~WrongHost(d, "dashboard", right)
<1> DEFINE right == IF page = "home" THEN "member" ELSE page
<1>1. Answer(d, host, page, cookie, viewer) = Redirect("dashboard", right)
  BY DEF Answer, HostnameRedirect
<1>2. right \in AllPages /\ ~WrongHost(d, "dashboard", right)
  BY DEF WrongHost, AllPages, MemberPages
<1> QED
  BY <1>1, <1>2

LEMMA Stopped ==
  ASSUME NEW d, NEW at, NEW cookie, NEW viewer, EndsAt(d, at, viewer)
  PROVE  Hop(d, at, cookie, viewer) = at
BY DEF Hop, EndsAt

LEMMA Followed ==
  ASSUME NEW d, NEW host, NEW page, NEW cookie, NEW viewer
  PROVE  Hop(d, Redirect(host, page), cookie, viewer) = Answer(d, host, page, cookie, viewer)
BY RedirectIs DEF Hop

\* Two requests are enough on the right host.
LEMMA TwoHops ==
  ASSUME NEW d \in Deployments, NEW host \in Hosts, NEW page \in AllPages, NEW cookie, NEW viewer,
         Known(cookie, viewer), ~WrongHost(d, host, page)
  PROVE  EndsAt(d, Hop(d, Answer(d, host, page, cookie, viewer), cookie, viewer), viewer)
<1>1. CASE EndsAt(d, Answer(d, host, page, cookie, viewer), viewer)
  BY <1>1, Stopped
<1>2. CASE \E own \in AllPages :
             /\ Answer(d, host, page, cookie, viewer) = Redirect(host, own)
             /\ ~WrongHost(d, host, own) /\ Allowed(own, viewer)
  <2>1. PICK own \in AllPages :
             /\ Answer(d, host, page, cookie, viewer) = Redirect(host, own)
             /\ ~WrongHost(d, host, own) /\ Allowed(own, viewer)
    BY <1>2
  <2> QED
    BY <2>1, Followed, OwnPageShown
<1> QED
  BY <1>1, <1>2, SentToOwnPage

LEMMA VisitsEndWell ==
  ASSUME NEW cookie, NEW viewer, Known(cookie, viewer)
  PROVE  EndsWell(cookie, viewer)
<1> SUFFICES ASSUME NEW d \in Deployments, NEW host \in Hosts, NEW page \in AllPages
             PROVE  EndsAt(d, Visit(d, host, page, cookie, viewer), viewer)
  BY DEF EndsWell, EndsAt
<1> DEFINE first == Answer(d, host, page, cookie, viewer)
           second == Hop(d, first, cookie, viewer)
           third == Hop(d, second, cookie, viewer)
<1>1. Visit(d, host, page, cookie, viewer) = Hop(d, third, cookie, viewer)
  BY DEF Visit
<1>2. EndsAt(d, third, viewer)
  <2>1. CASE WrongHost(d, host, page)
    <3>1. PICK right \in AllPages : first = Redirect("dashboard", right) /\ ~WrongHost(d, "dashboard", right)
      BY <2>1, SentToRightHost
    <3>2. "dashboard" \in Hosts
      BY DEF Hosts
    <3>3. second = Answer(d, "dashboard", right, cookie, viewer)
      BY <3>1, Followed
    <3> QED
      BY <3>1, <3>2, <3>3, TwoHops
  <2>2. CASE ~WrongHost(d, host, page)
    <3>1. EndsAt(d, second, viewer)
      BY <2>2, TwoHops
    <3> QED
      BY <3>1, Stopped
  <2> QED
    BY <2>1, <2>2
<1> HIDE DEF first, second, third
<1> QED
  BY <1>1, <1>2, Stopped

LEMMA EverySetupServes == \A s \in Setups : ServesItself(s)
BY DEF Setups, ServesItself, ApiGet, Fetch, Passes, IsAllowedOrigin

LEMMA PagesReached == TypeOK => PagesAreReached
<1> SUFFICES ASSUME TypeOK, NEW t \in Tabs
             PROVE  <<session[t] # NoSession, Viewer(t), TRUE>> \in WellServed
  BY EverySetupServes DEF PagesAreReached, RedirectsEnd, RequestsReachApi
<1> DEFINE cookie == session[t] # NoSession
           viewer == Viewer(t)
<1>1. Known(cookie, viewer)
  <2>1. CASE SignedIn(t)
    <3>1. session[t] # NoSession /\ session[t].user \in Users /\ user[session[t].user] # Absent
      BY <2>1 DEF SignedIn, TypeOK, SessionType
    <3>2. user[session[t].user].role \in {"ADMIN", "MEMBER"}
      BY <3>1 DEF TypeOK, UserType
    <3> QED
      BY <2>1, <3>1, <3>2 DEF Known, Viewer, Viewers
  <2>2. CASE ~SignedIn(t)
    BY <2>2 DEF Known, Viewer, Viewers
  <2> QED
    BY <2>1, <2>2
<1> HIDE DEF cookie, viewer
<1>2. <<cookie, viewer, EndsWell(cookie, viewer)>> \in WellServed
  <2>1. cookie \in BOOLEAN /\ viewer \in Viewers
    BY <1>1 DEF Known
  <2> QED
    BY <2>1 DEF WellServed
<1>3. EndsWell(cookie, viewer) = TRUE
  BY <1>1, VisitsEndWell
<1>4. <<cookie, viewer, TRUE>> \in WellServed
  BY <1>2, <1>3
<1> QED
  BY <1>4 DEF cookie, viewer

-----------------------------------------------------------------------------
(* The form that adds accounts: what it offers is of the platform chosen.  *)

FormRecords ==
  [platform : Platforms, broker : Texts, server : {NoServer, Typed} \cup Found, results : Search,
   servers : SUBSET Found, open : BOOLEAN, seq : 0..MaxSearches, timer : BOOLEAN, loading : BOOLEAN]

\* A search is out, or answered by what the form holds.
Answers(f, out) ==
  /\ f.results # NoResults => f.results.seq = f.seq \/ \E r \in out : r.seq = f.seq
  /\ f.loading => \E r \in out : r.seq = f.seq

\* An account, and a form, of one platform.
Fits(a) == IsPicked(a.server) => a.server[1] = a.platform
OfOnePlatform(f) ==
  /\ f.results # NoResults => f.results.platform = f.platform
  /\ \A s \in f.servers : s[1] = f.platform
  /\ IsPicked(f.server) => f.server[1] = f.platform

FormInvariant ==
  /\ shown \in BOOLEAN /\ crossed \in BOOLEAN /\ form \in FormRecords
  /\ reply \subseteq Search /\ saving \in Account /\ account \subseteq Account
  /\ Answers(form, reply)
  /\ ~crossed => OfOnePlatform(form) /\ Fits(saving) /\ \A a \in account : Fits(a)

LEMMA FormInvariantSays == FormInvariant => FormType /\ PairsAreOfOnePlatform
<1> SUFFICES ASSUME FormInvariant PROVE FormType /\ PairsAreOfOnePlatform
  OBVIOUS
<1>1. FormType
  BY DEF FormInvariant, FormType, FormRecords
<1>2. ASSUME ~crossed, NEW a \in account \cup {saving, [platform |-> form.platform, server |-> form.server]}
      PROVE  Fits(a)
  <2>1. CASE a = [platform |-> form.platform, server |-> form.server]
    <3>1. a.platform = form.platform /\ a.server = form.server
      BY <2>1
    <3> QED
      BY <1>2, <3>1 DEF FormInvariant, Fits, OfOnePlatform
  <2> QED
    BY <1>2, <2>1 DEF FormInvariant
<1>3. PairsAreOfOnePlatform
  BY <1>2 DEF FormInvariant, PairsAreOfOnePlatform, Answers, OfOnePlatform, Fits
<1> QED
  BY <1>1, <1>3

LEMMA PlatformsListed == DOMAIN Directory = Platforms /\ "MT5" \in Platforms
BY FormAssumption DEF Platforms

LEMMA NotPicked == ~IsPicked(NoServer) /\ ~IsPicked(Typed)
BY DEF IsPicked, Found, Picked, NoServer, Typed

LEMMA NothingFound == NoResults \in Search
BY FormAssumption DEF NoResults, Search, Platforms, Texts

LEMMA PickedIsFound ==
  ASSUME NEW p \in Platforms, NEW b \in Brokers
  PROVE  Picked(p, b) \subseteq Found /\ \A s \in Picked(p, b) : s[1] = p
<1>1. Picked(p, b) \in {Picked(q, c) : q \in Platforms, c \in Brokers}
  OBVIOUS
<1>2. Picked(p, b) \subseteq Found
  BY <1>1 DEF Found
<1>3. \A s \in Picked(p, b) : s[1] = p
  BY DEF Picked
<1> QED
  BY <1>2, <1>3

LEMMA FreshForm ==
  ASSUME NEW p \in Platforms
  PROVE  Fresh(p) \in FormRecords /\ OfOnePlatform(Fresh(p)) /\ (\A out : Answers(Fresh(p), out))
<1>1. NoResults \in Search /\ 0 \in 0..MaxSearches
  BY FormAssumption DEF NoResults, Search, Platforms, Texts
<1>2. Fresh(p) \in FormRecords
  BY <1>1 DEF Fresh, FormRecords, Texts
<1>3. /\ Fresh(p).results = NoResults /\ Fresh(p).servers = {} /\ Fresh(p).server = NoServer
      /\ Fresh(p).loading = FALSE
  BY DEF Fresh
<1>4. OfOnePlatform(Fresh(p))
  BY <1>3, NotPicked DEF OfOnePlatform
<1>5. \A out : Answers(Fresh(p), out)
  BY <1>3 DEF Answers
<1> QED
  BY <1>2, <1>4, <1>5

LEMMA NothingSaved == NotSaving \in Account /\ Fits(NotSaving)
<1>1. NotSaving.server = NoServer
  BY DEF NotSaving
<1>2. NotSaving \in Account
  BY DEF NotSaving, Account, Platforms, Texts
<1> QED
  BY <1>1, <1>2, NotPicked DEF Fits

LEMMA FormBegins == FormInit => FormInvariant
<1> SUFFICES ASSUME FormInit PROVE FormInvariant
  OBVIOUS
<1>1. Fresh("MT5") \in FormRecords /\ OfOnePlatform(Fresh("MT5")) /\ Answers(Fresh("MT5"), {})
  BY FreshForm, PlatformsListed
<1> QED
  BY <1>1, NothingSaved DEF FormInit, FormInvariant

\* The fields change while the searches that are out stay.
LEMMA FieldsMove ==
  ASSUME FormInvariant, NEW to \in FormRecords, form' = to, shown' \in BOOLEAN,
         UNCHANGED <<reply, saving, account, crossed>>,
         to.results \in {form.results, NoResults}, to.seq = form.seq, to.loading = form.loading,
         ~crossed => OfOnePlatform(to)
  PROVE  FormInvariant'
<1>1. Answers(to, reply)
  BY DEF FormInvariant, Answers
<1> QED
  BY <1>1 DEF FormInvariant

LEMMA TypedBrokerKept == ASSUME FormInvariant, NEW text \in Texts, TypeBroker(text) PROVE FormInvariant'
<1> DEFINE typed == [form EXCEPT !.broker = text, !.open = TRUE]
           to == [typed EXCEPT !.timer = typed.open]
<1>1. form \in FormRecords
  BY DEF FormInvariant
<1>2. /\ typed \in FormRecords /\ typed.platform = form.platform /\ typed.server = form.server
      /\ typed.results = form.results /\ typed.servers = form.servers /\ typed.seq = form.seq
      /\ typed.loading = form.loading
  BY <1>1 DEF FormRecords
<1>3. form' = to
  BY DEF TypeBroker, Set
<1> HIDE DEF typed
<1>4. /\ to \in FormRecords /\ to.platform = form.platform /\ to.server = form.server
      /\ to.results = form.results /\ to.servers = form.servers /\ to.seq = form.seq
      /\ to.loading = form.loading
  BY <1>2 DEF FormRecords
<1> HIDE DEF to
<1>5. ~crossed => OfOnePlatform(to)
  BY <1>4 DEF FormInvariant, OfOnePlatform
<1> QED
  BY <1>3, <1>4, <1>5, FieldsMove DEF TypeBroker, FormInvariant

LEMMA OpenedKept == ASSUME FormInvariant, FocusBroker \/ PressOutside PROVE FormInvariant'
<1>1. PICK o \in BOOLEAN : Set([form EXCEPT !.open = o])
  BY DEF FocusBroker, PressOutside
<1> DEFINE moved == [form EXCEPT !.open = o]
           to == [moved EXCEPT !.timer = moved.open]
<1>2. /\ moved \in FormRecords /\ moved.platform = form.platform /\ moved.server = form.server
      /\ moved.results = form.results /\ moved.servers = form.servers /\ moved.seq = form.seq
      /\ moved.loading = form.loading
  BY DEF FormInvariant, FormRecords
<1>3. form' = to /\ UNCHANGED <<shown, reply, saving, account, crossed>>
  BY <1>1 DEF FocusBroker, PressOutside, Set
<1> HIDE DEF moved
<1>4. /\ to \in FormRecords /\ to.platform = form.platform /\ to.server = form.server
      /\ to.results = form.results /\ to.servers = form.servers /\ to.seq = form.seq
      /\ to.loading = form.loading
  BY <1>2 DEF FormRecords
<1> HIDE DEF to
<1>5. ~crossed => OfOnePlatform(to)
  BY <1>4 DEF FormInvariant, OfOnePlatform
<1> QED
  BY <1>3, <1>4, <1>5, FieldsMove DEF FormInvariant

LEMMA SearchKept == ASSUME FormInvariant, SearchBrokers PROVE FormInvariant'
<1>1. CASE form.broker = ""
  <2> DEFINE to == [form EXCEPT !.timer = FALSE, !.results = NoResults]
  <2>1. NoResults \in Search
    BY NothingFound
  <2>2. /\ to \in FormRecords /\ to.platform = form.platform /\ to.server = form.server
        /\ to.results = NoResults /\ to.servers = form.servers /\ to.seq = form.seq
        /\ to.loading = form.loading
    BY <2>1 DEF FormInvariant, FormRecords
  <2>3. form' = to /\ UNCHANGED <<shown, reply, saving, account, crossed>>
    BY <1>1 DEF SearchBrokers
  <2> HIDE DEF to
  <2>4. ~crossed => OfOnePlatform(to)
    BY <2>2 DEF FormInvariant, OfOnePlatform
  <2> QED
    BY <2>2, <2>3, <2>4, FieldsMove DEF FormInvariant
<1>2. CASE form.broker # ""
  <2> DEFINE to == [form EXCEPT !.timer = FALSE, !.seq = form.seq + 1, !.loading = TRUE]
             sent == [seq |-> form.seq + 1, platform |-> form.platform, text |-> form.broker]
  <2>1. form.seq \in 0..MaxSearches /\ form.seq < MaxSearches /\ MaxSearches \in Nat
    BY <1>2, FormAssumption DEF SearchBrokers, FormInvariant, FormRecords
  <2>2. form.seq + 1 \in 0..MaxSearches
    BY <2>1
  <2>3. /\ to \in FormRecords /\ to.platform = form.platform /\ to.server = form.server
        /\ to.results = form.results /\ to.servers = form.servers /\ to.seq = form.seq + 1
    BY <2>2 DEF FormInvariant, FormRecords
  <2>4. sent \in Search /\ sent.seq = form.seq + 1
    BY <2>2 DEF FormInvariant, FormRecords, Search
  <2>5. form' = to /\ reply' = reply \cup {sent} /\ UNCHANGED <<shown, saving, account, crossed>>
    BY <1>2 DEF SearchBrokers
  <2> HIDE DEF to, sent
  <2>6. ~crossed => OfOnePlatform(to)
    BY <2>3 DEF FormInvariant, OfOnePlatform
  <2>7. Answers(to, reply \cup {sent})
    BY <2>3, <2>4 DEF Answers
  <2> QED
    BY <2>3, <2>4, <2>5, <2>6, <2>7 DEF FormInvariant
<1> QED
  BY <1>1, <1>2

LEMMA ReplyKept == ASSUME FormInvariant, NEW r \in reply, Reply(r) PROVE FormInvariant'
<1>1. PICK results \in {r, NoResults} :
        /\ Answered(r, results)
        /\ crossed' = (crossed \/ (results # NoResults /\ form'.results = r /\ r.platform # form.platform))
  BY DEF Reply
<1>2. reply' = reply \ {r} /\ UNCHANGED <<shown, saving, account>>
  BY DEF Reply
<1>3. crossed' \in BOOLEAN /\ (~crossed' => ~crossed)
  BY <1>1 DEF FormInvariant
<1>4. CASE r.seq # form.seq
  <2>1. form' = form
    BY <1>1, <1>4 DEF Answered
  <2>2. Answers(form, reply \ {r})
    BY <1>4 DEF FormInvariant, Answers
  <2> QED
    BY <1>2, <1>3, <2>1, <2>2 DEF FormInvariant
<1>5. CASE r.seq = form.seq
  <2> DEFINE to == [form EXCEPT !.results = results, !.loading = FALSE]
  <2>7. NoResults \in Search
    BY NothingFound
  <2>1. results \in Search
    BY <2>7 DEF FormInvariant
  <2>2. /\ to \in FormRecords /\ to.platform = form.platform /\ to.server = form.server
        /\ to.results = results /\ to.servers = form.servers /\ to.seq = form.seq
        /\ to.loading = FALSE
    BY <2>1 DEF FormInvariant, FormRecords
  <2>3. form' = to
    BY <1>1, <1>5 DEF Answered
  <2> HIDE DEF to
  <2>4. Answers(to, reply \ {r})
    BY <1>5, <2>2 DEF Answers
  <2>5. ~crossed' /\ results # NoResults => r.platform = form.platform /\ results = r
    BY <1>1, <2>2, <2>3
  <2>6. ~crossed' => OfOnePlatform(to)
    BY <1>3, <2>2, <2>5 DEF FormInvariant, OfOnePlatform
  <2> QED
    BY <1>2, <1>3, <2>2, <2>3, <2>4, <2>6 DEF FormInvariant
<1> QED
  BY <1>4, <1>5

LEMMA ChosenBrokerKept == ASSUME FormInvariant, NEW b \in Brokers, ChooseBroker(b) PROVE FormInvariant'
<1> DEFINE servers == Picked(form.results.platform, b)
           server == IF Cardinality(servers) = 1 THEN CHOOSE s \in servers : TRUE ELSE NoServer
           chosen == [form EXCEPT !.broker = b, !.servers = servers, !.open = FALSE, !.server = server]
           to == [chosen EXCEPT !.timer = chosen.open]
<1>1. form' = to /\ UNCHANGED <<shown, reply, saving, account, crossed>> /\ form.results # NoResults
  BY DEF ChooseBroker, Set
<1>2. form.results.platform \in Platforms
  BY DEF FormInvariant, FormRecords, Search
<1>3. servers \subseteq Found /\ \A s \in servers : s[1] = form.results.platform
  BY <1>2, PickedIsFound
<1> HIDE DEF servers
<1>4. server \in servers \cup {NoServer}
  BY FS_EmptySet
<1> HIDE DEF server
<1>5. /\ chosen \in FormRecords /\ chosen.platform = form.platform /\ chosen.server = server
      /\ chosen.results = form.results /\ chosen.servers = servers /\ chosen.seq = form.seq
      /\ chosen.loading = form.loading
  <2>1. b \in Texts /\ server \in {NoServer, Typed} \cup Found
    BY <1>3, <1>4 DEF Texts
  <2> QED
    BY <1>3, <2>1 DEF FormInvariant, FormRecords
<1> HIDE DEF chosen
<1>6. /\ to \in FormRecords /\ to.platform = form.platform /\ to.server = server
      /\ to.results = form.results /\ to.servers = servers /\ to.seq = form.seq
      /\ to.loading = form.loading
  BY <1>5 DEF FormRecords
<1> HIDE DEF to
<1>7. ~crossed => OfOnePlatform(to)
  BY <1>1, <1>3, <1>4, <1>6, NotPicked DEF FormInvariant, OfOnePlatform
<1> QED
  BY <1>1, <1>6, <1>7, FieldsMove DEF FormInvariant

LEMMA ServerKept ==
  ASSUME FormInvariant, TypeServer \/ \E s \in form.servers : ChooseServer(s)
  PROVE  FormInvariant'
<1>1. PICK s \in form.servers \cup {Typed} : form' = [form EXCEPT !.server = s]
  BY DEF TypeServer, ChooseServer
<1>2. UNCHANGED <<shown, reply, saving, account, crossed>>
  BY DEF TypeServer, ChooseServer
<1> DEFINE to == [form EXCEPT !.server = s]
<1>3. /\ to \in FormRecords /\ to.platform = form.platform /\ to.server = s
      /\ to.results = form.results /\ to.servers = form.servers /\ to.seq = form.seq
      /\ to.loading = form.loading
  BY DEF FormInvariant, FormRecords
<1> HIDE DEF to
<1>4. ~crossed => OfOnePlatform(to)
  BY <1>3, NotPicked DEF FormInvariant, OfOnePlatform
<1>5. form' = to
  BY <1>1 DEF to
<1> QED
  BY <1>2, <1>3, <1>4, <1>5, FieldsMove DEF FormInvariant

LEMMA PlatformKept == ASSUME FormInvariant, NEW p \in Platforms, SetPlatform(p) PROVE FormInvariant'
<1> DEFINE cleared == [form EXCEPT !.platform = p, !.broker = "", !.server = NoServer, !.results = NoResults,
                                   !.servers = {}]
           to == [cleared EXCEPT !.timer = cleared.open]
<1>1. form' = to /\ UNCHANGED <<shown, reply, saving, account, crossed>>
  BY DEF SetPlatform, Set
<1>2. NoResults \in Search
  BY NothingFound
<1>3. /\ cleared \in FormRecords /\ cleared.server = NoServer /\ cleared.results = NoResults
      /\ cleared.servers = {} /\ cleared.seq = form.seq /\ cleared.loading = form.loading
  BY <1>2 DEF FormInvariant, FormRecords, Texts
<1> HIDE DEF cleared
<1>4. /\ to \in FormRecords /\ to.server = NoServer /\ to.results = NoResults
      /\ to.servers = {} /\ to.seq = form.seq /\ to.loading = form.loading
  BY <1>3 DEF FormRecords
<1> HIDE DEF to
<1>5. OfOnePlatform(to)
  BY <1>4, NotPicked DEF OfOnePlatform
<1> QED
  BY <1>1, <1>4, <1>5, FieldsMove DEF FormInvariant

LEMMA SubmittedKept == FormInvariant /\ Submit => FormInvariant'
<1> SUFFICES ASSUME FormInvariant, Submit PROVE FormInvariant'
  OBVIOUS
<1> DEFINE sent == [platform |-> form.platform, broker |-> form.broker, server |-> form.server]
<1>1. saving' = sent /\ UNCHANGED <<shown, form, reply, account, crossed>>
  BY DEF Submit
<1>2. sent \in Account /\ sent.platform = form.platform /\ sent.server = form.server
  BY DEF FormInvariant, FormRecords, Account
<1> HIDE DEF sent
<1>3. ~crossed => Fits(sent)
  BY <1>2 DEF FormInvariant, OfOnePlatform, Fits
<1> QED
  BY <1>1, <1>2, <1>3 DEF FormInvariant

\* The form closes; what was on its way is stored or dropped.
LEMMA ClosedKept == FormInvariant /\ (Added \/ CouldNotAdd \/ Cancel \/ AddAnother) => FormInvariant'
<1> SUFFICES ASSUME FormInvariant, Added \/ CouldNotAdd \/ Cancel \/ AddAnother PROVE FormInvariant'
  OBVIOUS
<1>1. CASE Added
  <2>1. Fresh("MT5") \in FormRecords /\ OfOnePlatform(Fresh("MT5")) /\ Answers(Fresh("MT5"), {})
    BY FreshForm, PlatformsListed
  <2> QED
    BY <1>1, <2>1, NothingSaved DEF Added, FormInvariant
<1>2. CASE CouldNotAdd
  BY <1>2, NothingSaved DEF CouldNotAdd, FormInvariant
<1>3. CASE Cancel
  <2>1. form.platform \in Platforms
    BY DEF FormInvariant, FormRecords
  <2>2. Fresh(form.platform) \in FormRecords /\ OfOnePlatform(Fresh(form.platform)) /\ Answers(Fresh(form.platform), {})
    BY <2>1, FreshForm
  <2> QED
    BY <1>3, <2>2 DEF Cancel, FormInvariant
<1>4. CASE AddAnother
  BY <1>4 DEF AddAnother, FormInvariant
<1> QED
  BY <1>1, <1>2, <1>3, <1>4

LEMMA FormStill == FormInvariant /\ UNCHANGED fvars => FormInvariant'
BY DEF fvars, FormInvariant

LEMMA FormGoesOn == FormInvariant /\ FormNext => FormInvariant'
BY TypedBrokerKept, OpenedKept, SearchKept, ReplyKept, ChosenBrokerKept, ServerKept, PlatformKept, SubmittedKept,
   ClosedKept DEF FormNext

-----------------------------------------------------------------------------
(* The picture: a stamp is stored once, and tells one file.                *)

\* An upload that was stamped and is not stored yet, and the versions a page may name.
Stamped(t) == editor[t].step = "stamped"
Unstored(version) == \A t \in Editors : Stamped(t) => editor[t].stamp # version

\* A stamp is stored once: what bears it is either on its way or was stored.
StampsTell ==
  /\ \A t \in Editors : Stamped(t) => editor[t].stamp \in stamps
  /\ \A s, t \in Editors : Stamped(s) /\ Stamped(t) /\ editor[s].stamp = editor[t].stamp => s = t
  /\ stored.version # 0 => stored.version \in stamps /\ Unstored(stored.version)
  /\ \A t \in Editors : image[t].version # 0 => image[t].version \in stamps /\ Unstored(image[t].version)

\* A version and a picture come and go together.
Paired ==
  /\ stored.version = 0 => stored.data = NoImage
  /\ \A t \in Editors : image[t].version = 0 => image[t].data = NoImage

PictureInvariant ==
  /\ PictureType
  /\ \A t \in Editors : Stamped(t) => editor[t].file \in Images /\ editor[t].stamp # 0
  /\ Paired
  /\ ~clash => StampsTell
  /\ PictureIsStored

LEMMA PictureInvariantSays == PictureInvariant => PictureType /\ PictureIsStored
BY DEF PictureInvariant

LEMMA PictureBegins == PictureInit => PictureInvariant
<1> SUFFICES ASSUME PictureInit PROVE PictureInvariant
  OBVIOUS
<1>1. MaxClock \in Nat /\ 1 \in 1..MaxClock /\ 0 \in 0..MaxClock
  BY PictureAssumption
<1>2. \A t \in Editors : ~Stamped(t) /\ image[t] = NoPicture
  BY DEF PictureInit, Stamped, Still
<1>3. NoPicture \in [version : 0..MaxClock, data : Images \cup {NoImage}]
  BY <1>1 DEF NoPicture
<1>4. Still \in [step : {"idle", "posted", "stamped", "removing", "refresh"},
                file : Images \cup Unfit \cup {NoImage}, stamp : 0..MaxClock]
  BY <1>1 DEF Still
<1>5. PictureType
  BY <1>1, <1>3, <1>4 DEF PictureInit, PictureType, NoPicture
<1>6. Paired /\ StampsTell /\ PictureIsStored
  BY <1>2 DEF PictureInit, Paired, StampsTell, PictureIsStored, NoPicture, Unstored
<1> QED
  BY <1>2, <1>5, <1>6 DEF PictureInvariant

\* What an editor does before it stores leaves the pages as they are.
LEMMA EditorMoves ==
  ASSUME PictureInvariant, NEW t \in Editors, NEW to,
         to \in [step : {"idle", "posted", "removing", "refresh"}, file : Images \cup Unfit \cup {NoImage},
                 stamp : 0..MaxClock],
         editor' = [editor EXCEPT ![t] = to], UNCHANGED <<stored, image, clock, stamps, clash>>
  PROVE  PictureInvariant'
<1>1. PictureType'
  BY DEF PictureInvariant, PictureType
<1>2. \A s \in Editors : Stamped(s)' => Stamped(s) /\ editor'[s] = editor[s]
  BY DEF PictureInvariant, PictureType, Stamped
<1>3. Paired' /\ PictureIsStored'
  BY DEF PictureInvariant, Paired, PictureIsStored
<1>4. ASSUME ~clash' PROVE StampsTell'
  BY <1>2, <1>4 DEF PictureInvariant, StampsTell, Unstored, Stamped
<1>5. \A s \in Editors : Stamped(s)' => editor'[s].file \in Images /\ editor'[s].stamp # 0
  BY <1>2 DEF PictureInvariant
<1> QED
  BY <1>1, <1>3, <1>4, <1>5 DEF PictureInvariant

LEMMA PickedFileKept == ASSUME PictureInvariant, NEW t \in Editors, PickFile(t) PROVE PictureInvariant'
<1>1. PICK file \in Images \cup Unfit :
        editor' = [editor EXCEPT ![t] = [Still EXCEPT !.step = "posted", !.file = file]]
  BY DEF PickFile
<1>2. [Still EXCEPT !.step = "posted", !.file = file]
        \in [step : {"idle", "posted", "removing", "refresh"}, file : Images \cup Unfit \cup {NoImage},
             stamp : 0..MaxClock]
  <2>1. Still \in [step : {"idle", "posted", "removing", "refresh"}, file : Images \cup Unfit \cup {NoImage},
                  stamp : 0..MaxClock]
    BY PictureAssumption DEF Still
  <2> QED
    BY <2>1
<1> QED
  BY <1>1, <1>2, EditorMoves DEF PickFile

LEMMA StepIs ==
  ASSUME NEW step \in {"idle", "posted", "removing", "refresh"}
  PROVE  [Still EXCEPT !.step = step]
           \in [step : {"idle", "posted", "removing", "refresh"}, file : Images \cup Unfit \cup {NoImage},
                stamp : 0..MaxClock]
BY PictureAssumption DEF Still, NoImage

LEMMA QuietEditor ==
  ASSUME PictureInvariant, NEW t \in Editors, RemovePicture(t) \/ RefuseFile(t) \/ RequestFailed(t)
  PROVE  PictureInvariant'
<1>1. PICK step \in {"idle", "posted", "removing", "refresh"} : Step(t, step)
  BY DEF RemovePicture, RefuseFile, RequestFailed
<1>2. UNCHANGED <<stored, image, clock, stamps, clash>>
  BY DEF RemovePicture, RefuseFile, RequestFailed
<1> QED
  BY <1>1, <1>2, StepIs, EditorMoves DEF Step

LEMMA StampKept == ASSUME PictureInvariant, NEW t \in Editors, SetAvatar(t) PROVE PictureInvariant'
<1>1. editor' = [editor EXCEPT ![t] = [step |-> "stamped", file |-> editor[t].file, stamp |-> clock]]
  <2>1. editor[t] \in [step : {"idle", "posted", "stamped", "removing", "refresh"},
                      file : Images \cup Unfit \cup {NoImage}, stamp : 0..MaxClock]
    BY DEF PictureInvariant, PictureType
  <2> DEFINE to == [editor[t] EXCEPT !.step = "stamped", !.stamp = clock]
             set == [step : {"idle", "posted", "stamped", "removing", "refresh"},
                     file : Images \cup Unfit \cup {NoImage}, stamp : 0..MaxClock]
  <2>3. clock \in 0..MaxClock
    BY PictureAssumption DEF PictureInvariant, PictureType
  <2>4. to \in set /\ to.step = "stamped" /\ to.file = editor[t].file /\ to.stamp = clock
    BY <2>1, <2>3
  <2>5. editor' = [editor EXCEPT ![t] = to]
    BY DEF SetAvatar
  <2> HIDE DEF to
  <2>2. to = [step |-> "stamped", file |-> editor[t].file, stamp |-> clock]
    BY <2>4
  <2> QED
    BY <2>2, <2>5
<1>2. UNCHANGED <<stored, image, clock>> /\ stamps' = stamps \cup {clock} /\ clash' = (clash \/ clock \in stamps)
  BY DEF SetAvatar
<1>3. editor[t].file \in Images
  BY DEF SetAvatar, SniffImageType
<1>4. clock \in 1..MaxClock /\ MaxClock \in Nat
  BY PictureAssumption DEF PictureInvariant, PictureType
<1>5. PictureType'
  BY <1>1, <1>2, <1>3, <1>4 DEF PictureInvariant, PictureType
<1>6. \A s \in Editors : Stamped(s)' => editor'[s].file \in Images /\ editor'[s].stamp # 0
  BY <1>1, <1>3 DEF PictureInvariant, PictureType, Stamped
<1>7. Paired' /\ PictureIsStored'
  BY <1>2 DEF PictureInvariant, Paired, PictureIsStored
<1>8. ASSUME ~clash' PROVE StampsTell'
  <2>1. ~clash /\ clock \notin stamps /\ StampsTell
    BY <1>2, <1>8 DEF PictureInvariant
  <2>2. \A s \in Editors : s # t => editor'[s] = editor[s]
    BY <1>1 DEF PictureInvariant, PictureType
  <2>3. Stamped(t)' /\ editor'[t].stamp = clock
    BY <1>1 DEF PictureInvariant, PictureType, Stamped
  <2>4. \A s \in Editors : s # t => (Stamped(s)' <=> Stamped(s))
    BY <2>2 DEF Stamped
  <2>5. \A s \in Editors : Stamped(s)' => editor'[s].stamp \in stamps'
    BY <1>2, <2>1, <2>2, <2>3, <2>4 DEF StampsTell
  <2>6. \A r, s \in Editors : Stamped(r)' /\ Stamped(s)' /\ editor'[r].stamp = editor'[s].stamp => r = s
    BY <2>1, <2>2, <2>3, <2>4 DEF StampsTell
  <2>7. ASSUME NEW version \in stamps, Unstored(version) PROVE version \in stamps' /\ Unstored(version)'
    BY <1>2, <2>1, <2>2, <2>3, <2>4, <2>7 DEF Unstored
  <2>8. stored'.version # 0 => stored'.version \in stamps' /\ Unstored(stored.version)'
    BY <1>2, <2>1, <2>7 DEF StampsTell
  <2>9. \A s \in Editors : image'[s].version # 0 => image'[s].version \in stamps' /\ Unstored(image[s].version)'
    BY <1>2, <2>1, <2>7 DEF StampsTell
  <2> QED
    BY <2>5, <2>6, <2>8, <2>9 DEF StampsTell
<1> QED
  BY <1>5, <1>6, <1>7, <1>8 DEF PictureInvariant

\* The new version was not stored before: no page has rendered it.
LEMMA StoredAvatarKept == ASSUME PictureInvariant, NEW t \in Editors, StoreAvatar(t) PROVE PictureInvariant'
<1>1. editor' = [editor EXCEPT ![t] = [Still EXCEPT !.step = "refresh"]]
  BY DEF StoreAvatar, Step
<1>2. UNCHANGED <<image, clock, stamps, clash>> /\ stored' = [version |-> editor[t].stamp, data |-> editor[t].file]
  BY DEF StoreAvatar
<1>3. Stamped(t) /\ editor[t].file \in Images /\ editor[t].stamp # 0
  BY DEF StoreAvatar, PictureInvariant, Stamped
<1>4. [Still EXCEPT !.step = "refresh"].step = "refresh"
  BY DEF Still
<1>5. \A s \in Editors : Stamped(s)' => s # t /\ Stamped(s) /\ editor'[s] = editor[s]
  BY <1>1, <1>4 DEF PictureInvariant, PictureType, Stamped
<1>6. PictureType'
  BY <1>1, <1>2, <1>3, StepIs DEF PictureInvariant, PictureType
<1>7. \A s \in Editors : Stamped(s)' => editor'[s].file \in Images /\ editor'[s].stamp # 0
  BY <1>5 DEF PictureInvariant
<1>8. Paired'
  BY <1>2, <1>3 DEF PictureInvariant, Paired
<1>9. ASSUME ~clash' PROVE StampsTell' /\ (\A s \in Editors : image[s].version # editor[t].stamp)
  <2>1. ~clash /\ StampsTell
    BY <1>2, <1>9 DEF PictureInvariant
  <2>2. \A s \in Editors : image[s].version # editor[t].stamp
    BY <1>3, <2>1 DEF StampsTell, Unstored
  <2>3. Unstored(stored.version)'
    BY <1>2, <1>3, <1>5, <2>1 DEF StampsTell, Unstored
  <2>4. stored'.version \in stamps'
    BY <1>2, <1>3, <2>1 DEF StampsTell
  <2>5. \A r, s \in Editors : Stamped(r)' /\ Stamped(s)' /\ editor'[r].stamp = editor'[s].stamp => r = s
    BY <1>5, <2>1 DEF StampsTell
  <2>6. \A s \in Editors : Stamped(s)' => editor'[s].stamp \in stamps'
    BY <1>2, <1>5, <2>1 DEF StampsTell
  <2>7. \A s \in Editors : image'[s].version # 0 => image'[s].version \in stamps' /\ Unstored(image[s].version)'
    BY <1>2, <1>5, <2>1 DEF StampsTell, Unstored
  <2> QED
    BY <2>2, <2>3, <2>4, <2>5, <2>6, <2>7 DEF StampsTell
<1>10. PictureIsStored'
  BY <1>2, <1>9 DEF PictureIsStored
<1> QED
  BY <1>6, <1>7, <1>8, <1>9, <1>10 DEF PictureInvariant

LEMMA RemovedAvatarKept == ASSUME PictureInvariant, NEW t \in Editors, RemoveAvatar(t) PROVE PictureInvariant'
<1>1. editor' = [editor EXCEPT ![t] = [Still EXCEPT !.step = "refresh"]]
  BY DEF RemoveAvatar, Step
<1>2. UNCHANGED <<image, clock, stamps, clash>> /\ stored'.version = 0 /\ stored'.data = NoImage
  BY DEF RemoveAvatar, NoPicture
<1>3. [Still EXCEPT !.step = "refresh"].step = "refresh"
  BY DEF Still
<1>4. \A s \in Editors : Stamped(s)' => Stamped(s) /\ editor'[s] = editor[s]
  BY <1>1, <1>3 DEF PictureInvariant, PictureType, Stamped
<1>5. PictureType'
  <2>1. stored' \in [version : 0..MaxClock, data : Images \cup {NoImage}]
    BY PictureAssumption DEF RemoveAvatar, NoPicture
  <2>2. editor' \in [Editors -> [step : {"idle", "posted", "stamped", "removing", "refresh"},
                          file : Images \cup Unfit \cup {NoImage}, stamp : 0..MaxClock]]
    BY <1>1, StepIs DEF PictureInvariant, PictureType
  <2> QED
    BY <1>2, <2>1, <2>2 DEF PictureInvariant, PictureType
<1>6. \A s \in Editors : Stamped(s)' => editor'[s].file \in Images /\ editor'[s].stamp # 0
  BY <1>4 DEF PictureInvariant
<1>7. Paired'
  BY <1>2 DEF PictureInvariant, Paired
<1>8. ASSUME ~clash' PROVE StampsTell'
  BY <1>2, <1>4, <1>8 DEF PictureInvariant, StampsTell, Unstored
<1>9. PictureIsStored'
  BY <1>2 DEF PictureInvariant, PictureIsStored, Paired
<1> QED
  BY <1>5, <1>6, <1>7, <1>8, <1>9 DEF PictureInvariant

\* What a page shows changes: it bears the version stored, or the one it had.
LEMMA PageMoves ==
  ASSUME PictureInvariant, NEW t \in Editors, NEW to,
         to \in [version : 0..MaxClock, data : Images \cup {NoImage, Loading}],
         to.version \in {0, stored.version, image[t].version}, to.version = 0 => to.data = NoImage,
         to.data = Loading \/ to.data = stored.data \/ to = image[t] \/ to.version = 0,
         image' = [image EXCEPT ![t] = to], UNCHANGED <<stored, clock, stamps, clash>>,
         editor' \in [Editors -> [step : {"idle", "posted", "stamped", "removing", "refresh"},
                               file : Images \cup Unfit \cup {NoImage}, stamp : 0..MaxClock]],
         \A s \in Editors : Stamped(s)' => Stamped(s) /\ editor'[s] = editor[s]
  PROVE  PictureInvariant'
<1>1. PictureType'
  BY DEF PictureInvariant, PictureType
<1>2. \A s \in Editors : Stamped(s)' => editor'[s].file \in Images /\ editor'[s].stamp # 0
  BY DEF PictureInvariant
<1>3. \A s \in Editors : image'[s] = IF s = t THEN to ELSE image[s]
  BY DEF PictureInvariant, PictureType
<1>4. Paired'
  BY <1>3 DEF PictureInvariant, Paired
<1>5. ASSUME ~clash' PROVE StampsTell'
  BY <1>3, <1>5 DEF PictureInvariant, StampsTell, Unstored
<1>6. PictureIsStored'
  BY <1>3 DEF PictureInvariant, PictureIsStored, Paired
<1> QED
  BY <1>1, <1>2, <1>4, <1>5, <1>6 DEF PictureInvariant

LEMMA ProfileKept == ASSUME PictureInvariant, NEW t \in Editors, GetProfile(t) PROVE PictureInvariant'
<1> DEFINE to == IF stored.version = 0 THEN NoPicture
                 ELSE IF stored.version = image[t].version THEN image[t]
                 ELSE [version |-> stored.version, data |-> Loading]
<1>1. image' = [image EXCEPT ![t] = to] /\ UNCHANGED <<stored, clock, stamps, clash>>
  BY DEF GetProfile
<1>2. editor' = [editor EXCEPT ![t] = [Still EXCEPT !.step = "idle"]]
  BY DEF GetProfile, Step
<1>3. [Still EXCEPT !.step = "idle"].step = "idle"
  BY DEF Still
<1>4. \A s \in Editors : Stamped(s)' => Stamped(s) /\ editor'[s] = editor[s]
  BY <1>2, <1>3 DEF PictureInvariant, PictureType, Stamped
<1>5. editor' \in [Editors -> [step : {"idle", "posted", "stamped", "removing", "refresh"},
                            file : Images \cup Unfit \cup {NoImage}, stamp : 0..MaxClock]]
  BY <1>2, StepIs DEF PictureInvariant, PictureType
<1>6. /\ to \in [version : 0..MaxClock, data : Images \cup {NoImage, Loading}]
      /\ to.version \in {0, stored.version, image[t].version}
  BY PictureAssumption DEF PictureInvariant, PictureType, NoPicture
<1>7. to.version = 0 => to.data = NoImage
  BY DEF NoPicture
<1>8. to.data = Loading \/ to.data = stored.data \/ to = image[t] \/ to.version = 0
  BY DEF NoPicture
<1> HIDE DEF to
<1> QED
  BY <1>1, <1>4, <1>5, <1>6, <1>7, <1>8, PageMoves

LEMMA ReadAvatarKept == ASSUME PictureInvariant, NEW t \in Editors, ReadAvatar(t) PROVE PictureInvariant'
<1> DEFINE to == [version |-> image[t].version, data |-> stored.data]
<1>1. image[t] \in [version : 0..MaxClock, data : Images \cup {NoImage, Loading}]
  BY DEF PictureInvariant, PictureType
<1>2. [image[t] EXCEPT !.data = stored.data] = to
  BY <1>1
<1>3. image' = [image EXCEPT ![t] = to] /\ UNCHANGED <<stored, editor, clock, stamps, clash>>
  BY <1>2 DEF ReadAvatar
<1>4. to.version # 0
  BY DEF ReadAvatar, PictureInvariant, Paired, NoImage, Loading
<1>5. to \in [version : 0..MaxClock, data : Images \cup {NoImage, Loading}]
  BY <1>1 DEF PictureInvariant, PictureType
<1>6. editor' \in [Editors -> [step : {"idle", "posted", "stamped", "removing", "refresh"},
                            file : Images \cup Unfit \cup {NoImage}, stamp : 0..MaxClock]]
  BY <1>3 DEF PictureInvariant, PictureType
<1>7. \A s \in Editors : Stamped(s)' => Stamped(s) /\ editor'[s] = editor[s]
  BY <1>3 DEF Stamped
<1>8. to.version = image[t].version /\ to.data = stored.data
  OBVIOUS
<1> HIDE DEF to
<1> QED
  BY <1>3, <1>4, <1>5, <1>6, <1>7, <1>8, PageMoves

LEMMA TickKept == PictureInvariant /\ Tick => PictureInvariant'
<1> SUFFICES ASSUME PictureInvariant, Tick PROVE PictureInvariant'
  OBVIOUS
<1>1. PictureType'
  BY PictureAssumption DEF Tick, PictureInvariant, PictureType
<1>2. (Paired /\ PictureIsStored)' /\ (StampsTell => StampsTell')
  BY DEF Tick, PictureInvariant, Paired, PictureIsStored, StampsTell, Unstored, Stamped
<1> QED
  BY <1>1, <1>2 DEF PictureInvariant, Tick, Stamped

LEMMA PictureStill == PictureInvariant /\ UNCHANGED pvars => PictureInvariant'
BY DEF pvars, PictureInvariant, PictureType, Paired, PictureIsStored, StampsTell, Unstored, Stamped

LEMMA PictureGoesOn == PictureInvariant /\ PictureNext => PictureInvariant'
BY TickKept, PickedFileKept, QuietEditor, StampKept, StoredAvatarKept, RemovedAvatarKept, ProfileKept,
   ReadAvatarKept DEF PictureNext

-----------------------------------------------------------------------------
(* The bill: sums over finite sets.  Induction over a set is the choice of  *)
(* a smallest counterexample among its subsets.                            *)

LEMMA Smallest ==
  ASSUME NEW S, IsFiniteSet(S), NEW T \in SUBSET SUBSET S, T # {}
  PROVE  \E x \in T : \A y \in T : y \subseteq x => y = x
<1> DEFINE R == StrictSubsetOrdering(S)
<1>1. IsWellFoundedOn(R, SUBSET S)
  BY FS_StrictSubsetOrderingWellFounded, FS_FiniteSubsetsOfFinite
<1>2. \E x \in T : \A y \in T : ~(<<y, x>> \in R)
  <2> HIDE DEF R
  <2> QED
    BY <1>1, WFMin
<1>3. PICK x \in T : \A y \in T : ~(<<y, x>> \in R)
  BY <1>2
<1>4. ASSUME NEW y \in T, y \subseteq x, y # x PROVE FALSE
  <2>1. <<y, x>> \in R
    BY <1>4 DEF StrictSubsetOrdering
  <2> QED
    BY <1>3, <2>1
<1> QED
  BY <1>4

\* The function by which the library's fold adds up f over every subset of a set.
OneOf(s) == CHOOSE x \in s : TRUE
Adds(f, S, h) == h = [s \in SUBSET S |-> IF s = {} THEN 0 ELSE f[OneOf(s)] + h[s \ {OneOf(s)}]]
Total(f, S) == SumFunctionOnSet(f, S)

Part(s, S) == s \subseteq S

LEMMA TotalIsChosen == \A f, S : Total(f, S) = (CHOOSE h : Adds(f, S, h))[S]
BY DEF Total, SumFunctionOnSet, FoldFunctionOnSet, MapThenFoldSet, Adds, OneOf

\* What h gives for s, from what it gives for a part of s.
AddsNone(h, s) == h[s] = 0
AddsNext(f, h, s) == h[s] = f[OneOf(s)] + h[s \ {OneOf(s)}]

LEMMA Adding ==
  \A f, S, h, s : Adds(f, S, h) /\ Part(s, S) => (s = {} => AddsNone(h, s)) /\ (s # {} => AddsNext(f, h, s))
<1> SUFFICES ASSUME NEW f, NEW S, NEW h, Adds(f, S, h), NEW s \in SUBSET S
             PROVE  (s = {} => AddsNone(h, s)) /\ (s # {} => AddsNext(f, h, s))
  BY DEF Part
<1>1. h[s] = IF s = {} THEN 0 ELSE f[OneOf(s)] + h[s \ {OneOf(s)}]
  BY DEF Adds
<1> QED
  BY <1>1 DEF AddsNone, AddsNext

LEMMA OneOfIt == ASSUME NEW s, s # {} PROVE OneOf(s) \in s
BY DEF OneOf

\* There is one such function.
LEMMA AddsOnce ==
  ASSUME NEW S, IsFiniteSet(S), NEW f, NEW g, NEW h, NEW U \in SUBSET S, Adds(f, S, g), Adds(f, U, h),
         NEW u \in SUBSET U
  PROVE  g[u] = h[u]
<1> DEFINE T == {s \in SUBSET U : g[s] # h[s]}
<1>1. SUFFICES ASSUME T # {} PROVE FALSE
  OBVIOUS
<1>2. PICK s \in T : \A y \in T : y \subseteq s => y = s
  <2>1. T \in SUBSET SUBSET U
    OBVIOUS
  <2>2. IsFiniteSet(U)
    BY FS_Subset
  <2> HIDE DEF T
  <2> QED
    BY <1>1, <2>1, <2>2, Smallest
<1>3. s # {}
  <2>1. ASSUME s = {} PROVE FALSE
    <3>1. Adds(f, S, g) /\ Adds(f, U, h) /\ Part(s, S) /\ Part(s, U)
      BY DEF Part
    <3>2. AddsNone(g, s) /\ AddsNone(h, s)
      BY ONLY <2>1, <3>1, Adding
    <3> QED
      BY <1>2, <3>2 DEF AddsNone
  <2> QED
    BY <2>1
<1>4. s \ {OneOf(s)} \subseteq s /\ s \ {OneOf(s)} # s /\ s \ {OneOf(s)} \in SUBSET U
  BY <1>3, OneOfIt
<1>5. g[s \ {OneOf(s)}] = h[s \ {OneOf(s)}]
  BY <1>2, <1>4
<1>6. s \in SUBSET S /\ s \in SUBSET U
  OBVIOUS
<1>7. Adds(f, S, g) /\ Adds(f, U, h) /\ Part(s, S) /\ Part(s, U) /\ s # {}
  BY <1>3, <1>6 DEF Part
<1>8. AddsNext(f, g, s) /\ AddsNext(f, h, s)
  BY ONLY <1>7, Adding
<1> QED
  BY <1>2, <1>5, <1>8 DEF AddsNext

LEMMA AddsIs ==
  ASSUME NEW S, IsFiniteSet(S), NEW f
  PROVE  \E h : Adds(f, S, h)
<1> DEFINE T == {s \in SUBSET S : ~\E h : Adds(f, s, h)}
<1>1. SUFFICES ASSUME T # {} PROVE FALSE
  OBVIOUS
<1>2. PICK s \in T : \A y \in T : y \subseteq s => y = s
  <2>1. T \in SUBSET SUBSET S
    OBVIOUS
  <2> HIDE DEF T
  <2> QED
    BY <1>1, <2>1, Smallest
<1>3. \A u \in SUBSET s : u # s => \E h : Adds(f, u, h)
  BY <1>2
<1> DEFINE Of(u) == CHOOSE h : Adds(f, u, h)
<1>4. \A u \in SUBSET s : u # s => Adds(f, u, Of(u))
  BY <1>3
<1>5. \A u \in SUBSET s : \A w \in SUBSET u : u # s => Of(u)[w] = Of(w)[w]
  <2> TAKE u \in SUBSET s
  <2> TAKE w \in SUBSET u
  <2> HAVE u # s
  <2>1. w # s /\ w \in SUBSET s /\ IsFiniteSet(u)
    BY <1>2, FS_Subset
  <2>2. Adds(f, u, Of(u)) /\ Adds(f, w, Of(w))
    BY <1>4, <2>1
  <2> HIDE DEF Of
  <2> QED
    BY <2>1, <2>2, AddsOnce
<1> DEFINE h == [u \in SUBSET s |-> IF u = {} THEN 0 ELSE f[OneOf(u)] + Of(u \ {OneOf(u)})[u \ {OneOf(u)}]]
<1>6. \A u \in SUBSET s : u # s => h[u] = Of(u)[u]
  <2> TAKE u \in SUBSET s
  <2> HAVE u # s
  <2>1. Adds(f, u, Of(u)) /\ u \in SUBSET u
    BY <1>4
  <2>2. Of(u)[u] = IF u = {} THEN 0 ELSE f[OneOf(u)] + Of(u)[u \ {OneOf(u)}]
    <3> HIDE DEF Of
    <3>1. Adds(f, u, Of(u)) /\ Part(u, u)
      BY <2>1 DEF Part
    <3>2. (u = {} => AddsNone(Of(u), u)) /\ (u # {} => AddsNext(f, Of(u), u))
      BY ONLY <3>1, Adding
    <3> QED
      BY <3>2 DEF AddsNone, AddsNext
  <2>3. Of(u)[u \ {OneOf(u)}] = Of(u \ {OneOf(u)})[u \ {OneOf(u)}]
    <3> HIDE DEF Of
    <3> QED
      BY <1>5
  <2> HIDE DEF Of
  <2> QED
    BY <2>2, <2>3
<1>7. \A u \in SUBSET s : u # {} => h[u] = f[OneOf(u)] + h[u \ {OneOf(u)}]
  <2> TAKE u \in SUBSET s
  <2> HAVE u # {}
  <2>1. u \ {OneOf(u)} \in SUBSET s /\ u \ {OneOf(u)} # s
    BY OneOfIt
  <2>2. h[u \ {OneOf(u)}] = Of(u \ {OneOf(u)})[u \ {OneOf(u)}]
    BY <1>6, <2>1
  <2> QED
    BY <2>2
<1>8. Adds(f, s, h)
  <2>1. \A u \in SUBSET s : h[u] = IF u = {} THEN 0 ELSE f[OneOf(u)] + h[u \ {OneOf(u)}]
    <3> TAKE u \in SUBSET s
    <3>1. CASE u = {}
      BY <3>1
    <3>2. CASE u # {}
      <4> HIDE DEF h
      <4> QED
        BY <1>7, <3>2
    <3> QED
      BY <3>1, <3>2
  <2>2. h = [u \in SUBSET s |-> h[u]]
    OBVIOUS
  <2> HIDE DEF h
  <2> QED
    BY <2>1, <2>2 DEF Adds
<1> QED
  BY <1>2, <1>8

LEMMA TotalByOne ==
  ASSUME NEW S, IsFiniteSet(S), NEW f
  PROVE  Total(f, S) = IF S = {} THEN 0 ELSE f[OneOf(S)] + Total(f, S \ {OneOf(S)})
<1> DEFINE Of(u) == CHOOSE h : Adds(f, u, h)
<1>1. Adds(f, S, Of(S)) /\ Total(f, S) = Of(S)[S]
  BY AddsIs, TotalIsChosen
<1>2. CASE S = {}
  <2> HIDE DEF Of
  <2>1. Adds(f, S, Of(S)) /\ Part(S, S) /\ S = {}
    BY <1>1, <1>2 DEF Part
  <2>2. AddsNone(Of(S), S)
    BY ONLY <2>1, Adding
  <2> QED
    BY <1>1, <1>2, <2>2 DEF AddsNone
<1>3. CASE S # {}
  <2> DEFINE U == S \ {OneOf(S)}
  <2>1. U \in SUBSET S /\ IsFiniteSet(U)
    BY FS_Subset
  <2>2. Adds(f, U, Of(U)) /\ Total(f, U) = Of(U)[U]
    BY <2>1, AddsIs, TotalIsChosen
  <2> HIDE DEF Of
  <2>3. Of(S)[U] = Of(U)[U]
    BY <1>1, <2>1, <2>2, AddsOnce
  <2>4. Of(S)[S] = f[OneOf(S)] + Of(S)[U]
    <3>1. Adds(f, S, Of(S)) /\ Part(S, S) /\ S # {}
      BY <1>1, <1>3 DEF Part
    <3>2. AddsNext(f, Of(S), S)
      BY ONLY <3>1, Adding
    <3> QED
      BY <3>2 DEF AddsNext
  <2> QED
    BY <1>1, <1>3, <2>2, <2>3, <2>4
<1> QED
  BY <1>2, <1>3


\* Spans that lie apart in 1..n add up to no more than n.
Covered(lo, hi, n, s) == {k \in 1..n : \E i \in s : lo[i] < k /\ k <= hi[i]}

LEMMA SpansFit ==
  ASSUME NEW S, IsFiniteSet(S), NEW f, NEW lo, NEW hi, NEW n \in Nat,
         \A i \in S : /\ lo[i] \in 0..n /\ hi[i] \in 0..n /\ lo[i] <= hi[i]
                      /\ f[i] \in Int /\ f[i] <= hi[i] - lo[i],
         \A i, j \in S : i # j => hi[i] <= lo[j] \/ hi[j] <= lo[i]
  PROVE  Total(f, S) \in Int /\ Total(f, S) <= n
<1> DEFINE T == {s \in SUBSET S : ~(Total(f, s) \in Int /\ Total(f, s) <= Cardinality(Covered(lo, hi, n, s)))}
<1>1. \A s : IsFiniteSet(Covered(lo, hi, n, s)) /\ Cardinality(Covered(lo, hi, n, s)) \in 0..n
  <2> TAKE s
  <2>1. Covered(lo, hi, n, s) \in SUBSET (1..n)
    BY DEF Covered
  <2>2. IsFiniteSet(1..n) /\ Cardinality(1..n) = n
    BY FS_Interval
  <2>3. IsFiniteSet(Covered(lo, hi, n, s)) /\ Cardinality(Covered(lo, hi, n, s)) <= n
    BY <2>1, <2>2, FS_Subset
  <2> QED
    BY <2>3, FS_CardinalityType
<1>2. ASSUME T # {} PROVE FALSE
  <2>1. PICK s \in T : \A y \in T : y \subseteq s => y = s
    <3>1. T \in SUBSET SUBSET S
      OBVIOUS
    <3> HIDE DEF T
    <3> QED
      BY <1>2, <3>1, Smallest
  <2>2. s \in SUBSET S /\ IsFiniteSet(s)
    BY FS_Subset
  <2>3. s # {}
    <3>1. ASSUME s = {} PROVE FALSE
      <4>1. Total(f, s) = 0
        BY <2>2, <3>1, TotalByOne
      <4>2. Cardinality(Covered(lo, hi, n, s)) \in 0..n
        BY <1>1
      <4> QED
        BY <2>1, <4>1, <4>2
    <3> QED
      BY <3>1
  <2> DEFINE x == OneOf(s)
             rest == s \ {x}
  <2>4. x \in s /\ x \in S
    BY <2>2, <2>3, OneOfIt
  <2>5. Total(f, rest) \in Int /\ Total(f, rest) <= Cardinality(Covered(lo, hi, n, rest))
    BY <2>1, <2>2, <2>4
  <2>6. Total(f, s) = f[x] + Total(f, rest)
    BY <2>2, <2>3, TotalByOne
  <2> HIDE DEF x, rest
  <2>7. lo[x] \in 0..n /\ hi[x] \in 0..n /\ lo[x] <= hi[x] /\ f[x] \in Int /\ f[x] <= hi[x] - lo[x]
    BY <2>4
  <2>8. /\ IsFiniteSet((lo[x] + 1)..hi[x])
        /\ Cardinality((lo[x] + 1)..hi[x]) = hi[x] - lo[x]
    <3>1. lo[x] + 1 \in Int /\ hi[x] \in Int
      BY <2>7
    <3>2. IsFiniteSet((lo[x] + 1)..hi[x])
      BY <3>1, FS_Interval
    <3>3. Cardinality((lo[x] + 1)..hi[x]) = IF lo[x] + 1 > hi[x] THEN 0 ELSE hi[x] - (lo[x] + 1) + 1
      BY <3>1, FS_Interval
    <3> QED
      BY <2>7, <3>2, <3>3
  <2>9. Covered(lo, hi, n, s) = ((lo[x] + 1)..hi[x]) \cup Covered(lo, hi, n, rest)
    BY <2>4, <2>7 DEF Covered, rest
  <2>10. ((lo[x] + 1)..hi[x]) \cap Covered(lo, hi, n, rest) = {}
    <3> SUFFICES ASSUME NEW k \in (lo[x] + 1)..hi[x], NEW i \in rest, lo[i] < k, k <= hi[i] PROVE FALSE
      BY DEF Covered
    <3>1. i \in S /\ i # x
      BY <2>2 DEF rest
    <3>2. lo[i] \in 0..n /\ hi[i] \in 0..n
      BY <3>1
    <3> QED
      BY <2>4, <2>7, <3>1, <3>2
  <2>11. Cardinality(Covered(lo, hi, n, s)) = (hi[x] - lo[x]) + Cardinality(Covered(lo, hi, n, rest)) - 0
    <3>1. IsFiniteSet(Covered(lo, hi, n, rest))
      BY <1>1
    <3>2. Cardinality(((lo[x] + 1)..hi[x]) \cup Covered(lo, hi, n, rest))
            = Cardinality((lo[x] + 1)..hi[x]) + Cardinality(Covered(lo, hi, n, rest))
                - Cardinality(((lo[x] + 1)..hi[x]) \cap Covered(lo, hi, n, rest))
      BY <2>8, <3>1, FS_Union
    <3> QED
      BY <2>8, <2>9, <2>10, <3>2, FS_EmptySet
  <2>12. Cardinality(Covered(lo, hi, n, rest)) \in 0..n
    BY <1>1
  <2>13. Total(f, s) \in Int /\ Total(f, s) <= Cardinality(Covered(lo, hi, n, s))
    BY <2>5, <2>6, <2>7, <2>11, <2>12
  <2> QED
    BY <2>1, <2>13
<1>3. Total(f, S) \in Int /\ Total(f, S) <= Cardinality(Covered(lo, hi, n, S))
  BY <1>2
<1>4. Cardinality(Covered(lo, hi, n, S)) \in 0..n
  BY <1>1
<1> QED
  BY <1>3, <1>4

\* Of finitely many numbers few have few above them.
LEMMA FewLatest ==
  ASSUME NEW n \in Nat, NEW S \in SUBSET (1..n), NEW limit \in Nat
  PROVE  Cardinality({i \in S : Cardinality({j \in S : j > i}) < limit}) <= limit
<1> DEFINE L == {i \in S : Cardinality({j \in S : j > i}) < limit}
           T == {{j \in L : j <= i} : i \in L}
<1>1. IsFiniteSet(S) /\ IsFiniteSet(L) /\ L \in SUBSET S /\ \A i \in S : IsFiniteSet({j \in S : j > i})
  <2>1. IsFiniteSet(1..n)
    BY FS_Interval
  <2>2. IsFiniteSet(S)
    BY <2>1, FS_Subset
  <2>3. \A U \in SUBSET S : IsFiniteSet(U)
    BY <2>2, FS_Subset
  <2> QED
    BY <2>2, <2>3
<1>2. CASE L = {}
  <2>1. Cardinality(L) = 0
    BY <1>2, FS_EmptySet
  <2> QED
    BY <2>1
<1>3. CASE L # {}
  <2>1. T # {} /\ T \in SUBSET SUBSET L
    BY <1>3
  <2>2. PICK s \in T : \A y \in T : y \subseteq s => y = s
    <3>1. IsFiniteSet(L)
      BY <1>1
    <3> HIDE DEF T, L
    <3> QED
      BY <2>1, <3>1, Smallest
  <2>3. PICK i \in L : s = {j \in L : j <= i}
    BY <2>2
  <2>4. \A j \in L : i <= j
    <3> SUFFICES ASSUME NEW j \in L, j < i PROVE FALSE
      BY <1>1
    <3> DEFINE y == {k \in L : k <= j}
    <3>1. y \in T
      OBVIOUS
    <3> HIDE DEF L
    <3>2. L \subseteq Int
      BY <1>1
    <3>3. y \subseteq s
      <4> SUFFICES ASSUME NEW k \in L, k <= j PROVE k <= i
        BY <2>3
      <4>1. k \in Int /\ j \in Int /\ i \in Int
        BY <3>2
      <4> QED
        BY <4>1
    <3>4. i \in s /\ i \notin y
      BY <2>3, <3>2
    <3> QED
      BY <2>2, <3>1, <3>3, <3>4
  <2> DEFINE above == {j \in S : j > i}
  <2>5. L \ {i} \in SUBSET above
    <3> HIDE DEF L
    <3>1. L \subseteq S /\ L \subseteq Int
      BY <1>1
    <3> QED
      BY <2>4, <3>1
  <2>6. IsFiniteSet(above) /\ Cardinality(above) < limit /\ Cardinality(above) \in Nat
    BY <1>1, FS_CardinalityType
  <2> HIDE DEF above, L
  <2>7. Cardinality(L \ {i}) <= Cardinality(above)
    BY <2>5, <2>6, FS_Subset
  <2>8. Cardinality(L \ {i}) = Cardinality(L) - 1
    BY <1>1, FS_RemoveElement
  <2>9. Cardinality(L) \in Nat
    BY <1>1, FS_CardinalityType
  <2>10. Cardinality(L) <= limit
    BY <2>6, <2>7, <2>8, <2>9
  <2> QED
    BY <2>10 DEF L
<1> QED
  BY <1>2, <1>3

-----------------------------------------------------------------------------
(* The bill: balances are stored in the order they are read.               *)

Snapshot == [amount : Amounts, at : 0..MaxTime, used : 0..MaxUsed]
PollRecords(n) ==
  [step : {"idle", "latest", "record", "answer"}, amount : Amounts \cup {NoAmount}, used : 0..MaxUsed,
   began : 0..MaxTime, before : 0..n]

\* What had been paid in when a balance was read.
PaidAt(sample) == sample.amount + sample.used - Deposited
Sampled(s) == PaidAt(s) \in 0..paid /\ s.used <= used /\ s.at <= now
Underway(q) ==
  q.step # "idle" =>
    /\ q.amount \in Amounts /\ PaidAt(q) \in 0..paid /\ q.used <= used
    /\ q.began <= now /\ now <= q.began + 1
    /\ q.before = 0 /\ snapshots # << >> => snapshots[1].at >= q.began
    /\ q.step = "answer" => snapshots # << >>

\* Balances were stored in the order they were read, apart from each other.
Follows(s, t) == PaidAt(s) <= PaidAt(t) /\ s.used <= t.used
SnapshotsInTurn ==
  /\ \A i, j \in DOMAIN snapshots : i <= j => Follows(snapshots[i], snapshots[j])
  /\ \A i \in 1..(Len(snapshots) - 1) : snapshots[i + 1].at - snapshots[i].at >= MinGap
PollInTurn(q) ==
  /\ \A i \in DOMAIN snapshots : q.step # "idle" /\ i <= q.before => Follows(snapshots[i], q)
  /\ q.step = "record" /\ Len(snapshots) = q.before /\ snapshots # << >> =>
       now - snapshots[Len(snapshots)].at >= MinGap

\* The figures a page shows are true, and stay so.
Deposits(f) == SumFunction([i \in DOMAIN f.funding |-> f.funding[i].amount])
Shown(f) ==
  /\ f.amount \in Amounts \cup {NoAmount} /\ f.spent \in Amounts /\ f.low \in BOOLEAN
  /\ Cardinality(DOMAIN f.funding) <= Listed
  /\ f.spent > 0 => snapshots # << >>
  /\ ~outrun => /\ Deposits(f) \in Int /\ Deposits(f) <= paid
                /\ f.spent > 0 => f.spent <= f.used - snapshots[1].used

UsageInvariant ==
  /\ paid \in 0..MaxPaid /\ used \in 0..MaxUsed /\ now \in 0..MaxTime /\ polls \in 0..MaxPolls /\ outrun \in BOOLEAN
  /\ snapshots \in Seq(Snapshot) /\ poll \in [Polls -> PollRecords(Len(snapshots))]
  /\ used <= Deposited + paid
  /\ \A i \in DOMAIN snapshots : Sampled(snapshots[i])
  /\ \A p \in Polls : Underway(poll[p])
  /\ Shown(panel)
  /\ ~outrun => SnapshotsInTurn /\ \A p \in Polls : PollInTurn(poll[p])

LEMMA UsageBounds ==
  /\ MinGap \in Nat \ {0} /\ MinWindow \in Nat /\ MinWindow >= 2 /\ Listed \in Nat \ {0}
  /\ LowBalance \in Nat /\ LowRunway \in Nat /\ Deposited \in Nat /\ MaxPaid \in Nat /\ MaxUsed \in Nat
  /\ MaxTime \in Nat /\ MaxPolls \in Nat
BY UsageAssumption

LEMMA SnapshotIs ==
  ASSUME UsageInvariant, NEW i \in DOMAIN snapshots
  PROVE  /\ snapshots[i] \in Snapshot /\ snapshots[i].amount \in Int /\ snapshots[i].at \in Int
         /\ snapshots[i].used \in Int /\ PaidAt(snapshots[i]) \in Int
         /\ snapshots[i].amount = PaidAt(snapshots[i]) - snapshots[i].used + Deposited
<1>1. snapshots[i] \in Snapshot
  BY DEF UsageInvariant
<1>2. snapshots[i].amount \in Int /\ snapshots[i].at \in Int /\ snapshots[i].used \in Int
  BY <1>1, UsageBounds DEF Snapshot, Amounts
<1> QED
  BY <1>1, <1>2, UsageBounds DEF PaidAt

LEMMA UsageInvariantSays == UsageInvariant => UsageType /\ UsageIsTrue
<1> SUFFICES ASSUME UsageInvariant PROVE UsageType /\ UsageIsTrue
  OBVIOUS
<1>1. UsageType
  <2>1. poll \in [Polls -> [step : {"idle", "latest", "record", "answer"}, amount : Amounts \cup {NoAmount},
                           used : 0..MaxUsed, began : 0..MaxTime, before : 0..Len(snapshots)]]
    BY DEF UsageInvariant, PollRecords
  <2>2. \A i \in DOMAIN snapshots : snapshots[i] \in [amount : Amounts, at : 0..MaxTime, used : 0..MaxUsed]
    BY SnapshotIs DEF Snapshot
  <2>3. /\ panel.amount \in Amounts \cup {NoAmount} /\ panel.spent \in Amounts /\ panel.low \in BOOLEAN
        /\ Cardinality(DOMAIN panel.funding) <= Listed
    BY DEF UsageInvariant, Shown
  <2> QED
    BY <2>1, <2>2, <2>3 DEF UsageInvariant, UsageType
<1>2. panel.spent > 0 => Head(snapshots) = snapshots[1]
  BY DEF UsageInvariant, Shown
<1>3. UsageIsTrue
  BY <1>2 DEF UsageInvariant, UsageIsTrue, Shown, Deposits, SnapshotsInTurn
<1> QED
  BY <1>1, <1>3

LEMMA NoDeposits ==
  Deposits(NoFigures) = 0 /\ Cardinality(DOMAIN NoFigures.funding) = 0 /\ NoFigures.amount = NoAmount
  /\ NoFigures.spent = 0 /\ NoFigures.low = FALSE
<1>1. NoFigures.funding = [i \in {} |-> 0]
  BY DEF NoFigures
<1>2. DOMAIN NoFigures.funding = {}
  BY <1>1
<1>3. Cardinality(DOMAIN NoFigures.funding) = 0
  BY <1>2, FS_EmptySet
<1> DEFINE f == [i \in DOMAIN NoFigures.funding |-> NoFigures.funding[i].amount]
<1>4. Deposits(NoFigures) = Total(f, DOMAIN f)
  BY DEF Deposits, Total, SumFunction
<1>5. DOMAIN f = {}
  BY <1>2
<1> HIDE DEF f
<1>6. Total(f, {}) = 0
  BY FS_EmptySet, TotalByOne
<1>7. Deposits(NoFigures) = 0
  BY <1>4, <1>5, <1>6
<1> QED
  BY <1>3, <1>7 DEF NoFigures

LEMMA UsageBegins == UsageInit => UsageInvariant
<1> SUFFICES ASSUME UsageInit PROVE UsageInvariant
  OBVIOUS
<1>1. NoPoll \in PollRecords(0) /\ NoPoll.step = "idle"
  BY UsageBounds DEF NoPoll, PollRecords
<1>2. snapshots = << >> /\ Len(snapshots) = 0 /\ DOMAIN snapshots = {} /\ snapshots \in Seq(Snapshot)
  BY DEF UsageInit
<1>3. poll \in [Polls -> PollRecords(Len(snapshots))] /\ \A p \in Polls : poll[p].step = "idle"
  BY <1>1, <1>2 DEF UsageInit
<1>4. Shown(panel)
  <2>1. panel = NoFigures /\ paid = 0
    BY DEF UsageInit
  <2>2. 0 \in Amounts /\ 0 <= Listed
    BY UsageBounds DEF Amounts
  <2>3. NoFigures.low \in BOOLEAN
    BY DEF NoFigures
  <2>4. Deposits(NoFigures) \in Int /\ Deposits(NoFigures) <= paid
    BY <2>1, NoDeposits
  <2>5. NoFigures.amount \in Amounts \cup {NoAmount} /\ NoFigures.spent \in Amounts /\ ~(NoFigures.spent > 0)
    BY <2>2, NoDeposits
  <2>6. Cardinality(DOMAIN NoFigures.funding) <= Listed
    BY <2>2, NoDeposits
  <2>7. Shown(NoFigures)
    BY <2>3, <2>4, <2>5, <2>6 DEF Shown
  <2> QED
    BY <2>1, <2>7
<1>5. SnapshotsInTurn /\ \A p \in Polls : PollInTurn(poll[p]) /\ Underway(poll[p])
  BY <1>2, <1>3 DEF SnapshotsInTurn, PollInTurn, Underway
<1>6. paid = 0 /\ used = 0 /\ now = 0 /\ polls = 0 /\ outrun = FALSE
  BY DEF UsageInit
<1> QED
  <2>1. /\ paid \in 0..MaxPaid /\ used \in 0..MaxUsed /\ now \in 0..MaxTime /\ polls \in 0..MaxPolls
        /\ used <= Deposited + paid
    BY <1>6, UsageBounds
  <2>2. outrun \in BOOLEAN
    BY <1>6
  <2> QED
    BY <1>2, <1>3, <1>4, <1>5, <2>1, <2>2 DEF UsageInvariant

-----------------------------------------------------------------------------
(* The account and the clock go on.                                        *)

LEMMA MoreIsPaid ==
  ASSUME UsageInvariant, UNCHANGED <<snapshots, poll, polls, panel, outrun>>,
         paid' \in 0..MaxPaid, used' \in 0..MaxUsed, now' \in 0..MaxTime,
         paid <= paid', used <= used', now <= now', used' <= Deposited + paid',
         \A p \in Polls : poll[p].step = "idle" \/ now' <= poll[p].began + 1
  PROVE  UsageInvariant'
<1>1. paid \in Int /\ used \in Int /\ now \in Int /\ paid' \in Int /\ used' \in Int /\ now' \in Int
  BY UsageBounds DEF UsageInvariant
<1>2. ASSUME NEW i \in DOMAIN snapshots PROVE Sampled(snapshots[i])'
  <2>1. Sampled(snapshots[i]) /\ snapshots[i].used \in Int /\ snapshots[i].at \in Int /\ PaidAt(snapshots[i]) \in Int
    BY SnapshotIs DEF UsageInvariant
  <2>2. PaidAt(snapshots[i])' = PaidAt(snapshots[i])
    BY DEF PaidAt
  <2> QED
    BY <1>1, <2>1, <2>2 DEF Sampled
<1>3. ASSUME NEW p \in Polls PROVE Underway(poll[p])'
  <2>1. Underway(poll[p]) /\ poll[p] \in PollRecords(Len(snapshots))
    BY DEF UsageInvariant
  <2>2. poll[p].used \in Int /\ poll[p].began \in Int /\ (poll[p].step # "idle" => PaidAt(poll[p]) \in Int)
    BY <2>1, UsageBounds DEF PollRecords, Underway
  <2>3. PaidAt(poll[p])' = PaidAt(poll[p])
    BY DEF PaidAt
  <2> QED
    BY <1>1, <2>1, <2>2, <2>3 DEF Underway
<1>4. Shown(panel)'
  <2>1. Shown(panel) /\ Deposits(panel)' = Deposits(panel)
    BY DEF UsageInvariant, Deposits
  <2>2. paid <= paid' /\ panel' = panel /\ snapshots' = snapshots /\ outrun' = outrun
    OBVIOUS
  <2>3. ~outrun => Deposits(panel)' \in Int /\ Deposits(panel)' <= paid'
    BY <1>1, <2>1 DEF Shown
  <2> QED
    BY <2>1, <2>2, <2>3 DEF Shown
<1>5. ASSUME ~outrun' PROVE SnapshotsInTurn' /\ \A p \in Polls : PollInTurn(poll[p])'
  <2>1. ~outrun /\ SnapshotsInTurn /\ \A p \in Polls : PollInTurn(poll[p])
    BY <1>5 DEF UsageInvariant
  <2>2. SnapshotsInTurn'
    BY <2>1 DEF SnapshotsInTurn, Follows, PaidAt
  <2>3. ASSUME NEW p \in Polls PROVE PollInTurn(poll[p])'
    <3>1. PollInTurn(poll[p])
      BY <2>1
    <3>2. ASSUME snapshots # << >> PROVE Len(snapshots) \in DOMAIN snapshots /\ snapshots[Len(snapshots)].at \in Int
      <4>1. Len(snapshots) \in DOMAIN snapshots
        BY <3>2 DEF UsageInvariant
      <4> QED
        BY <4>1, SnapshotIs
    <3> QED
      BY <1>1, <3>1, <3>2, UsageBounds DEF PollInTurn, Follows, PaidAt
  <2> QED
    BY <2>2, <2>3
<1> QED
  BY <1>2, <1>3, <1>4, <1>5 DEF UsageInvariant

LEMMA AccountMoves == UsageInvariant /\ (Spend \/ TopUp \/ Pass) => UsageInvariant'
<1> SUFFICES ASSUME UsageInvariant, Spend \/ TopUp \/ Pass PROVE UsageInvariant'
  OBVIOUS
<1>1. /\ paid \in 0..MaxPaid /\ used \in 0..MaxUsed /\ now \in 0..MaxTime /\ used <= Deposited + paid
      /\ \A p \in Polls : poll[p].step # "idle" => now <= poll[p].began + 1
  BY DEF UsageInvariant, Underway
<1>2. UNCHANGED <<snapshots, poll, polls, panel, outrun>>
  BY DEF Spend, TopUp, Pass
<1>3. CASE Spend
  <2>1. paid' = paid /\ now' = now /\ used' = used + 1 /\ used < MaxUsed /\ Deposited + paid - used > 0
    BY <1>3 DEF Spend, Balance
  <2>2. used' \in 0..MaxUsed /\ used <= used' /\ used' <= Deposited + paid' /\ paid <= paid' /\ now <= now'
    BY <1>1, <2>1, UsageBounds
  <2> QED
    BY <1>1, <1>2, <2>1, <2>2, MoreIsPaid
<1>4. CASE TopUp
  <2>1. paid' = paid + 1 /\ now' = now /\ used' = used /\ paid < MaxPaid
    BY <1>4 DEF TopUp
  <2>2. paid' \in 0..MaxPaid /\ used <= used' /\ used' <= Deposited + paid' /\ paid <= paid' /\ now <= now'
    BY <1>1, <2>1, UsageBounds
  <2> QED
    BY <1>1, <1>2, <2>1, <2>2, MoreIsPaid
<1>5. CASE Pass
  <2>1. /\ paid' = paid /\ now' = now + 1 /\ used' = used /\ now < MaxTime
        /\ \A p \in Polls : poll[p].step = "idle" \/ poll[p].began = now
    BY <1>5 DEF Pass
  <2>2. /\ now' \in 0..MaxTime /\ used <= used' /\ used' <= Deposited + paid' /\ paid <= paid' /\ now <= now'
        /\ \A p \in Polls : poll[p].step = "idle" \/ now' <= poll[p].began + 1
    BY <1>1, <2>1, UsageBounds
  <2> QED
    BY <1>1, <1>2, <2>1, <2>2, MoreIsPaid
<1> QED
  BY <1>3, <1>4, <1>5

-----------------------------------------------------------------------------
(* A poll moves.                                                           *)

\* What one poll knows changes, while nothing is stored.
LEMMA PollMoves ==
  ASSUME UsageInvariant, NEW p \in Polls, NEW to \in PollRecords(Len(snapshots)),
         UNCHANGED <<paid, used, now, snapshots, outrun>>, polls' \in 0..MaxPolls,
         poll' = [poll EXCEPT ![p] = to], Underway(to), ~outrun => PollInTurn(to), Shown(panel)'
  PROVE  UsageInvariant'
<1>1. poll' \in [Polls -> PollRecords(Len(snapshots))] /\ \A q \in Polls : poll'[q] = IF q = p THEN to ELSE poll[q]
  BY DEF UsageInvariant
<1>2. ASSUME NEW q PROVE (Underway(q) => Underway(q)') /\ (PollInTurn(q) => PollInTurn(q)')
  BY DEF Underway, PollInTurn, PaidAt, Follows
<1>3. \A q \in Polls : Underway(poll'[q]) /\ (~outrun => PollInTurn(poll'[q]))
  BY <1>1 DEF UsageInvariant
<1>4. ASSUME NEW q \in Polls PROVE Underway(poll[q])' /\ (~outrun => PollInTurn(poll[q])')
  BY <1>1, <1>3 DEF Underway, PollInTurn, PaidAt, Follows
<1>5. \A i \in DOMAIN snapshots : Sampled(snapshots[i])'
  BY DEF UsageInvariant, Sampled, PaidAt
<1>6. SnapshotsInTurn => SnapshotsInTurn'
  BY DEF SnapshotsInTurn, PaidAt, Follows
<1> QED
  BY <1>1, <1>4, <1>5, <1>6 DEF UsageInvariant

LEMMA PollIs ==
  ASSUME UsageInvariant, NEW p \in Polls
  PROVE  /\ poll[p] \in PollRecords(Len(snapshots)) /\ Underway(poll[p]) /\ (~outrun => PollInTurn(poll[p]))
         /\ poll[p].used \in Int /\ poll[p].began \in Int /\ poll[p].before \in 0..Len(snapshots)
         /\ Len(snapshots) \in Nat
<1>1. poll[p] \in PollRecords(Len(snapshots)) /\ Underway(poll[p]) /\ (~outrun => PollInTurn(poll[p]))
      /\ Len(snapshots) \in Nat
  BY DEF UsageInvariant
<1> QED
  BY <1>1, UsageBounds DEF PollRecords

LEMMA SamePanel ==
  ASSUME UsageInvariant, UNCHANGED <<paid, snapshots, panel, outrun>> PROVE Shown(panel)'
<1>1. Shown(panel) /\ Deposits(panel)' = Deposits(panel)
  BY DEF UsageInvariant, Deposits
<1> QED
  BY <1>1 DEF Shown

LEMMA BalanceAsked == ASSUME UsageInvariant, NEW p \in Polls, FetchMetaApiBalance(p) PROVE UsageInvariant'
<1> DEFINE to == [step |-> "latest", amount |-> Balance, used |-> used, began |-> now, before |-> Len(snapshots)]
<1>1. /\ paid \in 0..MaxPaid /\ used \in 0..MaxUsed /\ now \in 0..MaxTime /\ polls \in 0..MaxPolls
      /\ used <= Deposited + paid /\ Len(snapshots) \in Nat
  BY DEF UsageInvariant
<1>2. /\ polls < MaxPolls /\ polls' = polls + 1 /\ poll' = [poll EXCEPT ![p] = to]
      /\ UNCHANGED <<paid, used, now, snapshots, panel, outrun>>
  BY DEF FetchMetaApiBalance
<1>3. polls' \in 0..MaxPolls
  BY <1>1, <1>2, UsageBounds
<1>4. Balance \in Amounts /\ Balance = Deposited + paid - used
  BY <1>1, UsageBounds DEF Balance, Amounts
<1>5. to \in PollRecords(Len(snapshots))
  BY <1>1, <1>4 DEF PollRecords
<1>6. to.step = "latest" /\ to.amount = Balance /\ to.used = used /\ to.began = now /\ to.before = Len(snapshots)
  OBVIOUS
<1> HIDE DEF to
<1>7. PaidAt(to) = paid
  BY <1>1, <1>4, <1>6, UsageBounds DEF PaidAt
<1>8. Underway(to)
  <2>1. to.before = 0 => snapshots = << >>
    <3>1. snapshots \in Seq(Snapshot)
      BY DEF UsageInvariant
    <3>2. Len(snapshots) = 0 => snapshots = << >>
      BY <3>1
    <3> QED
      BY <1>6, <3>2
  <2> QED
    BY <1>1, <1>4, <1>6, <1>7, <2>1, UsageBounds DEF Underway
<1>9. PollInTurn(to)
  <2>1. \A i \in DOMAIN snapshots : Sampled(snapshots[i])
    BY DEF UsageInvariant
  <2> QED
    BY <1>1, <1>6, <1>7, <2>1, SnapshotIs DEF PollInTurn, Follows, Sampled
<1>10. Shown(panel)'
  BY <1>2, SamePanel
<1> QED
  BY <1>2, <1>3, <1>5, <1>8, <1>9, <1>10, PollMoves

\* The step of a poll changes.
LEMMA StepTo ==
  ASSUME UsageInvariant, NEW p \in Polls, poll[p].step # "idle", NEW step \in {"answer", "record"}
  PROVE  LET to == [poll[p] EXCEPT !.step = step]
         IN  /\ to \in PollRecords(Len(snapshots)) /\ to.step = step /\ to.amount = poll[p].amount
             /\ to.used = poll[p].used /\ to.began = poll[p].began /\ to.before = poll[p].before
             /\ PaidAt(to) = PaidAt(poll[p])
<1>1. poll[p] \in PollRecords(Len(snapshots))
  BY PollIs
<1> QED
  BY <1>1 DEF PollRecords, PaidAt

LEMMA LatestRead == ASSUME UsageInvariant, NEW p \in Polls, ReadLatest(p) PROVE UsageInvariant'
<1> DEFINE young == snapshots # << >> /\ now - Last(snapshots).at < MinGap
           step == IF young THEN "answer" ELSE "record"
           to == [poll[p] EXCEPT !.step = step]
<1>1. /\ poll[p].step = "latest" /\ poll' = [poll EXCEPT ![p] = to]
      /\ UNCHANGED <<paid, used, now, snapshots, polls, panel, outrun>>
  BY DEF ReadLatest, Polled
<1>2. step \in {"answer", "record"} /\ (step = "answer" => snapshots # << >>)
      /\ (step = "record" /\ snapshots # << >> => ~(now - snapshots[Len(snapshots)].at < MinGap))
  BY DEF Last
<1> HIDE DEF step
<1>3. /\ to \in PollRecords(Len(snapshots)) /\ to.step = step /\ to.amount = poll[p].amount
      /\ to.used = poll[p].used /\ to.began = poll[p].began /\ to.before = poll[p].before
      /\ PaidAt(to) = PaidAt(poll[p])
  BY <1>1, <1>2, StepTo
<1> HIDE DEF to
<1>4. Underway(to)
  BY <1>1, <1>2, <1>3, PollIs DEF Underway
<1>5. ASSUME ~outrun PROVE PollInTurn(to)
  <2>1. PollInTurn(poll[p])
    BY <1>5, PollIs
  <2>2. ASSUME snapshots # << >> PROVE snapshots[Len(snapshots)].at \in Int
    <3>1. Len(snapshots) \in DOMAIN snapshots
      BY <2>2 DEF UsageInvariant
    <3> QED
      BY <3>1, SnapshotIs
  <2>3. step = "record" /\ snapshots # << >> => now - snapshots[Len(snapshots)].at >= MinGap
    <3>1. now \in Int
      BY UsageBounds DEF UsageInvariant
    <3> QED
      BY <1>2, <2>2, <3>1, UsageBounds
  <2> QED
    BY <1>1, <1>3, <2>1, <2>3 DEF PollInTurn, Follows
<1>6. Shown(panel)' /\ polls' \in 0..MaxPolls
  BY <1>1, SamePanel DEF UsageInvariant
<1> QED
  BY <1>1, <1>3, <1>4, <1>5, <1>6, PollMoves

LEMMA NoPollIs ==
  ASSUME UsageInvariant
  PROVE  NoPoll \in PollRecords(Len(snapshots)) /\ Underway(NoPoll) /\ PollInTurn(NoPoll)
<1>1. Len(snapshots) \in Nat /\ NoPoll.step = "idle"
  BY DEF UsageInvariant, NoPoll
<1>2. NoPoll \in PollRecords(Len(snapshots))
  BY <1>1, UsageBounds DEF NoPoll, PollRecords
<1> QED
  BY <1>1, <1>2 DEF Underway, PollInTurn

LEMMA PollDropped == ASSUME UsageInvariant, NEW p \in Polls, DroppedPoll(p) PROVE UsageInvariant'
<1>1. poll' = [poll EXCEPT ![p] = NoPoll] /\ UNCHANGED <<paid, used, now, snapshots, polls, panel, outrun>>
  BY DEF DroppedPoll
<1>2. Shown(panel)' /\ polls' \in 0..MaxPolls
  BY <1>1, SamePanel DEF UsageInvariant
<1> QED
  BY <1>1, <1>2, NoPollIs, PollMoves

-----------------------------------------------------------------------------
(* A snapshot is stored.                                                   *)

LEMMA SnapshotStored == ASSUME UsageInvariant, NEW p \in Polls, RecordSnapshot(p) PROVE UsageInvariant'
<1> DEFINE new == [amount |-> poll[p].amount, at |-> now, used |-> poll[p].used]
           to == [poll[p] EXCEPT !.step = "answer"]
           n == Len(snapshots)
<1>1. /\ poll[p].step = "record" /\ poll' = [poll EXCEPT ![p] = to] /\ snapshots' = Append(snapshots, new)
      /\ outrun' = (outrun \/ n # poll[p].before) /\ UNCHANGED <<paid, used, now, polls, panel>>
  BY DEF RecordSnapshot, Polled
<1>2. /\ poll[p] \in PollRecords(n) /\ Underway(poll[p]) /\ (~outrun => PollInTurn(poll[p]))
      /\ poll[p].used \in Int /\ poll[p].began \in Int /\ poll[p].before \in 0..n /\ n \in Nat
  BY PollIs
<1>3. /\ poll[p].amount \in Amounts /\ PaidAt(poll[p]) \in 0..paid /\ poll[p].used <= used
      /\ poll[p].began <= now /\ now <= poll[p].began + 1
  BY <1>1, <1>2 DEF Underway
<1>4. /\ paid \in 0..MaxPaid /\ used \in 0..MaxUsed /\ now \in 0..MaxTime /\ paid \in Int /\ now \in Int
  BY UsageBounds DEF UsageInvariant
<1>5. new \in Snapshot /\ new.amount = poll[p].amount /\ new.at = now /\ new.used = poll[p].used
  BY <1>2, <1>3, <1>4 DEF Snapshot, PollRecords
<1>6. PaidAt(new) = PaidAt(poll[p])
  BY <1>5 DEF PaidAt
<1> HIDE DEF new
<1>7. /\ snapshots \in Seq(Snapshot) /\ snapshots' \in Seq(Snapshot) /\ Len(snapshots') = n + 1
      /\ DOMAIN snapshots' = 1..(n + 1) /\ DOMAIN snapshots = 1..n
      /\ snapshots'[n + 1] = new /\ \A i \in 1..n : snapshots'[i] = snapshots[i]
  <2>1. snapshots \in Seq(Snapshot)
    BY DEF UsageInvariant
  <2> QED
    BY <1>1, <1>5, <2>1
<1>8. snapshots' # << >> /\ (n = 0 => snapshots'[1] = new) /\ (snapshots # << >> => n > 0 /\ snapshots'[1] = snapshots[1])
  <2>1. snapshots # << >> => n > 0
    BY <1>7
  <2>2. snapshots' # << >>
    BY <1>2, <1>7
  <2> QED
    BY <1>2, <1>7, <2>1, <2>2
<1>9. /\ to \in PollRecords(n) /\ to.step = "answer" /\ to.amount = poll[p].amount
      /\ to.used = poll[p].used /\ to.began = poll[p].began /\ to.before = poll[p].before
      /\ PaidAt(to) = PaidAt(poll[p])
  <2>1. \E step \in {"answer", "record"} : step = "answer"
    OBVIOUS
  <2> QED
    BY <1>1, <2>1, StepTo
<1> HIDE DEF to
<1>10. \A q \in Polls : /\ poll'[q] = IF q = p THEN to ELSE poll[q]
                        /\ poll'[q].before \in 0..n /\ poll'[q] \in PollRecords(n + 1)
  <2>1. poll \in [Polls -> PollRecords(n)]
    BY DEF UsageInvariant
  <2>2. \A q \in Polls : poll'[q] = IF q = p THEN to ELSE poll[q]
    BY <1>1, <2>1
  <2>3. \A q \in PollRecords(n) : q.before \in 0..n /\ q \in PollRecords(n + 1)
    <3>1. 0..n \subseteq 0..(n + 1)
      BY <1>2
    <3> HIDE DEF n
    <3> QED
      BY <3>1 DEF PollRecords
  <2> QED
    BY <1>9, <2>1, <2>2, <2>3
<1>11. poll' \in [Polls -> PollRecords(n + 1)]
  <2>1. poll' \in [Polls -> PollRecords(n)]
    BY <1>1, <1>9 DEF UsageInvariant
  <2> QED
    BY <1>10, <2>1
<1>12. ASSUME NEW i \in 1..(n + 1) PROVE Sampled(snapshots[i])'
  <2>1. CASE i = n + 1
    BY <1>1, <1>3, <1>4, <1>5, <1>6, <1>7, <2>1 DEF Sampled, PaidAt
  <2>2. CASE i \in 1..n
    <3>1. Sampled(snapshots[i])
      BY <1>7, <2>2 DEF UsageInvariant
    <3> QED
      BY <1>1, <1>7, <2>2, <3>1 DEF Sampled, PaidAt
  <2> QED
    BY <1>2, <2>1, <2>2
<1>13. ASSUME NEW q \in Polls PROVE Underway(poll[q])'
  <2>1. Underway(poll[q]) /\ poll[q].began \in Int
    BY PollIs
  <2>2. CASE q = p
    <3>1. poll'[q] = to
      BY <1>10, <2>2
    <3>2. poll[p].before = 0 => snapshots'[1].at >= poll[p].began
      <4>1. CASE n = 0
        BY <1>3, <1>5, <1>8, <4>1
      <4>2. CASE n > 0
        <5>1. snapshots # << >>
          BY <1>7, <4>2
        <5> QED
          BY <1>1, <1>2, <1>8, <5>1 DEF Underway
      <4> QED
        BY <1>2, <4>1, <4>2
    <3>3. PaidAt(poll[q])' = PaidAt(to)
      BY <3>1 DEF PaidAt
    <3> QED
      BY <1>1, <1>3, <1>8, <1>9, <3>1, <3>2, <3>3 DEF Underway
  <2>3. CASE q # p
    <3>1. poll'[q] = poll[q]
      BY <1>10, <2>3
    <3>2. CASE n = 0
      <4>1. snapshots'[1].at = now
        BY <1>5, <1>8, <3>2
      <4> QED
        BY <1>1, <1>4, <1>8, <2>1, <3>1, <4>1 DEF Underway, PaidAt
    <3>3. CASE n > 0
      <4>1. snapshots # << >>
        BY <1>7, <3>3
      <4> QED
        BY <1>1, <1>8, <2>1, <3>1, <4>1 DEF Underway, PaidAt
    <3> QED
      BY <1>2, <3>2, <3>3
  <2> QED
    BY <2>2, <2>3
<1>14. Shown(panel)'
  <2>1. Shown(panel) /\ Deposits(panel)' = Deposits(panel)
    BY <1>1 DEF UsageInvariant, Deposits
  <2> QED
    BY <1>1, <1>8, <2>1 DEF Shown
<1>15. ASSUME ~outrun' PROVE SnapshotsInTurn' /\ \A q \in Polls : PollInTurn(poll[q])'
  <2>1. ~outrun /\ n = poll[p].before /\ SnapshotsInTurn /\ PollInTurn(poll[p])
    BY <1>1, <1>2, <1>15 DEF UsageInvariant
  <2>2. \A i \in 1..n : Follows(snapshots[i], new)
    BY <1>1, <1>5, <1>6, <1>7, <2>1 DEF PollInTurn, Follows
  <2>3. Follows(new, new)
    BY <1>2, <1>3, <1>4, <1>5, <1>6 DEF Follows
  <2>4. \A i, j \in 1..(n + 1) : i <= j => Follows(snapshots'[i], snapshots'[j])
    <3> SUFFICES ASSUME NEW i \in 1..(n + 1), NEW j \in 1..(n + 1), i <= j PROVE Follows(snapshots'[i], snapshots'[j])
      OBVIOUS
    <3>1. CASE j = n + 1
      <4>1. CASE i = n + 1
        BY <1>7, <2>3, <3>1, <4>1
      <4>2. CASE i \in 1..n
        BY <1>7, <2>2, <3>1, <4>2
      <4> QED
        BY <1>2, <4>1, <4>2
    <3>2. CASE j \in 1..n
      <4>1. i \in 1..n
        BY <1>2, <3>2
      <4> QED
        BY <1>7, <2>1, <3>2, <4>1 DEF SnapshotsInTurn
    <3> QED
      BY <1>2, <3>1, <3>2
  <2>5. \A i \in 1..n : snapshots'[i + 1].at - snapshots'[i].at >= MinGap
    <3> SUFFICES ASSUME NEW i \in 1..n PROVE snapshots'[i + 1].at - snapshots'[i].at >= MinGap
      OBVIOUS
    <3>1. CASE i = n
      <4>1. snapshots # << >> /\ i + 1 = n + 1
        BY <1>7, <3>1
      <4>2. now - snapshots[n].at >= MinGap
        BY <1>1, <2>1, <4>1 DEF PollInTurn
      <4> QED
        BY <1>5, <1>7, <3>1, <4>2
    <3>2. CASE i \in 1..(n - 1)
      <4>1. i + 1 \in 1..n
        BY <1>2, <3>2
      <4> QED
        BY <1>7, <2>1, <3>2, <4>1 DEF SnapshotsInTurn
    <3> QED
      BY <1>2, <3>1, <3>2
  <2>6. SnapshotsInTurn'
    <3>1. \A i, j \in DOMAIN snapshots' : i <= j => Follows(snapshots[i], snapshots[j])'
      BY <1>7, <2>4 DEF Follows, PaidAt
    <3>2. 1..(Len(snapshots') - 1) = 1..n
      BY <1>2, <1>7
    <3> QED
      BY <2>5, <3>1, <3>2 DEF SnapshotsInTurn
  <2>7. ASSUME NEW q \in Polls PROVE PollInTurn(poll[q])'
    <3>1. PollInTurn(poll[q])
      BY <2>1 DEF UsageInvariant
    <3>2. poll'[q].before \in 0..n /\ Len(snapshots') # poll'[q].before
      BY <1>2, <1>7, <1>10
    <3>3. ASSUME NEW i \in 1..(n + 1), poll'[q].step # "idle", i <= poll'[q].before
          PROVE  Follows(snapshots[i], poll[q])'
      <4>1. i \in 1..n /\ snapshots'[i] = snapshots[i]
        BY <1>2, <1>7, <3>2, <3>3
      <4>2. poll[q].step # "idle" /\ poll'[q].before = poll[q].before
        BY <1>1, <1>9, <1>10, <3>3
      <4>3. Follows(snapshots[i], poll[q])
        BY <1>7, <3>1, <3>3, <4>1, <4>2 DEF PollInTurn
      <4>4. PaidAt(poll[q])' = PaidAt(poll[q]) /\ poll'[q].used = poll[q].used
        BY <1>9, <1>10 DEF PaidAt
      <4>5. PaidAt(snapshots[i])' = PaidAt(snapshots[i])
        BY <4>1 DEF PaidAt
      <4> QED
        BY <4>1, <4>3, <4>4, <4>5 DEF Follows
    <3> QED
      BY <1>7, <3>2, <3>3 DEF PollInTurn
  <2> QED
    BY <2>6, <2>7
<1>16. used' <= Deposited + paid' /\ polls' \in 0..MaxPolls /\ outrun' \in BOOLEAN
  BY <1>1 DEF UsageInvariant
<1> QED
  BY <1>1, <1>4, <1>7, <1>11, <1>12, <1>13, <1>14, <1>15, <1>16 DEF UsageInvariant

-----------------------------------------------------------------------------
(* Figures are shown.                                                      *)

\* Each unit that was paid in is seen in one rise at most.
LEMMA FundingIsPaid ==
  ASSUME UsageInvariant, NEW f, f.funding = FundingHistory
  PROVE  /\ Cardinality(DOMAIN f.funding) <= Listed
         /\ ~outrun => Deposits(f) \in Int /\ Deposits(f) <= paid
<1> DEFINE n == Len(snapshots)
           D == {rise \in Rises : Cardinality({later \in Rises : later > rise}) < Listed}
           g == [i \in D |-> snapshots[i + 1].amount - snapshots[i].amount]
<1>1. n \in Nat /\ DOMAIN snapshots = 1..n /\ paid \in Nat
  BY UsageBounds DEF UsageInvariant
<1>2. f.funding = [i \in D |-> [amount |-> snapshots[i + 1].amount - snapshots[i].amount,
                               after |-> snapshots[i + 1].amount]]
  BY DEF FundingHistory
<1>3. DOMAIN f.funding = D
  BY <1>2
<1>4. Rises \in SUBSET (1..(n - 1))
  BY DEF Rises
<1>5. \A i \in 1..(n - 1) : i \in DOMAIN snapshots /\ i + 1 \in DOMAIN snapshots
  BY <1>1
<1>6. Cardinality(D) <= Listed
  <2>1. CASE n = 0
    <3>1. Rises \in SUBSET (1..0)
      BY <1>4, <2>1
    <3> QED
      BY <3>1, FewLatest, UsageBounds
  <2>2. CASE n > 0
    <3>1. n - 1 \in Nat
      BY <1>1, <2>2
    <3> QED
      BY <1>4, <3>1, FewLatest, UsageBounds
  <2> QED
    BY <1>1, <2>1, <2>2
<1>7. ASSUME ~outrun PROVE Deposits(f) \in Int /\ Deposits(f) <= paid
  <2>1. [i \in DOMAIN f.funding |-> f.funding[i].amount] = g
    BY <1>2, <1>3
  <2>2. Deposits(f) = Total(g, D)
    <3>1. DOMAIN g = D
      OBVIOUS
    <3> HIDE DEF g
    <3> QED
      BY <2>1, <3>1 DEF Deposits, Total, SumFunction
  <2> DEFINE lo == [i \in D |-> PaidAt(snapshots[i])]
             hi == [i \in D |-> PaidAt(snapshots[i + 1])]
  <2>3. IsFiniteSet(D) /\ D \subseteq 1..(n - 1)
    <3>1. D \in SUBSET (1..(n - 1))
      BY <1>4
    <3>2. IsFiniteSet(1..(n - 1))
      BY <1>1, FS_Interval
    <3> HIDE DEF D
    <3> QED
      BY <3>1, <3>2, FS_Subset
  <2> HIDE DEF D
  <2>4. SnapshotsInTurn
    BY <1>7 DEF UsageInvariant
  <2>5. \A i, j \in 1..n : i <= j => Follows(snapshots[i], snapshots[j])
    BY <1>1, <2>4 DEF SnapshotsInTurn
  <2>6. \A i \in D : /\ lo[i] \in 0..paid /\ hi[i] \in 0..paid /\ lo[i] <= hi[i]
                     /\ g[i] \in Int /\ g[i] <= hi[i] - lo[i]
    <3> SUFFICES ASSUME NEW i \in D
                 PROVE  /\ lo[i] \in 0..paid /\ hi[i] \in 0..paid /\ lo[i] <= hi[i]
                        /\ g[i] \in Int /\ g[i] <= hi[i] - lo[i]
      OBVIOUS
    <3>1. i \in DOMAIN snapshots /\ i + 1 \in DOMAIN snapshots /\ i \in Int
      BY <1>5, <2>3
    <3>2. Sampled(snapshots[i]) /\ Sampled(snapshots[i + 1])
      BY <3>1 DEF UsageInvariant
    <3>3. Follows(snapshots[i], snapshots[i + 1])
      BY <1>1, <2>5, <3>1
    <3>4. /\ snapshots[i].amount = PaidAt(snapshots[i]) - snapshots[i].used + Deposited
          /\ snapshots[i + 1].amount = PaidAt(snapshots[i + 1]) - snapshots[i + 1].used + Deposited
          /\ snapshots[i].used \in Int /\ snapshots[i + 1].used \in Int
          /\ PaidAt(snapshots[i]) \in Int /\ PaidAt(snapshots[i + 1]) \in Int
      BY <3>1, SnapshotIs
    <3> QED
      BY <3>2, <3>3, <3>4, UsageBounds DEF Sampled, Follows
  <2>7. \A i, j \in D : i # j => hi[i] <= lo[j] \/ hi[j] <= lo[i]
    <3> SUFFICES ASSUME NEW i \in D, NEW j \in D, i # j PROVE hi[i] <= lo[j] \/ hi[j] <= lo[i]
      OBVIOUS
    <3>1. i \in 1..(n - 1) /\ j \in 1..(n - 1)
      BY <2>3
    <3>2. i + 1 <= j \/ j + 1 <= i
      BY <1>1, <3>1
    <3>3. i \in 1..n /\ j \in 1..n /\ i + 1 \in 1..n /\ j + 1 \in 1..n
      BY <1>1, <3>1
    <3> QED
      BY <2>5, <3>2, <3>3 DEF Follows
  <2> HIDE DEF g, lo, hi
  <2>8. Total(g, D) \in Int /\ Total(g, D) <= paid
    BY <1>1, <2>3, <2>6, <2>7, SpansFit
  <2> QED
    BY <2>2, <2>8
<1> HIDE DEF D
<1> QED
  BY <1>3, <1>6, <1>7

\* What is gone since the oldest snapshot was used since then: it was read before.
LEMMA SpentIsUsed ==
  ASSUME UsageInvariant, NEW p \in Polls, poll[p].step = "answer"
  PROVE  LET spent == MeasureBurn(poll[p].amount)
         IN  /\ spent \in Amounts
             /\ spent > 0 /\ ~outrun => spent <= poll[p].used - snapshots[1].used
<1>1. /\ snapshots # << >> /\ poll[p].amount \in Amounts /\ poll[p].began \in Int /\ poll[p].used \in Int
      /\ now <= poll[p].began + 1 /\ poll[p].before \in Nat
      /\ poll[p].before = 0 => snapshots[1].at >= poll[p].began
  <2>1. poll[p].before \in Nat
    BY PollIs
  <2> QED
    BY <2>1, PollIs DEF Underway
<1>2. 1 \in DOMAIN snapshots /\ Head(snapshots) = snapshots[1] /\ now \in Int
  BY <1>1, UsageBounds DEF UsageInvariant
<1>3. /\ snapshots[1] \in Snapshot /\ snapshots[1].amount \in Int /\ snapshots[1].at \in Int
      /\ snapshots[1].used \in Int /\ PaidAt(snapshots[1]) \in Int
      /\ snapshots[1].amount = PaidAt(snapshots[1]) - snapshots[1].used + Deposited
  BY <1>2, SnapshotIs
<1>4. poll[p].amount \in Int /\ 0 \in Amounts
  BY <1>1, UsageBounds DEF Amounts
<1>5. MeasureBurn(poll[p].amount) =
        IF now - snapshots[1].at >= MinWindow /\ snapshots[1].amount > poll[p].amount
        THEN snapshots[1].amount - poll[p].amount ELSE 0
  BY <1>2 DEF MeasureBurn, Elapsed
<1>6. MeasureBurn(poll[p].amount) \in Amounts
  <2>1. snapshots[1].amount \in Amounts
    BY <1>3 DEF Snapshot
  <2>2. \A a, b \in Amounts : a > b => a - b \in Amounts
    BY UsageBounds DEF Amounts
  <2> QED
    BY <1>1, <1>4, <1>5, <2>1, <2>2
<1>7. ASSUME MeasureBurn(poll[p].amount) > 0, ~outrun
      PROVE  MeasureBurn(poll[p].amount) <= poll[p].used - snapshots[1].used
  <2>1. now - snapshots[1].at >= MinWindow /\ MeasureBurn(poll[p].amount) = snapshots[1].amount - poll[p].amount
    BY <1>5, <1>7
  <2>2. 1 <= poll[p].before
    <3>1. poll[p].before # 0
      BY <1>1, <1>2, <1>3, <2>1, UsageBounds
    <3> QED
      BY <1>1, <3>1
  <2>3. Follows(snapshots[1], poll[p])
    BY <1>2, <1>7, <2>2, PollIs DEF PollInTurn
  <2>4. snapshots[1].amount + snapshots[1].used - Deposited <= poll[p].amount + poll[p].used - Deposited
    BY <2>3 DEF Follows, PaidAt
  <2>5. snapshots[1].amount - poll[p].amount <= poll[p].used - snapshots[1].used
    <3>1. \A a, b, c, d, e \in Int : a + b - e <= c + d - e => a - c <= d - b
      OBVIOUS
    <3>2. Deposited \in Int
      BY UsageBounds
    <3> QED
      BY <1>1, <1>3, <1>4, <2>4, <3>1, <3>2
  <2> QED
    BY <2>1, <2>5
<1> QED
  BY <1>6, <1>7

LEMMA LowIs == ASSUME NEW amount PROVE LowUsage(amount) \in BOOLEAN
BY DEF LowUsage

LEMMA PollAnswered == ASSUME UsageInvariant, NEW p \in Polls, AnswerPoll(p) PROVE UsageInvariant'
<1> DEFINE f == [amount |-> poll[p].amount, used |-> poll[p].used, spent |-> MeasureBurn(poll[p].amount),
                 low |-> LowUsage(poll[p].amount), funding |-> FundingHistory]
<1>1. /\ poll[p].step = "answer" /\ panel' = f /\ poll' = [poll EXCEPT ![p] = NoPoll]
      /\ UNCHANGED <<paid, used, now, snapshots, polls, outrun>>
  BY DEF AnswerPoll
<1>2. /\ f.amount = poll[p].amount /\ f.used = poll[p].used /\ f.spent = MeasureBurn(poll[p].amount)
      /\ f.low = LowUsage(poll[p].amount) /\ f.funding = FundingHistory
  OBVIOUS
<1> HIDE DEF f
<1>3. f.low \in BOOLEAN
  BY <1>2, LowIs
<1>4. f.amount \in Amounts /\ snapshots # << >>
  BY <1>1, <1>2, PollIs DEF Underway
<1>5. /\ f.spent \in Amounts
      /\ f.spent > 0 /\ ~outrun => f.spent <= f.used - snapshots[1].used
  BY <1>1, <1>2, SpentIsUsed
<1>6. Shown(f)
  BY <1>2, <1>3, <1>4, <1>5, FundingIsPaid DEF Shown
<1>7. Shown(panel)'
  <2>1. Deposits(panel)' = Deposits(f)
    BY <1>1 DEF Deposits
  <2> QED
    BY <1>1, <1>6, <2>1 DEF Shown
<1>8. polls' \in 0..MaxPolls
  BY <1>1 DEF UsageInvariant
<1> QED
  BY <1>1, <1>7, <1>8, NoPollIs, PollMoves

LEMMA BalanceErrorShown == UsageInvariant /\ BalanceError => UsageInvariant'
<1> SUFFICES ASSUME UsageInvariant, BalanceError PROVE UsageInvariant'
  OBVIOUS
<1> DEFINE f == [NoFigures EXCEPT !.funding = FundingHistory]
<1>1. /\ polls < MaxPolls /\ polls' = polls + 1 /\ panel' = f
      /\ UNCHANGED <<paid, used, now, snapshots, poll, outrun>>
  BY DEF BalanceError
<1>2. f.amount = NoAmount /\ f.spent = 0 /\ f.low = FALSE /\ f.funding = FundingHistory
  BY DEF NoFigures
<1> HIDE DEF f
<1>3. f.spent \in Amounts /\ f.low \in BOOLEAN /\ ~(f.spent > 0)
  <2>1. 0 \in Amounts
    BY UsageBounds DEF Amounts
  <2>2. f.low \in BOOLEAN
    BY <1>2
  <2> QED
    BY <1>2, <2>1, <2>2
<1>4. Shown(f)
  BY <1>2, <1>3, FundingIsPaid DEF Shown
<1>5. Shown(panel)'
  <2>1. Deposits(panel)' = Deposits(f)
    BY <1>1 DEF Deposits
  <2> QED
    BY <1>1, <1>4, <2>1 DEF Shown
<1>6. polls' \in 0..MaxPolls
  BY <1>1, UsageBounds DEF UsageInvariant
<1>7. \A i \in DOMAIN snapshots : Sampled(snapshots[i])'
  BY <1>1 DEF UsageInvariant, Sampled, PaidAt
<1>8. \A p \in Polls : Underway(poll[p])'
  BY <1>1 DEF UsageInvariant, Underway, PaidAt
<1>9. ~outrun => SnapshotsInTurn' /\ \A p \in Polls : PollInTurn(poll[p])'
  BY <1>1 DEF UsageInvariant, SnapshotsInTurn, PollInTurn, Follows, PaidAt
<1> QED
  BY <1>1, <1>5, <1>6, <1>7, <1>8, <1>9 DEF UsageInvariant

LEMMA UsageStill == UsageInvariant /\ UNCHANGED uvars => UsageInvariant'
<1> SUFFICES ASSUME UsageInvariant, UNCHANGED uvars PROVE UsageInvariant'
  OBVIOUS
<1>1. UNCHANGED <<paid, used, now, snapshots, poll, polls, panel, outrun>>
  BY DEF uvars
<1>2. Shown(panel)'
  BY <1>1, SamePanel
<1>3. \A i \in DOMAIN snapshots : Sampled(snapshots[i])'
  BY <1>1 DEF UsageInvariant, Sampled, PaidAt
<1>4. \A p \in Polls : Underway(poll[p])'
  BY <1>1 DEF UsageInvariant, Underway, PaidAt
<1>5. ~outrun => SnapshotsInTurn' /\ \A p \in Polls : PollInTurn(poll[p])'
  BY <1>1 DEF UsageInvariant, SnapshotsInTurn, PollInTurn, Follows, PaidAt
<1> QED
  BY <1>1, <1>2, <1>3, <1>4, <1>5 DEF UsageInvariant

LEMMA UsageGoesOn == UsageInvariant /\ UsageNext => UsageInvariant'
BY AccountMoves, BalanceErrorShown, BalanceAsked, LatestRead, SnapshotStored, PollAnswered, PollDropped
   DEF UsageNext

-----------------------------------------------------------------------------
(* The pages together.                                                     *)

PagesInvariant == FormInvariant /\ PictureInvariant /\ UsageInvariant

LEMMA PagesBegin == ConsoleInit => PagesInvariant
BY FormBegins, PictureBegins, UsageBegins DEF ConsoleInit, PagesInvariant

LEMMA PagesGoOn == PagesInvariant /\ [ConsoleNext]_<<part, vars, fvars, pvars, uvars>> => PagesInvariant'
<1> SUFFICES ASSUME PagesInvariant, [ConsoleNext]_<<part, vars, fvars, pvars, uvars>> PROVE PagesInvariant'
  OBVIOUS
<1>1. FormNext \/ UNCHANGED fvars
  BY DEF ConsoleNext
<1>2. PictureNext \/ UNCHANGED pvars
  BY DEF ConsoleNext
<1>3. UsageNext \/ UNCHANGED uvars
  BY DEF ConsoleNext
<1>4. FormInvariant'
  BY <1>1, FormGoesOn, FormStill DEF PagesInvariant
<1>5. PictureInvariant'
  BY <1>2, PictureGoesOn, PictureStill DEF PagesInvariant
<1>6. UsageInvariant'
  BY <1>3, UsageGoesOn, UsageStill DEF PagesInvariant
<1> QED
  BY <1>4, <1>5, <1>6 DEF PagesInvariant

-----------------------------------------------------------------------------
(* Theorems.                                                               *)

\* The console does what Access does, or lets the other pages move.
THEOREM ConsoleRunsAccess == ConsoleSpec => Spec
<1>1. ConsoleInit => Init
  BY DEF ConsoleInit
<1>2. [ConsoleNext]_<<part, vars, fvars, pvars, uvars>> => [Next]_vars
  BY DEF ConsoleNext
<1> QED
  BY <1>1, <1>2, PTL DEF ConsoleSpec, Spec

\* What every reachable state satisfies: the theorems below follow from it.
LEMMA AdminInvariantHolds == Spec => []AdminInvariant
<1>1. Init => AdminInvariant
  BY AdminInit
<1>2. AdminInvariant /\ [Next]_vars => AdminInvariant'
  BY AdminNext
<1> QED
  BY <1>1, <1>2, PTL DEF Spec

\* The failures counted, the links mailed and the sessions open are those the password in
\* force allows, whatever requests meet about other users (authenticate, createSession,
\* requestPasswordReset, completePasswordReset, changePassword).
THEOREM CredentialsAlwaysHold == Spec => []CredentialsHold
<1>1. AdminInvariant => CredentialsHold
  BY InvariantImpliesCredentials DEF AdminInvariant
<1> QED
  BY <1>1, AdminInvariantHolds, PTL

\* A suspended member has no session and copies nothing once the request is over
\* (updateMember, suspendMemberActivity).
THEOREM SuspensionStills == Spec => []SuspendedIsStill
<1>1. AdminInvariant => SuspendedIsStill
  BY InvariantImpliesStill DEF AdminInvariant
<1> QED
  BY <1>1, AdminInvariantHolds, PTL

\* An active administrator is left as long as requests did not meet (registerUser,
\* updateMember's assertNotLastAdmin, deleteMember's blockers).
THEOREM AdminAlwaysRemains == Spec => []AdminRemains
<1>1. AdminInvariant => AdminRemains
  BY DEF AdminInvariant, AdminRemains, Admins
<1> QED
  BY <1>1, AdminInvariantHolds, PTL

\* So it is in the console, beside the form, the picture and the bill.
THEOREM ConsoleIsGuarded == ConsoleSpec => [](CredentialsHold /\ SuspendedIsStill /\ AdminRemains)
BY ConsoleRunsAccess, CredentialsAlwaysHold, SuspensionStills, AdminAlwaysRemains, PTL

\* Every page is reached and says what is so: redirects end at a page the visitor may see, on
\* every deployment (proxy.ts, the layouts' guards, apiFetch); the form offers servers of the
\* platform chosen, in whatever order replies come (BrokerServerPicker); the picture is the one
\* stored, whoever uploads at once (setAvatar, AvatarImage); and the deposits and the spending
\* shown were made, as long as balances are stored in the order they were read (recordSnapshot,
\* measureBurn, getFundingHistory).
THEOREM PagesAreAlwaysRight == ConsoleSpec => []PagesAreRight
<1>1. ConsoleInit => PagesInvariant
  BY PagesBegin
<1>2. PagesInvariant /\ [ConsoleNext]_<<part, vars, fvars, pvars, uvars>> => PagesInvariant'
  BY PagesGoOn
<1>3. CredentialsHold /\ PagesInvariant => PagesAreRight
  BY PagesReached, FormInvariantSays, PictureInvariantSays, UsageInvariantSays
     DEF CredentialsHold, PagesInvariant, PagesAreRight
<1> QED
  BY <1>1, <1>2, <1>3, ConsoleIsGuarded, PTL DEF ConsoleSpec
=============================================================================
