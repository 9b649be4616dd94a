------------------------------- MODULE Access -------------------------------
(***************************************************************************)
(* Who may do what: registration, sessions, failed logins and the lock,    *)
(* passwords and reset links, and the administration of members, with      *)
(* requests from several browser tabs in flight at once.                   *)
(*                                                                         *)
(* A tab sends one request at a time: its forms are disabled while one is  *)
(* on its way.  A request is the handler's database calls, one step each;  *)
(* reads no other request can tell apart from the next step are part of    *)
(* it.  Passwords are counted: a session knows which one opened it.        *)
(***************************************************************************)
EXTENDS Naturals, FiniteSets, Pages

CONSTANTS
  Users,      \* e-mail addresses
  Tabs,       \* browsers, each with its cookie
  Absent,     \* no such user
  NoSession,  \* no cookie
  MaxFailed,  \* MAX_FAILED_ATTEMPTS
  MaxLinks,   \* bound: reset links issued
  MaxRequests,\* bound: requests
  MaxCrashes  \* bound: requests that die

ASSUME AccessAssumption ==
  /\ Users # {} /\ MaxFailed \in Nat \ {0}
  /\ {MaxLinks, MaxRequests, MaxCrashes} \subseteq Nat
  /\ Absent \notin [role : {"ADMIN", "MEMBER"}, status : {"ACTIVE", "SUSPENDED"}, password : Nat,
                    failed : Nat, lock : {"none", "held", "expired"}]
  /\ NoSession \notin [user : Users, password : Nat, revoked : BOOLEAN]

VARIABLES
  user,      \* User rows
  session,   \* the Session row each tab's cookie names
  link,      \* PasswordResetToken rows: owner, usable, and how often it set a password
  copying,   \* members with a subscription that is COPYING
  pc,        \* step of each tab's request, "idle" without one
  subject,   \* the user it is about
  saw,       \* the row it read
  input,     \* what was entered
  misses,    \* history: failed logins recorded since the last that cleared them
  raced,     \* history: users two requests were about at once, and "admins"
  requests,  \* requests so far
  crashes    \* requests that died

vars == <<user, session, link, copying, pc, subject, saw, input, misses, raced, requests, crashes>>

UserType ==
  [role : {"ADMIN", "MEMBER"}, status : {"ACTIVE", "SUSPENDED"}, password : Nat,
   failed : Nat, lock : {"none", "held", "expired"}]
SessionType == [user : Users, password : Nat, revoked : BOOLEAN]
LinkType == [user : Users, usable : BOOLEAN, uses : Nat]
\* What a request carries: whether nobody had registered, a reset link, or the values
\* of the administrator's form.
InputType ==
  [first : BOOLEAN, link : Nat, role : {"ADMIN", "MEMBER"}, status : {"ACTIVE", "SUSPENDED"}, unlock : BOOLEAN]
Nothing == [first |-> FALSE, link |-> 0, role |-> "MEMBER", status |-> "ACTIVE", unlock |-> FALSE]
Forms == [first : {FALSE}, link : {0}, role : {"ADMIN", "MEMBER"}, status : {"ACTIVE", "SUSPENDED"}, unlock : BOOLEAN]

Steps ==
  {"idle", "create", "fail", "succeed", "session", "token", "reset", "change", "start",
   "count", "write", "suspend", "revoke", "blockers", "remove"}

TypeOK ==
  /\ user \in [Users -> UserType \cup {Absent}]
  /\ session \in [Tabs -> SessionType \cup {NoSession}]
  /\ link \in [1..Cardinality(DOMAIN link) -> LinkType]
  /\ copying \subseteq {u \in Users : user[u] # Absent}
  /\ pc \in [Tabs -> Steps]
  /\ subject \in [Tabs -> Users]
  /\ saw \in [Tabs -> UserType \cup {Absent}]
  /\ input \in [Tabs -> InputType]
  /\ misses \in [Users -> Nat]
  /\ raced \subseteq Users \cup {"admins"}
  /\ requests \in 0..MaxRequests /\ crashes \in 0..MaxCrashes

Person(role) == [role |-> role, status |-> "ACTIVE", password |-> 0, failed |-> 0, lock |-> "none"]

\* An empty platform, or one with members, some of them signed in.
Init ==
  /\ user \in [Users -> {Absent, Person("MEMBER"), Person("ADMIN")}]
  /\ (\E u \in Users : user[u] # Absent) => \E u \in Users : user[u] = Person("ADMIN")
  /\ session \in [Tabs -> {NoSession} \cup [user : {u \in Users : user[u] # Absent}, password : {0}, revoked : {FALSE}]]
  /\ link = << >>
  /\ copying = {}
  /\ pc = [t \in Tabs |-> "idle"]
  /\ subject = [t \in Tabs |-> CHOOSE u \in Users : TRUE]
  /\ saw = [t \in Tabs |-> Absent]
  /\ input = [t \in Tabs |-> Nothing]
  /\ misses = [u \in Users |-> 0]
  /\ raced = {} /\ requests = 0 /\ crashes = 0

-----------------------------------------------------------------------------
(* Sessions.                                                               *)

\* getCurrentUser.
SignedIn(t) ==
  /\ session[t] # NoSession
  /\ ~session[t].revoked
  /\ user[session[t].user] # Absent
  /\ user[session[t].user].status = "ACTIVE"

\* requireAdmin.
IsAdmin(t) == SignedIn(t) /\ user[session[t].user].role = "ADMIN"

Viewer(t) == IF SignedIn(t) THEN user[session[t].user].role ELSE "none"

\* session.updateMany: the sessions of user u in the given tabs end.
Revoked(u, tabs) ==
  [t \in Tabs |-> IF t \in tabs /\ session[t] # NoSession /\ session[t].user = u
                  THEN [session[t] EXCEPT !.revoked = TRUE]
                  ELSE session[t]]

\* A tab sends a request about user u; another one about u may be on its way.
Send(t, u, step) ==
  /\ pc[t] = "idle" /\ requests < MaxRequests
  /\ requests' = requests + 1
  /\ pc' = [pc EXCEPT ![t] = step]
  /\ subject' = [subject EXCEPT ![t] = u]
  /\ raced' = IF \E s \in Tabs \ {t} : pc[s] # "idle" /\ subject[s] = u THEN raced \cup {u} ELSE raced

(* What the pages let a visitor send.                                      *)

\* The form for registering and signing in; its page is not shown to who is signed in.
AuthForm(t) == ~SignedIn(t)

\* The form behind a reset link, shown while the link works.
ResetForm(k) == link[k].usable

\* The profile page's form for the password.
PasswordForm(t) == SignedIn(t)

\* The user menu, on every page behind a layout.
UserMenu(t) == session[t] # NoSession

\* The dialog for deleting: not about the administrator who opened it.
DeleteDialog(t, u) == IsAdmin(t) /\ user[u] # Absent /\ u # session[t].user

\* The dialog for editing: role and status of oneself are fixed, as the page shows them.
EditDialog(t, u, form) ==
  /\ IsAdmin(t) /\ user[u] # Absent
  /\ u = session[t].user => form.role = user[u].role /\ form.status = user[u].status

-----------------------------------------------------------------------------
(* Requests.                                                               *)

At(t, step) == pc[t] = step
Go(t, step) == pc' = [pc EXCEPT ![t] = step] /\ UNCHANGED <<subject, saw, input, raced, requests, crashes>>

\* The answer, or an error, reaches the form.
Done(t) ==
  /\ pc' = [pc EXCEPT ![t] = "idle"]
  /\ saw' = [saw EXCEPT ![t] = Absent]
  /\ input' = [input EXCEPT ![t] = Nothing]
  /\ UNCHANGED <<subject, raced, requests, crashes>>

-----------------------------------------------------------------------------
(* Registration and login.                                                 *)

\* registerUser up to the count of users.
Register(t, u) ==
  /\ AuthForm(t) /\ user[u] = Absent
  /\ Send(t, u, "create")
  /\ input' = [input EXCEPT ![t].first = (\A v \in Users : user[v] = Absent)]
  /\ UNCHANGED <<user, session, link, copying, saw, misses, crashes>>

\* registerUser: the row, unless its address was taken meanwhile.
CreateUser(t) ==
  /\ At(t, "create")
  /\ LET u == subject[t] IN
     \/ /\ user[u] = Absent
        /\ user' = [user EXCEPT ![u] = Person(IF input[t].first THEN "ADMIN" ELSE "MEMBER")]
        /\ pc' = [pc EXCEPT ![t] = "session"]
        /\ saw' = [saw EXCEPT ![t] = user'[u]]
        /\ misses' = [misses EXCEPT ![u] = 0]
        /\ UNCHANGED <<subject, input, raced, requests, crashes>>
     \/ user[u] # Absent /\ Done(t) /\ UNCHANGED <<user, misses>>
  /\ UNCHANGED <<session, link, copying>>

\* authenticate up to the comparison of the password.
Login(t, u, correct) ==
  /\ AuthForm(t) /\ user[u] # Absent
  /\ user[u].lock # "held"
  /\ correct => user[u].status = "ACTIVE"
  /\ Send(t, u, IF correct THEN "succeed" ELSE "fail")
  /\ saw' = [saw EXCEPT ![t] = user[u]]
  /\ UNCHANGED <<user, session, link, copying, input, misses, crashes>>

\* registerFailedLogin: the counter read before the comparison, plus one.
RegisterFailed(t) ==
  /\ At(t, "fail") /\ user[subject[t]] # Absent
  /\ LET u == subject[t]  attempts == saw[t].failed + 1 IN
     /\ user' = [user EXCEPT ![u].failed = attempts, ![u].lock = IF attempts >= MaxFailed THEN "held" ELSE "none"]
     /\ misses' = [misses EXCEPT ![u] = @ + 1]
  /\ Done(t) /\ UNCHANGED <<session, link, copying>>

\* registerSuccessfulLogin.
RegisterSuccess(t) ==
  /\ At(t, "succeed") /\ user[subject[t]] # Absent
  /\ user' = [user EXCEPT ![subject[t]].failed = 0, ![subject[t]].lock = "none"]
  /\ misses' = [misses EXCEPT ![subject[t]] = 0]
  /\ Go(t, "session") /\ UNCHANGED <<session, link, copying>>

\* createSession, for the user who registered or whose password was compared.
StartSession(t) ==
  /\ At(t, "session") /\ user[subject[t]] # Absent
  /\ session' = [session EXCEPT ![t] = [user |-> subject[t], password |-> saw[t].password, revoked |-> FALSE]]
  /\ Done(t) /\ UNCHANGED <<user, link, copying, misses>>

\* The logout route: the session is revoked and the cookie cleared.
Logout(t) ==
  /\ UserMenu(t)
  /\ Send(t, session[t].user, "idle")
  /\ session' = [session EXCEPT ![t] = NoSession]
  /\ UNCHANGED <<user, link, copying, saw, input, misses, crashes>>

-----------------------------------------------------------------------------
(* Passwords.                                                              *)

\* Mutant: earlier links stay usable.
RequestResetOnly(t, u) ==
  /\ user[u] # Absent /\ user[u].status = "ACTIVE"
  /\ Cardinality(DOMAIN link) < MaxLinks
  /\ Send(t, u, "token")
  /\ UNCHANGED <<user, session, link, copying, saw, input, misses, crashes>>

\* requestPasswordReset: earlier links of the user stop working.
RequestReset(t, u) ==
  /\ user[u] # Absent /\ user[u].status = "ACTIVE"
  /\ Cardinality(DOMAIN link) < MaxLinks
  /\ Send(t, u, "token")
  /\ link' = [k \in DOMAIN link |-> IF link[k].user = u THEN [link[k] EXCEPT !.usable = FALSE] ELSE link[k]]
  /\ UNCHANGED <<user, session, copying, saw, input, misses, crashes>>

\* requestPasswordReset: the new link, and its e-mail.
CreateLink(t) ==
  /\ At(t, "token") /\ user[subject[t]] # Absent
  /\ Cardinality(DOMAIN link) < MaxLinks
  /\ link' = [k \in 1..(Cardinality(DOMAIN link) + 1) |->
                IF k \in DOMAIN link THEN link[k] ELSE [user |-> subject[t], usable |-> TRUE, uses |-> 0]]
  /\ Done(t) /\ UNCHANGED <<user, session, copying, misses>>

\* completePasswordReset up to the hash.
OpenLink(t, k) ==
  /\ ResetForm(k)
  /\ user[link[k].user] # Absent /\ user[link[k].user].status = "ACTIVE"
  /\ Send(t, link[k].user, "reset")
  /\ input' = [input EXCEPT ![t].link = k]
  /\ UNCHANGED <<user, session, link, copying, saw, misses, crashes>>

NewPassword(u) == [user[u] EXCEPT !.password = @ + 1, !.failed = 0, !.lock = "none"]

\* completePasswordReset's transaction.
ResetPassword(t) ==
  /\ At(t, "reset") /\ user[subject[t]] # Absent
  /\ LET u == subject[t] IN
     /\ user' = [user EXCEPT ![u] = NewPassword(u)]
     /\ link' = [link EXCEPT ![input[t].link].usable = FALSE, ![input[t].link].uses = @ + 1]
     /\ session' = Revoked(u, Tabs)
     /\ misses' = [misses EXCEPT ![u] = 0]
  /\ Done(t) /\ UNCHANGED copying

\* changePassword up to the hash: the current password was entered.
BeginChange(t) ==
  /\ PasswordForm(t)
  /\ Send(t, session[t].user, "change")
  /\ UNCHANGED <<user, session, link, copying, saw, input, misses, crashes>>

\* changePassword's transaction: every other session of the member ends.
ChangePassword(t) ==
  /\ At(t, "change") /\ user[subject[t]] # Absent
  /\ LET u == subject[t] IN
     /\ user' = [user EXCEPT ![u] = NewPassword(u)]
     /\ session' = [Revoked(u, Tabs \ {t}) EXCEPT ![t].password = user[u].password + 1]
     /\ misses' = [misses EXCEPT ![u] = 0]
  /\ Done(t) /\ UNCHANGED <<link, copying>>

-----------------------------------------------------------------------------
(* What members do, as far as administration depends on it.                *)

\* startCopying behind requireUser.
BeginStart(t) ==
  /\ SignedIn(t) /\ session[t].user \notin copying
  /\ Send(t, session[t].user, "start")
  /\ UNCHANGED <<user, session, link, copying, saw, input, misses, crashes>>

StartCopying(t) ==
  /\ At(t, "start") /\ user[subject[t]] # Absent
  /\ copying' = copying \cup {subject[t]}
  /\ Done(t) /\ UNCHANGED <<user, session, link, misses>>

StopCopying(t) ==
  /\ SignedIn(t) /\ session[t].user \in copying
  /\ Send(t, session[t].user, "idle")
  /\ copying' = copying \ {session[t].user}
  /\ UNCHANGED <<user, session, link, saw, input, misses, crashes>>

-----------------------------------------------------------------------------
(* Administration.                                                         *)

OtherAdmins(u) ==
  {v \in Users \ {u} : user[v] # Absent /\ user[v].role = "ADMIN" /\ user[v].status = "ACTIVE"}

\* The administrators are counted while another request has counted and not written.
CountRace(t) ==
  IF \E s \in Tabs \ {t} : pc[s] \in {"write", "remove"} /\ saw[s].role = "ADMIN"
  THEN raced \cup {"admins"} ELSE raced

\* updateMember up to its guards: the form sends role and status as shown or chosen.
UpdateMember(t, u, form) ==
  /\ EditDialog(t, u, form)
  /\ LET lastAdminMatters == user[u].role = "ADMIN" /\ (form.role # "ADMIN" \/ form.status # "ACTIVE")
     IN Send(t, u, IF lastAdminMatters THEN "count" ELSE "write")
  /\ saw' = [saw EXCEPT ![t] = user[u]]
  /\ input' = [input EXCEPT ![t] = form]
  /\ UNCHANGED <<user, session, link, copying, misses, crashes>>

\* Mutant: the last administrator is not looked for.
CountNobody(t) == At(t, "count") /\ Go(t, "write") /\ UNCHANGED <<user, session, link, copying, misses>>

\* assertNotLastAdmin.
CountAdmins(t) ==
  /\ At(t, "count")
  /\ \/ /\ OtherAdmins(subject[t]) # {}
        /\ pc' = [pc EXCEPT ![t] = "write"]
        /\ raced' = CountRace(t)
        /\ UNCHANGED <<subject, saw, input, requests, crashes>>
     \/ OtherAdmins(subject[t]) = {} /\ Done(t)
  /\ UNCHANGED <<user, session, link, copying, misses>>

ChangesRole(t) == input[t].role # saw[t].role
Suspends(t) == input[t].status # "ACTIVE" /\ saw[t].status = "ACTIVE"

\* updateMember: the row.
WriteMember(t) ==
  /\ At(t, "write") /\ user[subject[t]] # Absent
  /\ LET u == subject[t]
         row == [user[u] EXCEPT !.role = input[t].role, !.status = input[t].status] IN
     /\ user' = [user EXCEPT ![u] = IF input[t].unlock THEN [row EXCEPT !.failed = 0, !.lock = "none"] ELSE row]
     /\ misses' = IF input[t].unlock THEN [misses EXCEPT ![u] = 0] ELSE misses
  /\ \/ Suspends(t) /\ Go(t, "suspend")
     \/ ~Suspends(t) /\ ChangesRole(t) /\ Go(t, "revoke")
     \/ ~Suspends(t) /\ ~ChangesRole(t) /\ Done(t)
  /\ UNCHANGED <<session, link, copying>>

\* Mutant: the sessions end and the subscriptions go on.
SuspendSessions(t) ==
  /\ At(t, "suspend")
  /\ session' = Revoked(subject[t], Tabs)
  /\ IF ChangesRole(t) THEN Go(t, "revoke") ELSE Done(t)
  /\ UNCHANGED <<user, link, copying, misses>>

\* suspendMemberActivity's transaction.
SuspendActivity(t) ==
  /\ At(t, "suspend")
  /\ session' = Revoked(subject[t], Tabs)
  /\ copying' = copying \ {subject[t]}
  /\ IF ChangesRole(t) THEN Go(t, "revoke") ELSE Done(t)
  /\ UNCHANGED <<user, link, misses>>

\* updateMember: a change of role ends the member's sessions.
RevokeSessions(t) ==
  /\ At(t, "revoke")
  /\ session' = Revoked(subject[t], Tabs)
  /\ Done(t) /\ UNCHANGED <<user, link, copying, misses>>

\* deleteMember up to its guards.
BeginDelete(t, u) ==
  /\ DeleteDialog(t, u)
  /\ Send(t, u, "blockers")
  /\ saw' = [saw EXCEPT ![t] = user[u]]
  /\ UNCHANGED <<user, session, link, copying, input, misses, crashes>>

Blocked(u) ==
  \/ user[u] = Absent
  \/ u \in copying
  \/ user[u].role = "ADMIN" /\ OtherAdmins(u) = {}

\* getDeletionBlockers; an account of theirs that is connected blocks too.
CheckBlockers(t) ==
  /\ At(t, "blockers")
  /\ \E connected \in BOOLEAN :
     IF connected \/ Blocked(subject[t]) THEN Done(t)
     ELSE /\ pc' = [pc EXCEPT ![t] = "remove"]
          /\ raced' = CountRace(t)
          /\ UNCHANGED <<subject, saw, input, requests, crashes>>
  /\ UNCHANGED <<user, session, link, copying, misses>>

\* deleteMember: the row and, by the schema's cascades, all that hangs on it.
DeleteUser(t) ==
  /\ At(t, "remove") /\ user[subject[t]] # Absent
  /\ LET u == subject[t] IN
     /\ user' = [user EXCEPT ![u] = Absent]
     /\ session' = Revoked(u, Tabs)
     /\ link' = [k \in DOMAIN link |-> IF link[k].user = u THEN [link[k] EXCEPT !.usable = FALSE] ELSE link[k]]
     /\ copying' = copying \ {u}
  /\ Done(t) /\ UNCHANGED misses

-----------------------------------------------------------------------------
(* Failures and time.                                                      *)

\* A request dies between two steps, or its user was deleted under it.
Die(t) ==
  /\ pc[t] # "idle" /\ crashes < MaxCrashes
  /\ crashes' = crashes + 1
  /\ pc' = [pc EXCEPT ![t] = "idle"]
  /\ saw' = [saw EXCEPT ![t] = Absent]
  /\ input' = [input EXCEPT ![t] = Nothing]
  /\ UNCHANGED <<user, session, link, copying, subject, misses, raced, requests>>

\* The database refuses a write about a user who is gone.
Gone(t) ==
  /\ pc[t] \notin {"idle", "create", "count", "blockers", "suspend", "revoke"} /\ user[subject[t]] = Absent
  /\ Done(t) /\ UNCHANGED <<user, session, link, copying, misses>>

LockExpires(u) ==
  /\ user[u] # Absent /\ user[u].lock = "held"
  /\ user' = [user EXCEPT ![u].lock = "expired"]
  /\ UNCHANGED <<session, link, copying, pc, subject, saw, input, misses, raced, requests, crashes>>

LinkExpires(k) ==
  /\ link[k].usable
  /\ link' = [link EXCEPT ![k].usable = FALSE]
  /\ UNCHANGED <<user, session, copying, pc, subject, saw, input, misses, raced, requests, crashes>>

TabStep(t) ==
  \/ CreateUser(t) \/ RegisterFailed(t) \/ RegisterSuccess(t) \/ StartSession(t)
  \/ CreateLink(t) \/ ResetPassword(t) \/ ChangePassword(t) \/ StartCopying(t)
  \/ CountAdmins(t) \/ WriteMember(t) \/ SuspendActivity(t) \/ RevokeSessions(t)
  \/ CheckBlockers(t) \/ DeleteUser(t) \/ Gone(t)

Next ==
  \/ \E t \in Tabs :
       \/ \E u \in Users : Register(t, u) \/ RequestReset(t, u) \/ BeginDelete(t, u)
       \/ \E u \in Users, correct \in BOOLEAN : Login(t, u, correct)
       \/ \E u \in Users, form \in Forms : UpdateMember(t, u, form)
       \/ \E k \in DOMAIN link : OpenLink(t, k)
       \/ BeginChange(t) \/ BeginStart(t) \/ StopCopying(t) \/ Logout(t)
       \/ TabStep(t)
       \/ Die(t)
  \/ \E u \in Users : LockExpires(u)
  \/ \E k \in DOMAIN link : LinkExpires(k)

Spec == Init /\ [][Next]_vars

-----------------------------------------------------------------------------
(* Properties.                                                             *)

\* Work on user u never ran beside other work on u.
Orderly(u) == u \notin raced

\* "An administrator cannot lock the platform out of itself" (updateMember): while
\* there are users there is an active administrator, unless two requests were about
\* one user at once or counted the administrators beside each other.
AdminRemains ==
  raced = {} /\ (\E u \in Users : user[u] # Absent)
    => \E u \in Users : user[u] # Absent /\ user[u].role = "ADMIN" /\ user[u].status = "ACTIVE"

\* MaxFailed failures in a row lock the account, until the lock expires: the counter
\* the login writes back is exact as long as logins of the user do not overlap.
FailuresLock ==
  \A u \in Users : user[u] # Absent /\ Orderly(u) =>
    /\ user[u].failed = misses[u]
    /\ misses[u] >= MaxFailed => user[u].lock # "none"

\* "Any earlier link stops working": a user has one usable link at most, and a link
\* sets one password at most.
OneLink ==
  \A u \in Users : Orderly(u) =>
    /\ Cardinality({k \in DOMAIN link : link[k].user = u /\ link[k].usable}) <= 1
    /\ \A k \in DOMAIN link : link[k].user = u => link[k].uses <= 1

\* A change or reset of the password ends every session it did not come from: a
\* session that works was opened with the password in force.
SessionKnowsPassword ==
  \A t \in Tabs : SignedIn(t) /\ Orderly(session[t].user)
    => session[t].password = user[session[t].user].password

\* "A suspended member must stop trading immediately": once the request is over no
\* session of theirs is left and nothing copies, unless it died before.
SuspendedIsStill ==
  \A u \in Users :
    /\ user[u] # Absent /\ user[u].status = "SUSPENDED"
    /\ Orderly(u) /\ crashes = 0
    /\ \A t \in Tabs : subject[t] = u => pc[t] = "idle"
    => /\ u \notin copying
       /\ \A t \in Tabs : session[t] # NoSession /\ session[t].user = u => session[t].revoked

\* Whatever page a tab asks for, on any deployment, redirects end, at a page its
\* visitor may see.
RedirectsEnd == \A t \in Tabs : <<session[t] # NoSession, Viewer(t), TRUE>> \in WellServed

\* A request on its way from a page passed the proxy, in every configured deployment,
\* and no page of another site sends one that writes.
RequestsReachApi == \A t \in Tabs : pc[t] # "idle" => \A s \in Setups : ServesItself(s)

\* Signing in: the failures counted, the links mailed and the sessions open are those the
\* password in force allows (authenticate, createSession, password-reset.service.ts), and
\* every state is one the data types allow.
CredentialsHold == TypeOK /\ FailuresLock /\ OneLink /\ SessionKnowsPassword

\* Every page is reached, and every request its page makes, on every deployment
\* (proxy.ts, the layouts' guards, apiFetch).
PagesAreReached == RedirectsEnd /\ RequestsReachApi
=============================================================================
