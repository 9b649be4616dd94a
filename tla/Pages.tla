------------------------------- MODULE Pages --------------------------------
(***************************************************************************)
(* Where a browser ends up: the redirects of the proxy, of the layouts and *)
(* of the pages for signing in, for every deployment, host and page.       *)
(*                                                                         *)
(* A page stands for all pages the code treats alike.  A visitor is known  *)
(* by whether the browser sends a session cookie, and by the role of the   *)
(* session it names, "none" when that session is over.                     *)
(***************************************************************************)

\* "member" and "profile" are behind the member layout, the first also behind the
\* proxy's gate; "admin" is behind the admin layout.
MemberPages == {"member", "profile"}
AllPages == MemberPages \cup {"home", "login", "admin"}
Hosts == {"landing", "dashboard"}
Viewers == {"none", "MEMBER", "ADMIN"}

\* APP_ROLE, and whether the marketing site and the app have a host each.
Deployments == [role : {"all", "api", "frontend"}, split : BOOLEAN]

Protected == {"member", "admin"}
AppPaths == AllPages \ {"home"}

Redirect(host, page) == [kind |-> "redirect", host |-> host, page |-> page]
Show(host, page) == [kind |-> "page", host |-> host, page |-> page]
NotFound(host, page) == [kind |-> "404", host |-> host, page |-> page]

\* hostnameRedirect.
WrongHost(d, host, page) ==
  /\ d.split
  /\ \/ host = "landing" /\ page \in AppPaths
     \/ host = "dashboard" /\ page = "home"
HostnameRedirect(host, page) ==
  Redirect("dashboard", IF page = "home" THEN "member" ELSE page)

\* Where a signed-in visitor of the page for signing in belongs.
HomeOf(viewer) == IF viewer = "ADMIN" THEN "admin" ELSE "member"

\* Mutant: the page for signing in goes by the cookie.
LoginPageByCookie(host, cookie, viewer) ==
  IF cookie THEN Redirect(host, HomeOf(viewer)) ELSE Show(host, "login")

\* LoginPage and RegisterPage: a live session has no business there.
LoginPage(host, cookie, viewer) ==
  IF viewer # "none" THEN Redirect(host, HomeOf(viewer)) ELSE Show(host, "login")

\* MemberLayout.
MemberLayout(host, page, viewer) == IF viewer = "none" THEN Redirect(host, "login") ELSE Show(host, page)

\* AdminLayout.
AdminLayout(host, page, viewer) ==
  CASE viewer = "none" -> Redirect(host, "login")
    [] viewer = "MEMBER" -> Redirect(host, "member")
    [] OTHER -> Show(host, page)

Render(host, page, cookie, viewer) ==
  CASE page = "login" -> LoginPage(host, cookie, viewer)
    [] page \in MemberPages -> MemberLayout(host, page, viewer)
    [] page = "admin" -> AdminLayout(host, page, viewer)
    [] page = "home" -> Show(host, page)

\* proxy: one request for a page.
Answer(d, host, page, cookie, viewer) ==
  CASE WrongHost(d, host, page) -> HostnameRedirect(host, page)
    [] d.role = "api" /\ ~WrongHost(d, host, page) -> NotFound(host, page)
    [] d.role # "api" /\ ~WrongHost(d, host, page) /\ page \in Protected /\ ~cookie -> Redirect(host, "login")
    [] OTHER -> Render(host, page, cookie, viewer)

\* The browser follows redirects; four are more than any visit takes.
Hop(d, at, cookie, viewer) ==
  IF at.kind = "redirect" THEN Answer(d, at.host, at.page, cookie, viewer) ELSE at

Visit(d, host, page, cookie, viewer) ==
  LET first == Answer(d, host, page, cookie, viewer)
      second == Hop(d, first, cookie, viewer)
      third == Hop(d, second, cookie, viewer)
  IN Hop(d, third, cookie, viewer)

\* The loaders' access, and the check before one runs (page-data).
PublicViews == {"home", "login"}
MemberViews == {"member", "profile"}
AdminViews == {"admin"}
DataFor(page, viewer) ==
  CASE page \notin PublicViews /\ viewer = "none" -> "401"
    [] page \in AdminViews /\ viewer = "MEMBER" -> "403"
    [] OTHER -> "data"

\* Every visit ends at a page the visitor may see, on the host it belongs to, and
\* its loader answers.
EndsWell(cookie, viewer) ==
  \A d \in Deployments, host \in Hosts, page \in AllPages :
    LET end == Visit(d, host, page, cookie, viewer)
    IN /\ end.kind # "redirect"
       /\ end.kind = "page" =>
            /\ DataFor(end.page, viewer) = "data"
            /\ end.page = "login" => viewer = "none"
            /\ d.split => (end.host = "landing" <=> end.page = "home")

WellServed == {<<cookie, viewer, EndsWell(cookie, viewer)>> : cookie \in BOOLEAN, viewer \in Viewers}

-----------------------------------------------------------------------------
(* The requests a page makes.                                              *)

\* One host for all; a frontend that forwards /api; a frontend whose pages call the
\* API's host.  ALLOWED_ORIGINS of the API may name the frontend.
Setups == [kind : {"one", "forwarded", "apart"}, listed : BOOLEAN]
Origins == {"own", "frontend", "other"}

IsAllowedOrigin(listed, origin) == listed /\ origin = "frontend"

\* proxy: one request to /api, on a host that serves the API, forwards, or neither.
Passes(serves, listed, origin, method) ==
  /\ method = "preflight" => IsAllowedOrigin(listed, origin)
  /\ method = "write" => origin = "own" \/ IsAllowedOrigin(listed, origin)
  /\ serves \in {"api", "forward"}

\* apiFetch: where a page's request goes, and how often it meets the proxy.
Fetch(s, method) ==
  CASE s.kind = "one" -> Passes("api", s.listed, "own", method)
    [] s.kind = "forwarded" -> Passes("forward", FALSE, "own", method) /\ Passes("api", s.listed, "frontend", method)
    [] s.kind = "apart" -> Passes("api", s.listed, "frontend", "preflight") /\ Passes("api", s.listed, "frontend", method)

\* apiGet: the server of the pages reads from the API with the visitor's cookie.
ApiGet(s) == Passes("api", s.listed, "own", "read")

\* A configured deployment serves its own pages; another site writes nowhere.
ServesItself(s) ==
  /\ ApiGet(s)
  /\ s.kind = "one" \/ s.listed => \A method \in {"read", "write"} : Fetch(s, method)
  /\ ~Passes("api", s.listed, "other", "write")
=============================================================================
