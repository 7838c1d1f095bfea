-------------------------------- MODULE Accounts --------------------------------
(***************************************************************************)
(* Signing in to a self-hosted instance: the accounts and sessions of the  *)
(* server (server/src/services/authService.js and the routes over it), and *)
(* the tabs of one browser, which share its session cookie and sign in and *)
(* out on their own (context/SessionContext.jsx, views/shell).             *)
(*                                                                         *)
(* A person is known by their email.  What a new person needs besides an   *)
(* account, a personal workspace, the client provides with requests of its *)
(* own (ensurePersonalWorkspace), and again whenever it finds none.  Every *)
(* request may be lost, or its answer, and a tab may be reloaded at any    *)
(* time; what it has sent is carried out all the same.                     *)
(***************************************************************************)
EXTENDS Integers, FiniteSets

CONSTANTS
  People,           \* emails
  Tabs,             \* of one browser
  SessionIds,       \* random ids; bound: sessions created
  MaxReloads,       \* bound: reloads
  MaxOrphans,       \* bound: requests on their way that nobody waits for
  None

ASSUME AccountBounds == MaxReloads \in Nat /\ MaxOrphans \in Nat

\* null and the words an answer can be are no tab, email or session id.
ASSUME NoneIsNothing ==
  /\ None \notin Tabs /\ None \notin {"ok", "none", "refused"}
  /\ {None, "ok", "none", "refused"} \cap (People \cup SessionIds) = {}

VARIABLES
  accounts,   \* how many accounts an email has, each with its person
  sessions,   \* the person a session is for; None: no row, or one that has expired
  used,       \* session ids used so far
  homes,      \* how many personal workspaces each person belongs to
  cookie,     \* the browser's session cookie
  at,         \* what a tab shows: "boot" (AuthGate is loading), "form", "app"
  session,    \* the person whose session a tab's AppShell has
  request,    \* what a tab waits for, or None
  orphans,    \* requests nobody waits for any more
  reloads,    \* how many reloads there have been
  raced,      \* history: people whose provisioning was begun while another was on
  overtaken   \* history: tabs since whose sign-in another has signed in

server == <<accounts, sessions, used, homes>>
vars == <<server, cookie, at, session, request, orphans, reloads, raced, overtaken>>

\* me: /api/auth/me; look and provide: the two halves of ensurePersonalWorkspace;
\* resolve: resolveSession of workspaceService.  A request travels with the cookie
\* of when it was sent, which registering and logging in do not look at.
Kinds == {"me", "register", "login", "look", "provide", "resolve", "logout"}
Requests == [kind : Kinds, cookie : SessionIds \cup {None}, person : People \cup {None},
             phase : {"sent", "hashed", "answered"},
             answer : {None, "ok", "none", "refused"} \cup SessionIds \cup People]

ASSUME NoneIsNoRequest == None \notin Requests

Sent(kind, c, p) == [kind |-> kind, cookie |-> c, person |-> p, phase |-> "sent", answer |-> None]
Answer(r, a) == [r EXCEPT !.phase = "answered", !.answer = a]

-------------------------------------------------------------------------------
(***************************************************************************)
(* The server: one step for each transaction or read of a request          *)
(***************************************************************************)

\* resolveSession of authService
Resolved(c) ==
  IF c = None THEN None ELSE sessions[c]
Admitted(r) == Resolved(r.cookie) # None

\* Ids are random: any that was never used will do.
FreshId == CHOOSE id \in SessionIds : id \notin used
NewSession(p, id) ==
  /\ used # SessionIds /\ used' = used \cup {id}
  /\ sessions' = [sessions EXCEPT ![id] = p]

\* Mutant: accounts.email is not unique.
EmailFreeMut(p) == TRUE
EmailFree(p) == accounts[p] = 0

\* Request r, of tab t or (None) of nobody any more, becomes x.
Becomes(t, r, x) ==
  IF t = None
    THEN orphans' = (orphans \ {r}) \cup {y \in {x} : y.phase # "answered"} /\ UNCHANGED request
    ELSE request' = [request EXCEPT ![t] = x] /\ UNCHANGED orphans

\* register: looks for the account; hashes the password; then one transaction
\* inserts person, account and session, which the index on the email may refuse.
ServeRegister(t, r) ==
  \/ /\ r.phase = "sent"
     /\ Becomes(t, r, IF accounts[r.person] > 0 THEN Answer(r, "refused") ELSE [r EXCEPT !.phase = "hashed"])
     /\ UNCHANGED server
  \/ /\ r.phase = "hashed" /\ EmailFree(r.person)
     /\ NewSession(r.person, FreshId) /\ Becomes(t, r, Answer(r, FreshId))
     /\ accounts' = [accounts EXCEPT ![r.person] = @ + 1]
     /\ UNCHANGED homes
  \/ /\ r.phase = "hashed" /\ ~EmailFree(r.person)
     /\ Becomes(t, r, Answer(r, "refused"))
     /\ UNCHANGED server

\* login; a wrong password is refused like an unknown email.
ServeLogin(t, r) ==
  \/ /\ accounts[r.person] > 0
     /\ NewSession(r.person, FreshId) /\ Becomes(t, r, Answer(r, FreshId))
     /\ UNCHANGED <<accounts, homes>>
  \/ Becomes(t, r, Answer(r, "refused")) /\ UNCHANGED server

\* logout: whatever the session, or none
ServeLogout(t, r) ==
  /\ sessions' = [id \in SessionIds |-> IF id = r.cookie THEN None ELSE sessions[id]]
  /\ Becomes(t, r, Answer(r, "ok"))
  /\ UNCHANGED <<accounts, used, homes>>

\* The rest goes through requireSession.  The memberships read by `look' decide
\* it: a membership and its workspace are inserted together, and stay.
ServeGuarded(t, r) ==
  /\ Becomes(t, r, Answer(r, CASE r.kind = "me" -> Resolved(r.cookie)
                     [] r.kind # "me" /\ ~Admitted(r) -> "refused"
                     [] r.kind = "look" /\ Admitted(r) /\ homes[r.person] = 0 -> "none"
                     [] OTHER -> "ok"))
  /\ homes' = IF r.kind = "provide" /\ Admitted(r) THEN [homes EXCEPT ![r.person] = @ + 1] ELSE homes
  /\ UNCHANGED <<accounts, sessions, used>>

\* The server's part in request r of tab t, or of nobody.
Serve(t, r) ==
  \/ r.kind = "register" /\ ServeRegister(t, r)
  \/ r.kind = "login" /\ ServeLogin(t, r)
  \/ r.kind = "logout" /\ ServeLogout(t, r)
  \/ r.kind \notin {"register", "login", "logout"} /\ ServeGuarded(t, r)

\* Another provisioning of the same person has found nothing and not yet provided.
Begun(r) ==
  \E q \in (({request[t] : t \in Tabs} \cup orphans) \ {r, None}) :
    /\ q.person = r.person
    /\ (q.kind = "provide" /\ q.phase = "sent") \/ (q.kind = "look" /\ q.answer = "none")

Served(t) ==
  /\ request[t] # None /\ request[t].phase # "answered"
  /\ Serve(t, request[t])
  /\ raced' = IF request[t].kind = "look" /\ request'[t].answer = "none" /\ Begun(request[t])
                THEN raced \cup {request[t].person} ELSE raced
  /\ UNCHANGED <<cookie, at, session, reloads, overtaken>>

OrphanServed(o) ==
  /\ Serve(None, o)
  /\ UNCHANGED <<cookie, at, session, reloads, raced, overtaken>>

\* SESSION_TTL_MS has passed.
Expire(id) ==
  /\ sessions[id] # None
  /\ sessions' = [sessions EXCEPT ![id] = None]
  /\ UNCHANGED <<accounts, used, homes, cookie, at, session, request, orphans, reloads, raced, overtaken>>

-------------------------------------------------------------------------------
(***************************************************************************)
(* A tab                                                                   *)
(***************************************************************************)
Elsewhere == UNCHANGED <<server, orphans, reloads, raced>>
Ask(t, kind, p) ==
  request' = [request EXCEPT ![t] = Sent(kind, IF kind \in {"register", "login"} THEN None ELSE cookie', p)]
Rest(t) == request' = [request EXCEPT ![t] = None]

\* handleSubmit, and the button of LogoutButton, which only AppShell with a session
\* shows
Submit(t, kind, p) ==
  /\ at[t] = "form" /\ request[t] = None
  /\ UNCHANGED cookie /\ Ask(t, kind, p)
  /\ UNCHANGED <<at, session, overtaken>> /\ Elsewhere

Logout(t) ==
  /\ at[t] = "app" /\ session[t] # None /\ request[t] = None
  /\ UNCHANGED cookie /\ Ask(t, "logout", None)
  /\ UNCHANGED <<at, session, overtaken>> /\ Elsewhere

\* Mutant: not over a cookie that is there.
SetSessionCookieMut(t, id) ==
  cookie' = (IF cookie = None THEN id ELSE cookie) /\ overtaken' = (overtaken \cup Tabs) \ {t}
SetSessionCookie(t, id) == cookie' = id /\ overtaken' = (overtaken \cup Tabs) \ {t}

\* login and register, answered: the cookie is set, and ensurePersonalWorkspace
SignedIn(t, r) ==
  /\ r.kind \in {"register", "login"} /\ r.answer # "refused"
  /\ SetSessionCookie(t, r.answer) /\ Ask(t, "look", r.person)
  /\ UNCHANGED <<at, session>>

\* The check on mount: for a live session ensurePersonalWorkspace, otherwise the form
Checked(t, r) ==
  /\ r.kind = "me"
  /\ UNCHANGED cookie
  /\ IF r.answer = None
       THEN at' = [at EXCEPT ![t] = "form"] /\ Rest(t)
       ELSE UNCHANGED at /\ Ask(t, "look", r.answer)
  /\ UNCHANGED <<session, overtaken>>

\* Mutant: whatever is found, setAuthPersonId follows at once.
ProvidedMut(t, r) ==
  /\ r.kind \in {"look", "provide"} /\ r.answer # "refused"
  /\ UNCHANGED cookie
  /\ at' = [at EXCEPT ![t] = "app"] /\ Ask(t, "resolve", r.person)
  /\ UNCHANGED <<session, overtaken>>

\* ensurePersonalWorkspace provides what it did not find; only then setAuthPersonId,
\* for which AppShell resolves the session.
Provided(t, r) ==
  /\ r.kind \in {"look", "provide"} /\ r.answer # "refused"
  /\ UNCHANGED cookie
  /\ IF r.answer = "none"
       THEN UNCHANGED at /\ Ask(t, "provide", r.person)
       ELSE at' = [at EXCEPT ![t] = "app"] /\ Ask(t, "resolve", r.person)
  /\ UNCHANGED <<session, overtaken>>

SessionResolved(t, r) ==
  /\ r.kind = "resolve" /\ r.answer = "ok"
  /\ session' = [session EXCEPT ![t] = r.person] /\ Rest(t)
  /\ UNCHANGED <<cookie, at, overtaken>>

\* clearCookie, whichever session the cookie has come to name, and setAuthPersonId(null)
LoggedOut(t, r) ==
  /\ r.kind = "logout" /\ r.answer = "ok"
  /\ cookie' = None /\ Rest(t)
  /\ at' = [at EXCEPT ![t] = "form"] /\ session' = [session EXCEPT ![t] = None]
  /\ UNCHANGED overtaken

Answered(t) ==
  /\ request[t] # None /\ request[t].phase = "answered"
  /\ LET r == request[t]
     IN \/ SignedIn(t, r) \/ Checked(t, r) \/ Provided(t, r)
        \/ SessionResolved(t, r) \/ LoggedOut(t, r)
  /\ Elsewhere

\* An error: on mount `finally' sets authChecked, and nobody is signed in; the form
\* shows it; AppShell is left without a session, or the logout is as if not asked for.
GiveUp(t) ==
  /\ Rest(t)
  /\ at' = [at EXCEPT ![t] = IF @ = "boot" THEN "form" ELSE @]
  /\ UNCHANGED <<cookie, session, overtaken>>

Refused(t) ==
  /\ request[t] # None /\ request[t].answer = "refused"
  /\ GiveUp(t) /\ Elsewhere

\* The connection fails: before the request was carried out, and it may be yet, or
\* after.  Reads, and a login whose cookie never arrives, would change nothing.
Abandon(r) ==
  \/ UNCHANGED orphans
  \/ /\ r # None /\ r.phase # "answered" /\ Cardinality(orphans) < MaxOrphans
     /\ r.kind \in {"register", "provide", "logout"}
     /\ orphans' = orphans \cup {r}

Lost(t) ==
  /\ request[t] # None
  /\ GiveUp(t) /\ Abandon(request[t])
  /\ UNCHANGED <<server, reloads, raced>>

Reload(t) ==
  /\ reloads < MaxReloads /\ reloads' = reloads + 1
  /\ UNCHANGED cookie /\ Ask(t, "me", None)
  /\ at' = [at EXCEPT ![t] = "boot"] /\ session' = [session EXCEPT ![t] = None]
  /\ Abandon(request[t])
  /\ overtaken' = overtaken \ {t}
  /\ UNCHANGED <<server, raced>>

-------------------------------------------------------------------------------
Init ==
  /\ accounts = [p \in People |-> 0] /\ homes = [p \in People |-> 0]
  /\ sessions = [id \in SessionIds |-> None] /\ used = {} /\ cookie = None
  /\ at = [t \in Tabs |-> "boot"] /\ session = [t \in Tabs |-> None]
  /\ request = [t \in Tabs |-> Sent("me", None, None)]
  /\ orphans = {} /\ reloads = 0 /\ raced = {} /\ overtaken = {}

Next ==
  \/ \E t \in Tabs : Served(t) \/ Answered(t) \/ Refused(t) \/ Lost(t) \/ Logout(t) \/ Reload(t)
  \/ \E t \in Tabs, p \in People, kind \in {"register", "login"} : Submit(t, kind, p)
  \/ \E o \in orphans : OrphanServed(o)
  \/ \E id \in SessionIds : Expire(id)

Spec == Init /\ [][Next]_vars

-------------------------------------------------------------------------------
(***************************************************************************)
(* Properties                                                              *)
(***************************************************************************)

\* Types; and an email has one account at most, however many register it at once.
TypeOK ==
  /\ accounts \in [People -> 0 .. 1] /\ homes \in [People -> Nat]
  /\ used \subseteq SessionIds
  /\ sessions \in [SessionIds -> People \cup {None}]
  /\ cookie \in SessionIds \cup {None}
  /\ at \in [Tabs -> {"boot", "form", "app"}] /\ session \in [Tabs -> People \cup {None}]
  /\ request \in [Tabs -> Requests \cup {None}] /\ orphans \subseteq Requests
  /\ raced \subseteq People /\ overtaken \subseteq Tabs

\* "An account ... must still end up with a personal workspace" (SessionContext.jsx):
\* wherever a registration was cut off, whoever is let into the app has one -- and
\* one only, unless two tabs (or a page and its predecessor) were providing it at
\* the same time.
HomeBeforeApp ==
  /\ \A t \in Tabs : session[t] # None => homes[session[t]] > 0
  /\ \A p \in People \ raced : homes[p] <= 1

\* A tab's requests are admitted as the person it shows or not at all -- unless
\* another tab of the browser has signed in since: they share the cookie, and the
\* tab goes on under the new session.
ActsAsShown ==
  \A t \in Tabs \ overtaken : session[t] # None => Resolved(cookie) \in {None, session[t]}

================================================================================
