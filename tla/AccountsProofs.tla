----------------------------- MODULE AccountsProofs -----------------------------
(***************************************************************************)
(* Proofs about Accounts, for any number of people, tabs, sessions,        *)
(* reloads and abandoned requests.  What a request may be given as its     *)
(* answer, and what is then true of the server, is stated once (Outcome)   *)
(* for all of the server's handlers; the three invariants follow from it.  *)
(***************************************************************************)
EXTENDS Accounts, TLAPS

\* The answers a kind of request can have.
AnswersTo(kind) ==
  CASE kind \in {"register", "login"} -> SessionIds \cup {"refused"}
    [] kind = "me" -> People \cup {None}
    [] kind = "look" -> {"none", "ok", "refused"}
    [] kind \in {"provide", "resolve"} -> {"ok", "refused"}
    [] kind = "logout" -> {"ok"}

\* A request is of a person unless it goes by the cookie alone; it has an answer
\* once it has been answered.
WellFormed(r) ==
  /\ r \in Requests
  /\ r.person # None <=> r.kind \notin {"me", "logout"}
  /\ r.phase # "answered" => r.answer = None
  /\ r.phase = "hashed" => r.kind = "register"
  /\ r.phase = "answered" => r.answer \in AnswersTo(r.kind)

\* The form is shown by a tab without a session, which alone signs in; a tab that
\* has a session waits for nothing but its logout, and one that resolves its session
\* is in the app.
TabInv(t) ==
  /\ request[t] # None => WellFormed(request[t])
  /\ session[t] # None => at[t] = "app" /\ (request[t] # None => request[t].kind = "logout")
  /\ request[t] # None /\ request[t].kind \in {"register", "login"} => at[t] = "form"
  /\ request[t] # None /\ request[t].kind = "resolve" => at[t] = "app"

TypeInv ==
  /\ accounts \in [People -> 0 .. 1] /\ homes \in [People -> Nat]
  /\ used \subseteq SessionIds
  /\ sessions \in [SessionIds -> People \cup {None}]
  /\ cookie \in used \cup {None}
  /\ at \in [Tabs -> {"boot", "form", "app"}] /\ session \in [Tabs -> People \cup {None}]
  /\ request \in [Tabs -> Requests \cup {None}]
  /\ raced \subseteq People /\ overtaken \subseteq Tabs
  /\ \A t \in Tabs : TabInv(t)
  /\ \A o \in orphans : WellFormed(o) /\ o.phase # "answered" /\ o.kind \in {"register", "provide", "logout"}

\* Whoever has been found or given a workspace has one.
Housed(t) ==
  /\ session[t] # None => homes[session[t]] > 0
  /\ request[t] # None /\ request[t].kind = "resolve" => homes[request[t].person] > 0
  /\ request[t] # None /\ request[t].kind \in {"look", "provide"} /\ request[t].answer = "ok"
       => homes[request[t].person] > 0

\* Request q found p without a workspace, and p has not been given one for it yet.
Providing(q, p) ==
  /\ q # None /\ q.person = p
  /\ (q.kind = "provide" /\ q.phase = "sent") \/ (q.kind = "look" /\ q.answer = "none")

\* At most one request is, while its person has no workspace at all.
ProvidedOnce(p) ==
  /\ homes[p] <= 1
  /\ \A t \in Tabs : Providing(request[t], p) => homes[p] = 0
  /\ \A o \in orphans : Providing(o, p) => homes[p] = 0
  /\ \A t, u \in Tabs : Providing(request[t], p) /\ Providing(request[u], p) => t = u
  /\ \A o, q \in orphans : Providing(o, p) /\ Providing(q, p) => o = q
  /\ \A t \in Tabs, o \in orphans : ~(Providing(request[t], p) /\ Providing(o, p))

HomeInv ==
  /\ \A t \in Tabs : Housed(t)
  /\ \A p \in People \ raced : ProvidedOnce(p)

\* What a sign-in was answered names a session of that person, or one that is over.
Issued(t) ==
  (request[t] # None /\ request[t].kind \in {"register", "login"} /\ request[t].answer \in SessionIds)
    => request[t].answer \in used /\ sessions[request[t].answer] \in {None, request[t].person}

\* The cookie is still the one a tab's check on mount went out with, and still names
\* the person the tab shows, or is about to show, or nobody.
Followed(t) ==
  /\ session[t] # None => Resolved(cookie) \in {None, session[t]}
  /\ request[t] # None /\ request[t].kind \in {"look", "provide", "resolve"} =>
       Resolved(cookie) \in {None, request[t].person}
  /\ request[t] # None /\ request[t].kind = "me" =>
       /\ cookie \in {None, request[t].cookie}
       /\ request[t].cookie \in used \cup {None}
       /\ request[t].answer # None => Resolved(request[t].cookie) \in {None, request[t].answer}

ShownInv ==
  /\ \A t \in Tabs : Issued(t)
  /\ \A t \in Tabs \ overtaken : Followed(t)

Inv == TypeInv /\ HomeInv /\ ShownInv

-------------------------------------------------------------------------------
(***************************************************************************)
(* What the server does with a request                                     *)
(***************************************************************************)

\* Request r becomes x, and the server what it becomes with it: the sessions there
\* were stay or end; a session answered is new and for the person who asked; a
\* workspace is found where there is one, and one more is provided on request.
Outcome(r, x) ==
  /\ WellFormed(x) /\ x.kind = r.kind /\ x.person = r.person /\ x.cookie = r.cookie
  /\ x.phase # "sent"
  /\ accounts' \in [People -> 0 .. 1] /\ homes' \in [People -> Nat]
  /\ used \subseteq used' /\ used' \subseteq SessionIds
  /\ sessions' \in [SessionIds -> People \cup {None}]
  /\ \A id \in used : sessions'[id] \in {None, sessions[id]}
  /\ x.kind \in {"register", "login"} /\ x.answer \in SessionIds =>
       x.answer \in used' /\ sessions'[x.answer] = x.person
  /\ x.kind = "me" => x.answer = Resolved(r.cookie)
  /\ x.kind = "look" /\ x.answer = "none" => homes[r.person] = 0
  /\ x.kind = "look" /\ x.answer = "ok" => homes[r.person] > 0
  /\ homes' = IF x.kind = "provide" /\ x.answer = "ok"
                THEN [homes EXCEPT ![r.person] = @ + 1] ELSE homes

\* There is a fresh id while not all have been used.
LEMMA FreshIdIsFresh ==
  ASSUME used \subseteq SessionIds, used # SessionIds
  PROVE  FreshId \in SessionIds \ used
<1>1. PICK id \in SessionIds : id \notin used
  OBVIOUS
<1> QED  BY <1>1 DEF FreshId

\* The fields of a request that has been answered, or whose password is hashed.
LEMMA AnswerIs ==
  ASSUME NEW r, WellFormed(r), NEW a \in AnswersTo(r.kind)
  PROVE  /\ WellFormed(Answer(r, a))
         /\ Answer(r, a).kind = r.kind /\ Answer(r, a).person = r.person
         /\ Answer(r, a).cookie = r.cookie /\ Answer(r, a).answer = a
         /\ Answer(r, a).phase = "answered"
<1>1. r \in Requests
  BY DEF WellFormed
<1>2. a \in {None, "ok", "none", "refused"} \cup SessionIds \cup People
  BY <1>1 DEF AnswersTo, Requests, Kinds
<1>3. Answer(r, a) \in Requests
  BY <1>1, <1>2 DEF Answer, Requests
<1>4. /\ Answer(r, a).kind = r.kind /\ Answer(r, a).person = r.person
      /\ Answer(r, a).cookie = r.cookie /\ Answer(r, a).answer = a
      /\ Answer(r, a).phase = "answered"
  BY <1>1 DEF Answer, Requests
<1> QED  BY <1>3, <1>4 DEF WellFormed

LEMMA HashedIs ==
  ASSUME NEW r, WellFormed(r), r.kind = "register", r.phase = "sent",
         NEW x, x = [r EXCEPT !.phase = "hashed"]
  PROVE  /\ WellFormed(x)
         /\ x.kind = r.kind /\ x.person = r.person
         /\ x.cookie = r.cookie /\ x.answer = None /\ x.phase = "hashed"
<1>1. r \in Requests /\ r.answer = None
  BY DEF WellFormed
<1>2. x \in Requests
  BY <1>1 DEF Requests
<1>3. /\ x.kind = r.kind /\ x.person = r.person
      /\ x.cookie = r.cookie /\ x.answer = None /\ x.phase = "hashed"
  BY <1>1 DEF Requests
<1> QED  BY <1>2, <1>3 DEF WellFormed

\* Every handler has such an outcome.
LEMMA ServeHasOutcome ==
  ASSUME TypeInv, NEW t, NEW r, WellFormed(r), r.phase # "answered", Serve(t, r)
  PROVE  \E x : Becomes(t, r, x) /\ Outcome(r, x)
<1> USE DEF TypeInv
<1>r. r \in Requests /\ r.answer = None /\ (r.kind \notin {"me", "logout"} => r.person \in People)
  BY DEF WellFormed, Requests
<1>n. None \notin SessionIds /\ "refused" \notin SessionIds
  BY NoneIsNothing
<1>1. CASE UNCHANGED server /\ r.kind \in {"register", "login"} /\ Becomes(t, r, Answer(r, "refused"))
  <2>1. "refused" \in AnswersTo(r.kind)
    BY <1>1 DEF AnswersTo
  <2> DEFINE x == Answer(r, "refused")
  <2>2. /\ WellFormed(x) /\ x.kind = r.kind /\ x.person = r.person /\ x.cookie = r.cookie
        /\ x.answer = "refused" /\ x.phase = "answered"
    BY <2>1, AnswerIs
  <2> HIDE DEF x
  <2>3. Outcome(r, x)
    BY <1>1, <2>2, <1>n DEF Outcome, server
  <2> QED  BY <1>1, <2>3 DEF x
<1>2. CASE UNCHANGED server /\ r.kind = "register" /\ r.phase = "sent"
           /\ Becomes(t, r, [r EXCEPT !.phase = "hashed"])
  <2> DEFINE x == [r EXCEPT !.phase = "hashed"]
  <2>2. /\ WellFormed(x) /\ x.kind = r.kind /\ x.person = r.person /\ x.cookie = r.cookie
        /\ x.answer = None /\ x.phase = "hashed"
    BY <1>2, HashedIs
  <2> HIDE DEF x
  <2>3. Outcome(r, x)
    BY <1>2, <2>2, <1>n DEF Outcome, server
  <2> QED  BY <1>2, <2>3 DEF x
<1>3. CASE /\ r.kind \in {"register", "login"} /\ NewSession(r.person, FreshId)
           /\ Becomes(t, r, Answer(r, FreshId)) /\ UNCHANGED homes
           /\ accounts' \in [People -> 0 .. 1]
  <2>1. FreshId \in SessionIds \ used
    BY <1>3, FreshIdIsFresh DEF NewSession
  <2>2. FreshId \in AnswersTo(r.kind)
    BY <1>3, <2>1 DEF AnswersTo
  <2> DEFINE x == Answer(r, FreshId)
  <2>3. /\ WellFormed(x) /\ x.kind = r.kind /\ x.person = r.person /\ x.cookie = r.cookie
        /\ x.answer = FreshId /\ x.phase = "answered"
    BY <2>2, AnswerIs
  <2> HIDE DEF x
  <2>4. /\ used' = used \cup {FreshId}
        /\ sessions' \in [SessionIds -> People \cup {None}]
        /\ sessions'[FreshId] = r.person
        /\ \A id \in used : sessions'[id] = sessions[id]
    BY <1>3, <1>r, <2>1 DEF NewSession
  <2>5. Outcome(r, x)
    BY <1>3, <2>1, <2>3, <2>4 DEF Outcome
  <2> QED  BY <1>3, <2>5 DEF x
<1>4. CASE r.kind = "logout" /\ ServeLogout(t, r)
  <2>1. "ok" \in AnswersTo(r.kind)
    BY <1>4 DEF AnswersTo
  <2> DEFINE x == Answer(r, "ok")
  <2>2. /\ WellFormed(x) /\ x.kind = r.kind /\ x.person = r.person /\ x.cookie = r.cookie
        /\ x.answer = "ok" /\ x.phase = "answered"
    BY <2>1, AnswerIs
  <2> HIDE DEF x
  <2>3. Outcome(r, x)
    BY <1>4, <2>2 DEF Outcome, ServeLogout
  <2> QED  BY <1>4, <2>3 DEF x, ServeLogout
<1>5. CASE r.kind \in {"me", "look", "provide", "resolve"} /\ ServeGuarded(t, r)
  <2> DEFINE a == CASE r.kind = "me" -> Resolved(r.cookie)
                    [] r.kind # "me" /\ ~Admitted(r) -> "refused"
                    [] r.kind = "look" /\ Admitted(r) /\ homes[r.person] = 0 -> "none"
                    [] OTHER -> "ok"
  <2>1. Resolved(r.cookie) \in People \cup {None}
    BY <1>r DEF Resolved, Requests
  <2>2. /\ r.kind = "me" => a = Resolved(r.cookie)
        /\ r.kind # "me" /\ ~Admitted(r) => a = "refused"
        /\ r.kind = "look" /\ Admitted(r) /\ homes[r.person] = 0 => a = "none"
        /\ r.kind = "look" /\ Admitted(r) /\ homes[r.person] # 0 => a = "ok"
        /\ r.kind \in {"provide", "resolve"} /\ Admitted(r) => a = "ok"
    OBVIOUS
  <2>3. Becomes(t, r, Answer(r, a))
    BY <1>5 DEF ServeGuarded
  <2> HIDE DEF a
  <2>4. a \in AnswersTo(r.kind)
    BY <1>5, <2>1, <2>2 DEF AnswersTo
  <2> DEFINE x == Answer(r, a)
  <2>5. /\ WellFormed(x) /\ x.kind = r.kind /\ x.person = r.person /\ x.cookie = r.cookie
        /\ x.answer = a /\ x.phase = "answered"
    BY <2>4, AnswerIs
  <2> HIDE DEF x
  <2>6. /\ homes' = IF r.kind = "provide" /\ Admitted(r) THEN [homes EXCEPT ![r.person] = @ + 1] ELSE homes
        /\ UNCHANGED <<accounts, sessions, used>>
    BY <1>5 DEF ServeGuarded
  <2>7. homes' = IF x.kind = "provide" /\ x.answer = "ok"
                   THEN [homes EXCEPT ![r.person] = @ + 1] ELSE homes
    BY <2>2, <2>5, <2>6
  <2>8. homes' \in [People -> Nat]
    BY <2>6, <1>r
  <2>9. r.person \in People => homes[r.person] \in Nat
    OBVIOUS
  <2>10. Outcome(r, x)
    BY <1>5, <1>r, <2>2, <2>5, <2>6, <2>7, <2>8, <2>9 DEF Outcome
  <2> QED  BY <2>3, <2>10 DEF x
<1>6. CASE r.kind = "register" /\ ServeRegister(t, r)
  <2>1. CASE /\ r.phase = "sent"
             /\ Becomes(t, r, IF accounts[r.person] > 0 THEN Answer(r, "refused") ELSE [r EXCEPT !.phase = "hashed"])
             /\ UNCHANGED server
    BY <1>6, <2>1, <1>1, <1>2
  <2>2. CASE /\ r.phase = "hashed" /\ EmailFree(r.person)
             /\ NewSession(r.person, FreshId) /\ Becomes(t, r, Answer(r, FreshId))
             /\ accounts' = [accounts EXCEPT ![r.person] = @ + 1]
             /\ UNCHANGED homes
    <3>1. accounts' \in [People -> 0 .. 1]
      BY <1>6, <2>2, <1>r DEF EmailFree
    <3> QED  BY <1>6, <2>2, <3>1, <1>3
  <2>3. CASE UNCHANGED server /\ Becomes(t, r, Answer(r, "refused"))
    BY <1>6, <2>3, <1>1
  <2> QED  BY <1>6, <2>1, <2>2, <2>3 DEF ServeRegister
<1>7. CASE r.kind = "login" /\ ServeLogin(t, r)
  <2>1. CASE /\ NewSession(r.person, FreshId) /\ Becomes(t, r, Answer(r, FreshId))
             /\ UNCHANGED <<accounts, homes>>
    BY <1>7, <2>1, <1>3
  <2>2. CASE Becomes(t, r, Answer(r, "refused")) /\ UNCHANGED server
    BY <1>7, <2>2, <1>1
  <2> QED  BY <1>7, <2>1, <2>2 DEF ServeLogin
<1>8. r.kind \in {"register", "login", "logout", "me", "look", "provide", "resolve"}
  BY <1>r DEF Requests, Kinds
<1> QED  BY <1>4, <1>5, <1>6, <1>7, <1>8 DEF Serve

-------------------------------------------------------------------------------
(***************************************************************************)
(* A tab's step                                                            *)
(***************************************************************************)

\* What tab t waits for, and what it shows, after its own step.
Moves(t, y, a, s) ==
  /\ request' = [request EXCEPT ![t] = y]
  /\ at' = [at EXCEPT ![t] = a] /\ session' = [session EXCEPT ![t] = s]
  /\ UNCHANGED <<server, raced>>

\* A request goes out with the cookie there is by then, and without an answer.
LEMMA SentIs ==
  ASSUME TypeInv, NEW kind \in Kinds, NEW c \in SessionIds \cup {None},
         NEW p \in People \cup {None}, p # None <=> kind \notin {"me", "logout"}
  PROVE  /\ WellFormed(Sent(kind, c, p)) /\ Sent(kind, c, p) # None
         /\ Sent(kind, c, p).kind = kind /\ Sent(kind, c, p).person = p
         /\ Sent(kind, c, p).cookie = c /\ Sent(kind, c, p).phase = "sent"
         /\ Sent(kind, c, p).answer = None
  BY NoneIsNoRequest DEF Sent, Requests, WellFormed

\* The request a tab has sent, for each kind of person and cookie.
LEMMA AskIs ==
  ASSUME TypeInv, NEW t \in Tabs, NEW kind \in Kinds, NEW p \in People \cup {None},
         p # None <=> kind \notin {"me", "logout"},
         cookie' \in SessionIds \cup {None}, Ask(t, kind, p)
  PROVE  \E y : /\ request' = [request EXCEPT ![t] = y]
                /\ WellFormed(y) /\ y # None /\ y.kind = kind /\ y.person = p
                /\ y.phase = "sent" /\ y.answer = None
                /\ kind \notin {"register", "login"} => y.cookie = cookie'
<1> DEFINE c == IF kind \in {"register", "login"} THEN None ELSE cookie'
           y == Sent(kind, c, p)
<1>1. c \in SessionIds \cup {None}
  OBVIOUS
<1>2. request' = [request EXCEPT ![t] = y]
  BY DEF Ask
<1>3. kind \notin {"register", "login"} => c = cookie'
  OBVIOUS
<1> HIDE DEF c
<1>4. /\ WellFormed(y) /\ y # None /\ y.kind = kind /\ y.person = p
      /\ y.cookie = c /\ y.phase = "sent" /\ y.answer = None
  BY <1>1, SentIs
<1> HIDE DEF y
<1> QED  BY <1>2, <1>3, <1>4

\* A step that keeps the server, and gives one tab a request that suits what it shows.
LEMMA MovesKeepsTypes ==
  ASSUME TypeInv, NEW t \in Tabs, NEW y, NEW a \in {"boot", "form", "app"},
         NEW s \in People \cup {None}, Moves(t, y, a, s),
         y # None => WellFormed(y),
         s # None => a = "app" /\ (y # None => y.kind = "logout"),
         y # None /\ y.kind \in {"register", "login"} => a = "form",
         y # None /\ y.kind = "resolve" => a = "app",
         cookie' \in used \cup {None}, overtaken' \subseteq Tabs,
         \/ orphans' = orphans
         \/ /\ orphans' = orphans \cup {request[t]}
            /\ request[t] # None /\ request[t].phase # "answered"
            /\ request[t].kind \in {"register", "provide", "logout"}
  PROVE  TypeInv'
<1> USE DEF TypeInv
<1>1. y \in Requests \cup {None}
  BY DEF WellFormed
<1>2. /\ request' \in [Tabs -> Requests \cup {None}] /\ request'[t] = y
      /\ at' \in [Tabs -> {"boot", "form", "app"}] /\ at'[t] = a
      /\ session' \in [Tabs -> People \cup {None}] /\ session'[t] = s
      /\ \A u \in Tabs \ {t} : /\ request'[u] = request[u] /\ at'[u] = at[u]
                               /\ session'[u] = session[u]
  BY <1>1 DEF Moves
<1>3. \A u \in Tabs : TabInv(u)'
  BY <1>2 DEF TabInv
<1>4. \A o \in orphans' : WellFormed(o) /\ o.phase # "answered" /\ o.kind \in {"register", "provide", "logout"}
  BY DEF TabInv
<1>5. UNCHANGED <<accounts, sessions, used, homes, raced>>
  BY DEF Moves, server
<1> QED  BY <1>2, <1>3, <1>4, <1>5

\* A served request keeps the types.
LEMMA ServedKeepsTypes ==
  ASSUME TypeInv, NEW t \in Tabs, request[t] # None, NEW x, Outcome(request[t], x),
         request' = [request EXCEPT ![t] = x], UNCHANGED orphans,
         UNCHANGED <<cookie, at, session, overtaken>>, raced' \subseteq People
  PROVE  TypeInv'
<1> USE DEF TypeInv
<1>1. x \in Requests /\ x # None
  BY NoneIsNoRequest DEF Outcome, WellFormed
<1>2. /\ request' \in [Tabs -> Requests \cup {None}] /\ request'[t] = x
      /\ \A u \in Tabs \ {t} : request'[u] = request[u]
  BY <1>1
<1>3. \A u \in Tabs : TabInv(u)'
  BY <1>1, <1>2 DEF TabInv, Outcome
<1> QED  BY <1>2, <1>3 DEF Outcome

LEMMA OrphanServedKeepsTypes ==
  ASSUME TypeInv, NEW o \in orphans, NEW x, Outcome(o, x),
         orphans' = (orphans \ {o}) \cup {y \in {x} : y.phase # "answered"},
         UNCHANGED <<cookie, at, session, overtaken, request, raced>>
  PROVE  TypeInv'
<1> USE DEF TypeInv
<1>1. \A u \in Tabs : TabInv(u)'
  BY DEF TabInv
<1>2. \A q \in orphans' : WellFormed(q) /\ q.phase # "answered" /\ q.kind \in {"register", "provide", "logout"}
  BY DEF Outcome
<1> QED  BY <1>1, <1>2 DEF Outcome

\* What every step of a tab has in common, whichever it is: nothing is shown, asked
\* for or provided that was not found first, and the tab still follows its cookie.
Suits(t, y, a, s) ==
  /\ a \in {"boot", "form", "app"} /\ s \in People \cup {None}
  /\ y # None => WellFormed(y) /\ y.phase = "sent" /\ y.answer = None
  /\ s # None => a = "app" /\ (y # None => y.kind = "logout")
  /\ y # None /\ y.kind \in {"register", "login"} => a = "form"
  /\ y # None /\ y.kind = "resolve" => a = "app"
  /\ s # None => homes[s] > 0
  /\ y # None /\ y.kind = "resolve" => homes[y.person] > 0
  /\ y # None /\ y.kind = "provide" => Providing(request[t], y.person) /\ orphans' = orphans
  /\ \/ orphans' = orphans
     \/ /\ orphans' = orphans \cup {request[t]}
        /\ request[t] # None /\ request[t].phase # "answered"
        /\ request[t].kind \in {"register", "provide", "logout"}
  /\ cookie' \in used \cup {None}
  /\ \/ overtaken' = (overtaken \cup Tabs) \ {t}
     \/ overtaken' \in {overtaken, overtaken \ {t}} /\ cookie' \in {cookie, None}
  /\ t \notin overtaken' =>
       /\ s # None => Resolved(cookie') \in {None, s}
       /\ y # None /\ y.kind \in {"look", "provide", "resolve"} => Resolved(cookie') \in {None, y.person}
       /\ y # None /\ y.kind = "me" => cookie' \in {None, y.cookie} /\ y.cookie \in used \cup {None}

\* A cookie that is dropped names nobody.
LEMMA NobodyResolved == Resolved(None) = None
  BY DEF Resolved

\* What the invariant says of the request a tab has.
LEMMA TabOf ==
  ASSUME Inv, NEW t \in Tabs
  PROVE  /\ session[t] \in People \cup {None} /\ at[t] \in {"boot", "form", "app"}
         /\ TabInv(t) /\ Housed(t) /\ Issued(t)
         /\ t \notin overtaken => Followed(t)
         /\ request[t] # None => request[t] \in Requests
  BY DEF Inv, TypeInv, HomeInv, ShownInv

LEMMA SubmitMoves ==
  ASSUME Inv, NEW t \in Tabs, NEW p \in People, NEW kind \in {"register", "login"}, Submit(t, kind, p)
  PROVE  \E y, a, s : Moves(t, y, a, s) /\ Suits(t, y, a, s)
<1>1. TypeInv /\ cookie' = cookie /\ at[t] = "form" /\ Ask(t, kind, p)
      /\ UNCHANGED <<server, raced, at, session, overtaken, orphans>>
  BY DEF Inv, Submit, Elsewhere
<1>2. kind \in Kinds /\ p # None /\ cookie \in used \cup {None} /\ used \subseteq SessionIds
  BY <1>1, NoneIsNothing DEF Kinds, TypeInv
<1>3. PICK y : /\ request' = [request EXCEPT ![t] = y]
               /\ WellFormed(y) /\ y # None /\ y.kind = kind /\ y.person = p
               /\ y.phase = "sent" /\ y.answer = None
  BY <1>1, <1>2, AskIs
<1>4. session[t] = None
  BY <1>1, TabOf DEF TabInv
<1>5. Moves(t, y, "form", None)
  BY <1>1, <1>3, <1>4 DEF Moves, TypeInv
<1>6. Suits(t, y, "form", None)
  BY <1>1, <1>2, <1>3 DEF Suits
<1> QED  BY <1>5, <1>6

LEMMA LogoutMoves ==
  ASSUME Inv, NEW t \in Tabs, Logout(t)
  PROVE  \E y, a, s : Moves(t, y, a, s) /\ Suits(t, y, a, s)
<1>1. TypeInv /\ cookie' = cookie /\ at[t] = "app" /\ session[t] # None /\ Ask(t, "logout", None)
      /\ UNCHANGED <<server, raced, at, session, overtaken, orphans>>
  BY DEF Inv, Logout, Elsewhere
<1>2. "logout" \in Kinds /\ cookie \in used \cup {None} /\ used \subseteq SessionIds
  BY <1>1 DEF Kinds, TypeInv
<1>3. PICK y : /\ request' = [request EXCEPT ![t] = y]
               /\ WellFormed(y) /\ y # None /\ y.kind = "logout"
               /\ y.phase = "sent" /\ y.answer = None
  BY <1>1, <1>2, AskIs
<1>5. Moves(t, y, "app", session[t])
  BY <1>1, <1>3 DEF Moves, TypeInv
<1>6. Suits(t, y, "app", session[t])
  BY <1>1, <1>2, <1>3, TabOf DEF Suits, Housed, Followed
<1> QED  BY <1>5, <1>6

LEMMA SignedInMoves ==
  ASSUME Inv, NEW t \in Tabs, NEW r, r = request[t], r # None, r.phase = "answered",
         SignedIn(t, r), Elsewhere
  PROVE  \E y, a, s : Moves(t, y, a, s) /\ Suits(t, y, a, s)
<1>1. /\ TypeInv /\ cookie' = r.answer /\ overtaken' = (overtaken \cup Tabs) \ {t}
      /\ Ask(t, "look", r.person) /\ r.kind \in {"register", "login"} /\ r.answer # "refused"
      /\ UNCHANGED <<server, raced, at, session, orphans>>
  BY DEF Inv, SignedIn, SetSessionCookie, Elsewhere
<1>2. WellFormed(r) /\ at[t] = "form" /\ session[t] = None
  BY <1>1, TabOf DEF TabInv
<1>3. r.answer \in SessionIds /\ r.person \in People
  BY <1>1, <1>2 DEF WellFormed, AnswersTo, Requests
<1>4. r.answer \in used /\ sessions[r.answer] \in {None, r.person}
  BY <1>1, <1>3, TabOf DEF Issued
<1>5. "look" \in Kinds /\ cookie' \in SessionIds \cup {None} /\ r.person # None
  BY <1>1, <1>3, NoneIsNothing DEF Kinds
<1>6. PICK y : /\ request' = [request EXCEPT ![t] = y]
               /\ WellFormed(y) /\ y # None /\ y.kind = "look" /\ y.person = r.person
               /\ y.phase = "sent" /\ y.answer = None
  BY <1>1, <1>3, <1>5, AskIs
<1>7. Moves(t, y, "form", None)
  BY <1>1, <1>2, <1>6 DEF Moves, TypeInv
<1>8. Resolved(cookie') \in {None, r.person}
  BY <1>1, <1>4 DEF Resolved
<1>9. Suits(t, y, "form", None)
  BY <1>1, <1>4, <1>6, <1>8 DEF Suits
<1> QED  BY <1>7, <1>9

LEMMA CheckedMoves ==
  ASSUME Inv, NEW t \in Tabs, NEW r, r = request[t], r # None, r.phase = "answered",
         Checked(t, r), Elsewhere
  PROVE  \E y, a, s : Moves(t, y, a, s) /\ Suits(t, y, a, s)
<1>1. /\ TypeInv /\ cookie' = cookie /\ overtaken' = overtaken /\ r.kind = "me"
      /\ UNCHANGED <<server, raced, session, orphans>> /\ session[t] = None
  BY TabOf DEF Inv, Checked, Elsewhere, TabInv
<1>2. WellFormed(r) /\ cookie \in used \cup {None} /\ used \subseteq SessionIds
  BY <1>1, TabOf DEF TabInv, TypeInv
<1>3. r.answer \in People \cup {None}
  BY <1>1, <1>2 DEF WellFormed, AnswersTo
<1>4. CASE r.answer = None
  <2>1. at' = [at EXCEPT ![t] = "form"] /\ request' = [request EXCEPT ![t] = None]
    BY <1>4 DEF Checked, Rest
  <2>2. Moves(t, None, "form", None)
    BY <1>1, <2>1 DEF Moves, TypeInv
  <2>3. Suits(t, None, "form", None)
    BY <1>1, <1>2 DEF Suits
  <2> QED  BY <2>2, <2>3
<1>5. CASE r.answer # None
  <2>1. UNCHANGED at /\ Ask(t, "look", r.answer) /\ "look" \in Kinds
    BY <1>5 DEF Checked, Kinds
  <2>2. PICK y : /\ request' = [request EXCEPT ![t] = y]
                 /\ WellFormed(y) /\ y # None /\ y.kind = "look" /\ y.person = r.answer
                 /\ y.phase = "sent" /\ y.answer = None
    BY <1>1, <1>2, <1>3, <1>5, <2>1, AskIs
  <2>3. Moves(t, y, at[t], None)
    BY <1>1, <2>1, <2>2 DEF Moves, TypeInv
  <2>4. t \notin overtaken => Resolved(cookie) \in {None, r.answer}
    BY <1>1, <1>5, TabOf, NobodyResolved DEF Followed
  <2>5. Suits(t, y, at[t], None)
    BY <1>1, <1>2, <2>2, <2>4, TabOf DEF Suits
  <2> QED  BY <2>3, <2>5
<1> QED  BY <1>4, <1>5

LEMMA ProvidedMoves ==
  ASSUME Inv, NEW t \in Tabs, NEW r, r = request[t], r # None, r.phase = "answered",
         Provided(t, r), Elsewhere
  PROVE  \E y, a, s : Moves(t, y, a, s) /\ Suits(t, y, a, s)
<1>1. /\ TypeInv /\ cookie' = cookie /\ overtaken' = overtaken
      /\ r.kind \in {"look", "provide"} /\ r.answer # "refused"
      /\ UNCHANGED <<server, raced, session, orphans>> /\ session[t] = None
  BY TabOf DEF Inv, Provided, Elsewhere, TabInv
<1>2. WellFormed(r) /\ cookie \in used \cup {None} /\ used \subseteq SessionIds
  BY <1>1, TabOf DEF TabInv, TypeInv
<1>3. r.person \in People /\ r.person # None /\ r.answer \in {"none", "ok"}
  BY <1>1, <1>2, NoneIsNothing DEF WellFormed, AnswersTo, Requests
<1>4. t \notin overtaken => Resolved(cookie) \in {None, r.person}
  BY <1>1, TabOf DEF Followed
<1>5. CASE r.answer = "none"
  <2>1. UNCHANGED at /\ Ask(t, "provide", r.person) /\ "provide" \in Kinds
    BY <1>5 DEF Provided, Kinds
  <2>2. PICK y : /\ request' = [request EXCEPT ![t] = y]
                 /\ WellFormed(y) /\ y # None /\ y.kind = "provide" /\ y.person = r.person
                 /\ y.phase = "sent" /\ y.answer = None
    BY <1>1, <1>2, <1>3, <2>1, AskIs
  <2>3. Moves(t, y, at[t], None)
    BY <1>1, <2>1, <2>2 DEF Moves, TypeInv
  <2>4. r.kind = "look"
    BY <1>1, <1>2, <1>5 DEF WellFormed, AnswersTo
  <2>5. Providing(request[t], r.person)
    BY <1>5, <2>4 DEF Providing
  <2>6. Suits(t, y, at[t], None)
    BY <1>1, <1>2, <1>4, <2>2, <2>5, TabOf DEF Suits
  <2> QED  BY <2>3, <2>6
<1>6. CASE r.answer = "ok"
  <2>1. at' = [at EXCEPT ![t] = "app"] /\ Ask(t, "resolve", r.person) /\ "resolve" \in Kinds
    BY <1>6 DEF Provided, Kinds
  <2>2. PICK y : /\ request' = [request EXCEPT ![t] = y]
                 /\ WellFormed(y) /\ y # None /\ y.kind = "resolve" /\ y.person = r.person
                 /\ y.phase = "sent" /\ y.answer = None
    BY <1>1, <1>2, <1>3, <2>1, AskIs
  <2>3. Moves(t, y, "app", None)
    BY <1>1, <2>1, <2>2 DEF Moves, TypeInv
  <2>4. homes[r.person] > 0
    BY <1>1, <1>6, TabOf DEF Housed
  <2>5. Suits(t, y, "app", None)
    BY <1>1, <1>2, <1>4, <2>2, <2>4 DEF Suits
  <2> QED  BY <2>3, <2>5
<1> QED  BY <1>3, <1>5, <1>6

LEMMA SessionResolvedMoves ==
  ASSUME Inv, NEW t \in Tabs, NEW r, r = request[t], r # None, r.phase = "answered",
         SessionResolved(t, r), Elsewhere
  PROVE  \E y, a, s : Moves(t, y, a, s) /\ Suits(t, y, a, s)
<1>1. /\ TypeInv /\ r.kind = "resolve" /\ request' = [request EXCEPT ![t] = None]
      /\ session' = [session EXCEPT ![t] = r.person]
      /\ UNCHANGED <<server, raced, cookie, at, overtaken, orphans>>
  BY DEF Inv, SessionResolved, Rest, Elsewhere
<1>2. WellFormed(r) /\ cookie \in used \cup {None}
  BY <1>1, TabOf DEF TabInv, TypeInv
<1>3. r.person \in People /\ homes[r.person] > 0
  BY <1>1, <1>2, TabOf DEF WellFormed, Requests, Housed
<1>4. t \notin overtaken => Resolved(cookie) \in {None, r.person}
  BY <1>1, TabOf DEF Followed
<1>5. at[t] = "app"
  BY <1>1, <1>2, TabOf DEF TabInv
<1>6. Moves(t, None, "app", r.person)
  BY <1>1, <1>5 DEF Moves, TypeInv
<1>7. Suits(t, None, "app", r.person)
  BY <1>1, <1>2, <1>3, <1>4 DEF Suits
<1> QED  BY <1>6, <1>7

LEMMA LoggedOutMoves ==
  ASSUME Inv, NEW t \in Tabs, NEW r, r = request[t], r # None, r.phase = "answered",
         LoggedOut(t, r), Elsewhere
  PROVE  \E y, a, s : Moves(t, y, a, s) /\ Suits(t, y, a, s)
<1>1. /\ request' = [request EXCEPT ![t] = None] /\ cookie' = None
      /\ at' = [at EXCEPT ![t] = "form"] /\ session' = [session EXCEPT ![t] = None]
      /\ UNCHANGED <<server, raced, overtaken, orphans>>
  BY DEF LoggedOut, Rest, Elsewhere
<1>2. Moves(t, None, "form", None)
  BY <1>1 DEF Moves
<1>3. Suits(t, None, "form", None)
  BY <1>1 DEF Suits
<1> QED  BY <1>2, <1>3

\* A tab that gives up shows what it showed, or the form.
LEMMA GiveUpMoves ==
  ASSUME Inv, NEW t \in Tabs, GiveUp(t), UNCHANGED <<server, raced>>,
         \/ orphans' = orphans
         \/ /\ orphans' = orphans \cup {request[t]}
            /\ request[t] # None /\ request[t].phase # "answered"
            /\ request[t].kind \in {"register", "provide", "logout"}
  PROVE  \E y, a, s : Moves(t, y, a, s) /\ Suits(t, y, a, s)
<1> DEFINE a == IF at[t] = "boot" THEN "form" ELSE at[t]
<1>1. /\ request' = [request EXCEPT ![t] = None] /\ TypeInv
      /\ UNCHANGED <<cookie, session, overtaken>>
  BY DEF GiveUp, Rest, Inv
<1>2. at' = [at EXCEPT ![t] = a]
  BY DEF GiveUp
<1>3. /\ a \in {"boot", "form", "app"} /\ cookie \in used \cup {None}
      /\ session[t] # None => a = "app" /\ homes[session[t]] > 0
      /\ session[t] \in People \cup {None}
      /\ t \notin overtaken /\ session[t] # None => Resolved(cookie) \in {None, session[t]}
  BY <1>1, TabOf DEF TabInv, TypeInv, Housed, Followed
<1> HIDE DEF a
<1>4. Moves(t, None, a, session[t])
  BY <1>1, <1>2 DEF Moves, TypeInv
<1>5. t \notin overtaken' => /\ session[t] # None => Resolved(cookie') \in {None, session[t]}
  BY <1>1, <1>3
<1>6. Suits(t, None, a, session[t])
  BY <1>1, <1>3, <1>5 DEF Suits
<1> QED  BY <1>4, <1>6

LEMMA ReloadMoves ==
  ASSUME Inv, NEW t \in Tabs, Reload(t)
  PROVE  \E y, a, s : Moves(t, y, a, s) /\ Suits(t, y, a, s)
<1>1. /\ TypeInv /\ cookie' = cookie /\ Ask(t, "me", None) /\ overtaken' = overtaken \ {t}
      /\ at' = [at EXCEPT ![t] = "boot"] /\ session' = [session EXCEPT ![t] = None]
      /\ Abandon(request[t]) /\ UNCHANGED <<server, raced>>
  BY DEF Inv, Reload
<1>2. "me" \in Kinds /\ cookie \in used \cup {None} /\ used \subseteq SessionIds
  BY <1>1 DEF Kinds, TypeInv
<1>3. PICK y : /\ request' = [request EXCEPT ![t] = y]
               /\ WellFormed(y) /\ y # None /\ y.kind = "me"
               /\ y.phase = "sent" /\ y.answer = None /\ y.cookie = cookie
  BY <1>1, <1>2, AskIs
<1>4. Moves(t, y, "boot", None)
  BY <1>1, <1>3 DEF Moves
<1>5. Suits(t, y, "boot", None)
  BY <1>1, <1>2, <1>3 DEF Suits, Abandon
<1> QED  BY <1>4, <1>5

\* So it is with each of them.
TabStep ==
  \/ \E t \in Tabs : Answered(t) \/ Refused(t) \/ Lost(t) \/ Logout(t) \/ Reload(t)
  \/ \E t \in Tabs, p \in People, kind \in {"register", "login"} : Submit(t, kind, p)

LEMMA TabStepMoves ==
  ASSUME Inv, TabStep
  PROVE  \E t \in Tabs : \E y, a, s : Moves(t, y, a, s) /\ Suits(t, y, a, s)
<1>1. ASSUME NEW t \in Tabs, Answered(t) PROVE \E y, a, s : Moves(t, y, a, s) /\ Suits(t, y, a, s)
  BY <1>1, SignedInMoves, CheckedMoves, ProvidedMoves, SessionResolvedMoves, LoggedOutMoves
     DEF Answered
<1>2. ASSUME NEW t \in Tabs, Refused(t) PROVE \E y, a, s : Moves(t, y, a, s) /\ Suits(t, y, a, s)
  BY <1>2, GiveUpMoves DEF Refused, Elsewhere
<1>3. ASSUME NEW t \in Tabs, Lost(t) PROVE \E y, a, s : Moves(t, y, a, s) /\ Suits(t, y, a, s)
  BY <1>3, GiveUpMoves DEF Lost, Abandon
<1> QED
  BY <1>1, <1>2, <1>3, SubmitMoves, LogoutMoves, ReloadMoves DEF TabStep

-------------------------------------------------------------------------------
(***************************************************************************)
(* The invariants                                                          *)
(***************************************************************************)

\* Sessions that were there stay or end.
LEMMA SessionsEnd ==
  ASSUME TypeInv, \A id \in used : sessions'[id] \in {None, sessions[id]},
         NEW c \in used \cup {None}, NEW p, Resolved(c) \in {None, p}
  PROVE  Resolved(c)' \in {None, p}
<1>1. CASE c = None
  BY <1>1 DEF Resolved
<1>2. CASE c # None
  BY <1>2 DEF Resolved
<1> QED  BY <1>1, <1>2

\* A tab's step keeps all three.
LEMMA MovesKeepInv ==
  ASSUME Inv, NEW t \in Tabs, NEW y, NEW a, NEW s, Moves(t, y, a, s), Suits(t, y, a, s)
  PROVE  Inv'
<1>t. /\ TypeInv /\ UNCHANGED <<accounts, sessions, used, homes, raced>>
      /\ y # None => WellFormed(y) /\ y.phase = "sent" /\ y.answer = None
  BY DEF Inv, Moves, server, Suits
<1>1. TypeInv'
  <2>1. overtaken' \subseteq Tabs
    BY <1>t DEF Suits, TypeInv
  <2> QED  BY <1>t, <2>1, MovesKeepsTypes DEF Suits
<1>2. /\ request'[t] = y /\ session'[t] = s
      /\ \A u \in Tabs \ {t} : request'[u] = request[u] /\ session'[u] = session[u]
  BY <1>t DEF Moves, TypeInv
<1>3. HomeInv'
  <2>1. \A u \in Tabs : Housed(u)'
    BY <1>t, <1>2, NoneIsNothing DEF Suits, Housed, Inv, HomeInv
  <2>2. ASSUME NEW p \in People \ raced PROVE ProvidedOnce(p)'
    <3>1. ProvidedOnce(p)
      BY DEF Inv, HomeInv
    <3>2. Providing(y, p) => Providing(request[t], p) /\ orphans' = orphans
      BY <1>t, NoneIsNothing DEF Suits, Providing
    <3>3. \A u \in Tabs : Providing(request'[u], p) => Providing(request[u], p)
      BY <1>2, <3>2
    <3>4. CASE orphans' = orphans
      <4>1. \A q : Providing(q, p)' <=> Providing(q, p)
        BY DEF Providing
      <4> QED  BY <1>t, <3>1, <3>3, <3>4, <4>1 DEF ProvidedOnce
    <3>5. CASE orphans' = orphans \cup {request[t]} /\ ~Providing(y, p)
      <4>1. \A u \in Tabs : Providing(request'[u], p) => u # t /\ Providing(request[u], p)
        BY <1>2, <3>5
      <4> QED  BY <1>t, <3>1, <3>5, <4>1 DEF ProvidedOnce
    <3> QED  BY <3>2, <3>4, <3>5 DEF Suits
  <2> QED  BY <1>t, <2>1, <2>2 DEF HomeInv
<1>4. ShownInv'
  <2>1. \A u \in Tabs : Issued(u)'
    BY <1>t, <1>2, NoneIsNothing DEF Issued, Inv, ShownInv
  <2>2. ASSUME NEW u \in Tabs \ overtaken' PROVE Followed(u)'
    <3>1. CASE u = t
      BY <1>t, <1>2, <3>1 DEF Suits, Followed, Resolved
    <3>2. CASE u # t
      <4>1. cookie' \in {cookie, None} /\ u \notin overtaken
        BY <3>2 DEF Suits
      <4>2. Followed(u)
        BY <4>1 DEF Inv, ShownInv
      <4> QED  BY <1>t, <1>2, <3>2, <4>1, <4>2 DEF Followed, Resolved
    <3> QED  BY <3>1, <3>2
  <2> QED  BY <2>1, <2>2 DEF ShownInv
<1> QED  BY <1>1, <1>3, <1>4 DEF Inv

\* The record of who raced: people whose search came up empty while another of their
\* requests was providing.
LEMMA ServedKeepsHomes ==
  ASSUME Inv, NEW t \in Tabs, Served(t), NEW x, Outcome(request[t], x),
         request' = [request EXCEPT ![t] = x], UNCHANGED orphans
  PROVE  HomeInv'
<1> DEFINE r == request[t]
<1>1. /\ TypeInv /\ r # None /\ r.phase # "answered" /\ session' = session
      /\ raced' = IF r.kind = "look" /\ request'[t].answer = "none" /\ Begun(r)
                    THEN raced \cup {r.person} ELSE raced
  BY DEF Served, Inv
<1>2. request'[t] = x /\ \A u \in Tabs \ {t} : request'[u] = request[u]
  BY <1>1 DEF TypeInv
<1>3. x.kind = r.kind /\ x.person = r.person /\ x.phase # "sent" /\ WellFormed(r) /\ r.answer = None
      /\ WellFormed(x)
  BY <1>1, TabOf DEF Outcome, TabInv, WellFormed
<1>4. /\ homes \in [People -> Nat] /\ homes' \in [People -> Nat]
      /\ homes' = IF x.kind = "provide" /\ x.answer = "ok"
                    THEN [homes EXCEPT ![r.person] = @ + 1] ELSE homes
      /\ x.kind = "look" /\ x.answer = "none" => homes[r.person] = 0
      /\ x.kind = "look" /\ x.answer = "ok" => homes[r.person] > 0
  BY <1>1 DEF Outcome, TypeInv
<1>5. \A p \in People : /\ homes[p] <= homes'[p]
                        /\ homes'[p] # homes[p] =>
                             p = r.person /\ x.kind = "provide" /\ homes'[p] = homes[p] + 1
                        /\ p = r.person /\ x.kind = "provide" /\ x.answer = "ok" => homes'[p] > 0
  BY <1>4
<1>6. \A u \in Tabs : Housed(u)'
  <2> SUFFICES ASSUME NEW u \in Tabs PROVE Housed(u)'
    OBVIOUS
  <2>1. Housed(u) /\ session[u] \in People \cup {None} /\ TabInv(u) /\ homes \in [People -> Nat]
    BY <1>4, TabOf
  <2>2. session[u] # None => homes'[session[u]] > 0
    BY <1>4, <1>5, <2>1 DEF Housed
  <2>3. CASE u # t
    <3>1. request[u] # None /\ request[u].kind \in {"resolve", "look", "provide"} => request[u].person \in People
      BY <2>1 DEF TabInv, WellFormed, Requests
    <3> QED  BY <1>1, <1>2, <1>4, <1>5, <2>1, <2>2, <2>3, <3>1 DEF Housed
  <2>4. CASE u = t
    <3>1. r.kind \in {"resolve", "look", "provide"} => r.person \in People
      BY <1>3 DEF WellFormed, Requests
    <3>2. r.kind = "resolve" => homes[r.person] > 0
      BY <1>1, <2>1, <2>4 DEF Housed
    <3> QED  BY <1>1, <1>2, <1>3, <1>4, <1>5, <2>2, <2>4, <3>1, <3>2 DEF Housed
  <2> QED  BY <2>3, <2>4
<1>7. ASSUME NEW p \in People \ raced' PROVE ProvidedOnce(p)'
  <2>1. ProvidedOnce(p) /\ p \notin raced
    BY <1>1, <1>7 DEF Inv, HomeInv
  <2>2. \A q : Providing(q, p)' <=> Providing(q, p)
    BY DEF Providing
  <2>3. Providing(x, p) => /\ r.kind = "look" /\ x.answer = "none" /\ homes[p] = 0
                           /\ ~Begun(r) /\ homes'[p] = homes[p]
    BY <1>1, <1>2, <1>3, <1>4, <1>5, <1>7, <2>1 DEF Providing
  <2>4. Providing(x, p) => /\ \A u \in Tabs \ {t} : ~Providing(request[u], p)
                           /\ \A o \in orphans : ~Providing(o, p)
    <3>0. Providing(x, p) => ~Providing(r, p)
      BY <2>3, <1>3, NoneIsNothing DEF Providing
    <3> SUFFICES ASSUME Providing(x, p), NEW q \in {request[u] : u \in Tabs} \cup orphans,
                        Providing(q, p), q # r
                 PROVE FALSE
      BY <3>0
    <3>1. q.person = r.person /\ q # None
      BY <1>3 DEF Providing
    <3>2. Begun(r)
      BY <3>1 DEF Providing, Begun
    <3> QED  BY <2>3, <3>2
  <2>5. homes'[p] # homes[p] => /\ r.kind = "provide" /\ r.phase = "sent" /\ r.person = p
                                /\ homes'[p] = homes[p] + 1
    BY <1>3, <1>5, <1>1 DEF WellFormed, Requests
  <2>6. homes'[p] # homes[p] => Providing(r, p) /\ homes[p] = 0 /\ homes'[p] = 1
    BY <1>1, <2>1, <2>5 DEF Providing, ProvidedOnce
  <2>7. homes'[p] # homes[p] => /\ \A u \in Tabs \ {t} : ~Providing(request[u], p)
                                /\ \A o \in orphans : ~Providing(o, p)
                                /\ ~Providing(x, p)
    BY <2>1, <2>3, <2>6 DEF ProvidedOnce
  <2> QED  BY <1>2, <2>1, <2>2, <2>3, <2>4, <2>6, <2>7 DEF ProvidedOnce
<1> QED  BY <1>6, <1>7 DEF HomeInv

LEMMA OrphanServedKeepsHomes ==
  ASSUME Inv, NEW o \in orphans, OrphanServed(o), NEW x, Outcome(o, x),
         orphans' = (orphans \ {o}) \cup {y \in {x} : y.phase # "answered"}, UNCHANGED request
  PROVE  HomeInv'
<1>1. TypeInv /\ raced' = raced /\ session' = session
  BY DEF OrphanServed, Inv
<1>2. /\ x.kind = o.kind /\ x.person = o.person /\ x.phase # "sent" /\ WellFormed(o)
      /\ o.kind \in {"register", "provide", "logout"} /\ o.phase # "answered"
  BY <1>1 DEF Outcome, TypeInv
<1>3. /\ homes \in [People -> Nat]
      /\ homes' = IF x.kind = "provide" /\ x.answer = "ok"
                    THEN [homes EXCEPT ![o.person] = @ + 1] ELSE homes
  BY <1>1 DEF Outcome, TypeInv
<1>4. \A p \in People : /\ homes[p] <= homes'[p]
                        /\ homes'[p] # homes[p] =>
                             p = o.person /\ o.kind = "provide" /\ homes'[p] = homes[p] + 1
  BY <1>2, <1>3
<1>5. ASSUME NEW u \in Tabs PROVE Housed(u)'
  <2>1. Housed(u) /\ session[u] \in People \cup {None} /\ TabInv(u) /\ homes' \in [People -> Nat]
    BY TabOf DEF Outcome
  <2>2. request[u] # None /\ request[u].kind \in {"resolve", "look", "provide"} => request[u].person \in People
    BY <2>1 DEF TabInv, WellFormed, Requests
  <2> QED  BY <1>1, <1>3, <1>4, <2>1, <2>2 DEF Housed
<1>6. ASSUME NEW p \in People \ raced PROVE ProvidedOnce(p)'
  <2>1. ProvidedOnce(p)
    BY DEF Inv, HomeInv
  <2>2. \A q : Providing(q, p)' <=> Providing(q, p)
    BY DEF Providing
  <2>3. \A q \in orphans' : Providing(q, p) => q \in orphans /\ q # o
    BY <1>2 DEF Providing
  <2>4. homes'[p] # homes[p] => Providing(o, p) /\ homes[p] = 0 /\ homes'[p] = 1
    <3>1. homes'[p] # homes[p] => o.kind = "provide" /\ o.phase = "sent" /\ o.person = p /\ homes'[p] = homes[p] + 1
      BY <1>2, <1>4 DEF WellFormed, Requests
    <3>2. o # None
      BY <1>2, NoneIsNoRequest DEF WellFormed
    <3> QED  BY <2>1, <3>1, <3>2 DEF Providing, ProvidedOnce
  <2>5. CASE homes'[p] = homes[p]
    BY <2>1, <2>2, <2>3, <2>5 DEF ProvidedOnce
  <2>6. CASE homes'[p] # homes[p]
    <3>1. /\ \A u \in Tabs : ~Providing(request[u], p)
          /\ \A q \in orphans' : ~Providing(q, p)
      BY <2>1, <2>3, <2>4, <2>6 DEF ProvidedOnce
    <3> QED  BY <2>2, <2>4, <2>6, <3>1 DEF ProvidedOnce
  <2> QED  BY <2>5, <2>6
<1> QED  BY <1>1, <1>5, <1>6 DEF HomeInv

LEMMA ServedKeepsShown ==
  ASSUME Inv, NEW t \in Tabs, Served(t), NEW x, Outcome(request[t], x),
         request' = [request EXCEPT ![t] = x]
  PROVE  ShownInv'
<1>1. /\ TypeInv /\ request[t] # None /\ request[t].phase # "answered"
      /\ UNCHANGED <<cookie, session, overtaken>>
  BY DEF Served, Inv
<1>2. request'[t] = x /\ \A u \in Tabs \ {t} : request'[u] = request[u]
  BY <1>1 DEF TypeInv
<1>3. /\ x.kind = request[t].kind /\ x.person = request[t].person /\ x.cookie = request[t].cookie
      /\ used \subseteq used' /\ \A id \in used : sessions'[id] \in {None, sessions[id]}
      /\ x.kind = "me" => x.answer = Resolved(request[t].cookie)
  BY DEF Outcome
<1>4. ASSUME NEW u \in Tabs PROVE Issued(u)'
  <2>1. CASE u = t
    BY <1>2, <2>1 DEF Issued, Outcome
  <2>2. CASE u # t
    BY <1>2, <1>3, <2>2, TabOf DEF Issued
  <2> QED  BY <2>1, <2>2
<1>5. ASSUME NEW u \in Tabs \ overtaken' PROVE Followed(u)'
  <2>1. Followed(u) /\ u \in Tabs \ overtaken
    BY <1>1, TabOf
  <2>2. ASSUME NEW p, Resolved(cookie) \in {None, p} PROVE Resolved(cookie)' \in {None, p}
    BY <1>1, <1>3, <2>2 DEF TypeInv, Resolved
  <2>3. session'[u] # None => Resolved(cookie)' \in {None, session'[u]}
    BY <1>1, <2>1, <2>2 DEF Followed
  <2>4. request'[u] # None /\ request'[u].kind \in {"look", "provide", "resolve"} =>
          Resolved(cookie)' \in {None, request'[u].person}
    BY <1>1, <1>2, <1>3, <2>1, <2>2 DEF Followed
  <2>5. request'[u] # None /\ request'[u].kind = "me" =>
          /\ cookie' \in {None, request'[u].cookie}
          /\ request'[u].cookie \in used' \cup {None}
    BY <1>1, <1>2, <1>3, <2>1 DEF Followed
  <2>6. ASSUME request'[u] # None, request'[u].kind = "me", request'[u].answer # None
        PROVE  Resolved(request[u].cookie)' \in {None, request'[u].answer}
    <3>1. request'[u].cookie = request[u].cookie /\ request[u] # None /\ request[u].kind = "me"
      BY <1>1, <1>2, <1>3, <2>6
    <3>2. Resolved(request[u].cookie) \in {None, request'[u].answer}
      BY <1>2, <1>3, <2>1, <2>6, <3>1 DEF Followed
    <3>3. request[u].cookie \in used \cup {None}
      BY <2>1, <3>1 DEF Followed
    <3> QED  BY <1>3, <3>1, <3>2, <3>3 DEF Resolved
  <2> QED  BY <2>3, <2>4, <2>5, <2>6 DEF Followed
<1> QED  BY <1>4, <1>5 DEF ShownInv

\* A step that leaves the tabs alone and can only end sessions that were there.
LEMMA SessionsEndKeepsShown ==
  ASSUME Inv, used \subseteq used', \A id \in used : sessions'[id] \in {None, sessions[id]},
         UNCHANGED <<cookie, session, request, overtaken>>
  PROVE  ShownInv'
<1>1. \A u \in Tabs : Issued(u)'
  BY TabOf DEF Issued
<1>2. ASSUME NEW u \in Tabs \ overtaken PROVE Followed(u)'
  <2>1. Followed(u) /\ cookie \in used \cup {None}
    BY TabOf DEF Inv, TypeInv
  <2> QED  BY <2>1 DEF Followed, Resolved
<1> QED  BY <1>1, <1>2 DEF ShownInv

LEMMA InitInv == Init => Inv
<1> SUFFICES ASSUME Init PROVE Inv
  OBVIOUS
<1>1. TypeInv /\ \A t \in Tabs : request[t].kind = "me" /\ request[t].cookie = None
  <2>1. /\ WellFormed(Sent("me", None, None)) /\ Sent("me", None, None).kind = "me"
        /\ Sent("me", None, None) # None /\ Sent("me", None, None).cookie = None
    BY NoneIsNoRequest DEF Sent, WellFormed, Requests, Kinds
  <2>2. \A t \in Tabs : TabInv(t)
    BY <2>1 DEF Init, TabInv
  <2> HIDE DEF WellFormed
  <2>3. /\ accounts \in [People -> 0 .. 1] /\ homes \in [People -> Nat]
        /\ sessions \in [SessionIds -> People \cup {None}]
    BY DEF Init
  <2>4. request \in [Tabs -> Requests \cup {None}]
    BY <2>1 DEF Init, WellFormed
  <2> QED  BY <2>1, <2>2, <2>3, <2>4 DEF Init, TypeInv
<1>2. \A t \in Tabs : request[t].answer = None
  BY DEF Init, Sent
<1>3. HomeInv
  BY <1>1, NoneIsNothing DEF Init, HomeInv, Housed, ProvidedOnce, Providing
<1>4. ShownInv
  BY <1>1, <1>2, NoneIsNothing DEF Init, ShownInv, Issued, Followed, Resolved
<1> QED  BY <1>1, <1>3, <1>4 DEF Inv

\* One step per action: the tabs' are all Moves, the server's have an Outcome, and a
\* session that expires is a session that ends.
LEMMA StepInv == Inv /\ [Next]_vars => Inv'
<1> SUFFICES ASSUME Inv, [Next]_vars PROVE Inv'
  OBVIOUS
<1>0. TypeInv
  BY DEF Inv
<1>1. CASE TabStep
  BY <1>1, TabStepMoves, MovesKeepInv
<1>2. ASSUME NEW t \in Tabs, Served(t) PROVE Inv'
  <2>1. WellFormed(request[t]) /\ request[t].phase # "answered" /\ Serve(t, request[t]) /\ request[t] # None
        /\ UNCHANGED <<cookie, at, session, overtaken>>
    BY <1>2, TabOf DEF Served, TabInv
  <2>2. PICK x : Becomes(t, request[t], x) /\ Outcome(request[t], x)
    BY <1>0, <2>1, ServeHasOutcome
  <2>3. request' = [request EXCEPT ![t] = x] /\ UNCHANGED orphans
    BY <2>2, NoneIsNothing DEF Becomes
  <2>4. raced' \subseteq People
    <3>1. request[t].kind = "look" => request[t].person \in People
      BY <2>1 DEF WellFormed, Requests
    <3> QED  BY <1>0, <1>2, <3>1 DEF Served, TypeInv
  <2> QED
    BY <1>0, <1>2, <2>1, <2>2, <2>3, <2>4, ServedKeepsTypes, ServedKeepsHomes, ServedKeepsShown DEF Inv
<1>3. ASSUME NEW o \in orphans, OrphanServed(o) PROVE Inv'
  <2>1. WellFormed(o) /\ o.phase # "answered" /\ Serve(None, o)
        /\ UNCHANGED <<cookie, at, session, overtaken, raced>>
    BY <1>0, <1>3 DEF OrphanServed, TypeInv
  <2>2. PICK x : Becomes(None, o, x) /\ Outcome(o, x)
    BY <1>0, <2>1, ServeHasOutcome
  <2>3. orphans' = (orphans \ {o}) \cup {y \in {x} : y.phase # "answered"} /\ UNCHANGED request
    BY <2>2 DEF Becomes
  <2>4. TypeInv'
    BY <1>0, <2>1, <2>2, <2>3, OrphanServedKeepsTypes
  <2>5. HomeInv'
    BY <1>3, <2>2, <2>3, OrphanServedKeepsHomes
  <2>6. ShownInv'
    BY <2>1, <2>2, <2>3, SessionsEndKeepsShown DEF Outcome
  <2> QED  BY <2>4, <2>5, <2>6 DEF Inv
<1>4. ASSUME NEW id \in SessionIds, Expire(id) PROVE Inv'
  <2>1. /\ sessions' \in [SessionIds -> People \cup {None}]
        /\ \A i \in used : sessions'[i] \in {None, sessions[i]}
        /\ UNCHANGED <<accounts, used, homes, cookie, at, session, request, orphans, reloads, raced, overtaken>>
    BY <1>0, <1>4 DEF Expire, TypeInv
  <2>2. TypeInv'
    BY <1>0, <2>1 DEF TypeInv, TabInv
  <2>3. HomeInv'
    BY <2>1 DEF Inv, HomeInv, Housed, ProvidedOnce, Providing
  <2>4. ShownInv'
    BY <2>1, SessionsEndKeepsShown
  <2> QED  BY <2>2, <2>3, <2>4 DEF Inv
<1>5. CASE UNCHANGED vars
  <2>1. TypeInv'
    BY <1>0, <1>5 DEF TypeInv, TabInv, vars, server
  <2>2. HomeInv'
    BY <1>5 DEF Inv, HomeInv, Housed, ProvidedOnce, Providing, vars, server
  <2>3. ShownInv'
    BY <1>5 DEF Inv, ShownInv, Issued, Followed, Resolved, vars, server
  <2> QED  BY <2>1, <2>2, <2>3 DEF Inv
<1> QED
  BY <1>1, <1>2, <1>3, <1>4, <1>5 DEF Next, TabStep

-------------------------------------------------------------------------------
(***************************************************************************)
(* The theorems                                                            *)
(***************************************************************************)

\* The three invariants hold of every behaviour, however the requests of any number
\* of tabs and their predecessors overlap (authService.js, SessionContext.jsx).
THEOREM Inductive == Spec => []Inv
  BY InitInv, StepInv, PTL DEF Spec

\* Types; and one account at most for an email, whoever registers it at once: the
\* index on accounts.email decides, not the search before it (authService.js, register).
THEOREM TypeCorrect == Spec => []TypeOK
<1>1. Inv => TypeOK
  <2> SUFFICES ASSUME TypeInv PROVE TypeOK
    BY DEF Inv
  <2> QED  BY DEF TypeInv, TypeOK, WellFormed
<1> QED  BY <1>1, Inductive, PTL

\* Whoever is let into the app has a personal workspace, wherever a registration was
\* cut off, and one only unless their provisioning overlapped (ensurePersonalWorkspace).
THEOREM NobodyWithoutAHome == Spec => []HomeBeforeApp
<1>1. Inv => HomeBeforeApp
  BY DEF Inv, HomeInv, Housed, ProvidedOnce, HomeBeforeApp
<1> QED  BY <1>1, Inductive, PTL

\* A tab's requests are admitted as the person it shows, or not at all, unless another
\* tab has signed in since (requireSession, setSessionCookie).
THEOREM TabsActAsShown == Spec => []ActsAsShown
<1>1. Inv => ActsAsShown
  BY DEF Inv, ShownInv, Followed, ActsAsShown
<1> QED  BY <1>1, Inductive, PTL

================================================================================
