------------------------------ MODULE FormScreens ------------------------------
(***************************************************************************)
(* The screens of the client that list rows and edit them in a form.  All  *)
(* are built alike: hooks/useAsyncData.js loads the list, a form is opened *)
(* for a new row or for one of the list, Save writes and then loads again; *)
(* every request takes its time and may fail, and meanwhile the person may *)
(* cancel, open another form, switch workspaces or leave and come back.    *)
(* What differs is in one record per component.  A behaviour is that of    *)
(* one mounted component: `screen' is chosen initially.                    *)
(*                                                                         *)
(* A row is its revision, what it belongs to (its workspace, a shift's     *)
(* assignment, the document as a physical thing) and whether it is current *)
(* (a checklist's isDefault, a document's archivedAt = null).              *)
(***************************************************************************)
EXTENDS Integers, Sequences, FiniteSets

CONSTANTS
  Screens,          \* the components examined
  Ids,              \* row ids; bound: no row is inserted when none is free
  Listed,           \* the rows stored at first
  Workspaces, Home, \* workspaces of the signed-in person; their own
  Assignments,      \* of the signed-in driver
  Preferred,        \* the one chosen under Workplaces, or None
  None,             \* null
  MaxCalls,         \* bound: calls of a service, for each component
  MaxLoads          \* bound: loads on their way at once

ASSUME ScreenBounds ==
  /\ Home \in Workspaces /\ Listed \subseteq Ids
  /\ Preferred \in Assignments \cup {None}
  /\ \A s \in Screens : MaxCalls[s] \in Nat
  /\ MaxLoads \in Nat \ {0}
  /\ IsFiniteSet(Ids)

\* The kinds of ids are different kinds of values.
ASSUME IdsAreDistinct ==
  /\ None \notin Ids \cup Workspaces \cup Assignments
  /\ Ids \cap (Workspaces \cup Assignments) = {}

-------------------------------------------------------------------------------
(***************************************************************************)
(* The components                                                          *)
(*   scoped   the `workspace' prop is the active view's                    *)
(*   edits    "now": from the row in the list; "lock": likewise, shown     *)
(*            once the server has said whether the organisation is locked; *)
(*            "fetch": once the row's loads have been fetched; "detail":   *)
(*            from the detail loaded; "never"                              *)
(*   onRow    what a row's button does: "archive" (or restore), "remove",  *)
(*            "advance"                                                    *)
(***************************************************************************)
OrganisationsApp      == [scoped |-> TRUE,  edits |-> "now",    onRow |-> "archive"]
VehiclesApp           == [scoped |-> TRUE,  edits |-> "now",    onRow |-> "archive"]
ChecklistTemplatesApp == [scoped |-> TRUE,  edits |-> "now",    onRow |-> "archive"]
CompanyApp            == [scoped |-> TRUE,  edits |-> "now",    onRow |-> "archive"]
SitesApp              == [scoped |-> TRUE,  edits |-> "lock",   onRow |-> "archive"]
RateCardsApp          == [scoped |-> TRUE,  edits |-> "detail", onRow |-> "archive"]
PlacementsApp         == [scoped |-> TRUE,  edits |-> "never",  onRow |-> "archive"]
DefectsApp            == [scoped |-> TRUE,  edits |-> "never",  onRow |-> "advance"]
DriverDocumentsApp    == [scoped |-> FALSE, edits |-> "now",    onRow |-> "archive"]
CpcTrainingApp        == [scoped |-> FALSE, edits |-> "never",  onRow |-> "remove"]
WorkplacesApp         == [scoped |-> FALSE, edits |-> "never",  onRow |-> "none"]
DriverApp             == [scoped |-> FALSE, edits |-> "fetch",  onRow |-> "remove"]

Component ==
  [organisations |-> OrganisationsApp, vehicles |-> VehiclesApp,
   checklists |-> ChecklistTemplatesApp, drivers |-> CompanyApp, sites |-> SitesApp,
   rateCards |-> RateCardsApp, placements |-> PlacementsApp, defects |-> DefectsApp,
   documents |-> DriverDocumentsApp, training |-> CpcTrainingApp,
   workplaces |-> WorkplacesApp, shifts |-> DriverApp]

ASSUME ScreensAreKnown == Screens \subseteq DOMAIN Component

WithDetail == {"rateCards", "placements"}
WithCurrent == {"checklists", "documents"}

VARIABLES
  screen,     \* the component
  rows,       \* the database: its rows
  active,     \* the driver's active assignments
  last,       \* the assignment remembered for the next shift
  ws,         \* the `workspace' prop
  data,       \* what useAsyncData returns; None is null
  loads,      \* its loads on their way: [current, ws, read]
  mode,       \* "list", "detail" or "form"; in DriverApp the tab, "form" for "add"
  editing,    \* the row the form is for; None for a new one
  form,       \* what the form's values are: see FormValues
  saving,     \* Save is disabled
  asks,       \* answers awaited before a form is opened: [of, form, mine]
  selected,   \* the row whose detail is asked for
  detail,     \* the row whose detail is loaded
  calls,      \* calls of a service: [kind, back, ws, todo, landed, mine]; back: the
              \* mode a save returns to
  started,    \* how many there have been
  unseen,     \* history: a write landed after which nothing makes this screen load
  excused     \* history: see CurrentIsUnique

store == <<rows, active, last>>
local == <<mode, editing, form, saving, asks, selected, detail>>
vars == <<screen, store, ws, data, loads, local, calls, started, unseen, excused>>

This == Component[screen]
IsShifts == screen = "shifts"

Row == [rev : Nat, belongs : Workspaces \cup Assignments \cup Ids \cup {None},
        current : BOOLEAN]
RowSets == [Ids -> Row \cup {None}]
View == [rows : RowSets, active : SUBSET Assignments,
         last : Assignments \cup {None}, ws : Workspaces]

ASSUME NoneIsNoRow == None \notin Row /\ None \notin View

\* of: the row the values were read from; belongs: the assignment or organisation
\* selected; picked: by the person; renews: the renewal form of a document;
\* hasty: read from a detail that was not the one asked for.
FormValues == [of : Ids \cup {None}, belongs : Workspaces \cup Assignments \cup Ids \cup {None},
               picked : BOOLEAN, renews : BOOLEAN, hasty : BOOLEAN]

-------------------------------------------------------------------------------
(***************************************************************************)
(* What is shown                                                           *)
(***************************************************************************)
Visible(w) ==
  [i \in Ids |-> IF rows[i] # None /\ (This.scoped => rows[i].belongs = w) THEN rows[i] ELSE None]

Nothing(w) == [rows |-> [i \in Ids |-> None], active |-> {}, last |-> None, ws |-> w]
Seen(d) == IF d = None THEN Nothing(ws) ELSE d
Shown == Seen(data)
ListedNow == {i \in Ids : Shown.rows[i] # None}
Behind == Shown.rows # Visible(ws)

\* activeAssignments[0], in the order the database returns them
Primary(d) == IF d.active = {} THEN None ELSE CHOOSE a \in d.active : TRUE
DefaultAssignment(d) == CASE Preferred \in d.active -> Preferred
                          [] Preferred \notin d.active /\ d.last \in d.active -> d.last
                          [] OTHER -> Primary(d)

EmptyForm(d) ==
  [of |-> None, picked |-> FALSE, renews |-> FALSE, hasty |-> FALSE,
   belongs |-> CASE IsShifts -> DefaultAssignment(d) [] screen = "sites" -> d.ws [] OTHER -> None]

FormOf(i) == [EmptyForm(Shown) EXCEPT !.of = i, !.belongs = Shown.rows[i].belongs]

\* DriverApp's effect on [tab, data]: arriving at "add", or data d arriving there,
\* empties the form unless a row is being edited.
Settled(f, tab, row, d) == IF IsShifts /\ tab = "form" /\ row = None THEN EmptyForm(Seen(d)) ELSE f

\* Otherwise "Loading..." is rendered, or DriverApp's error, and no button but the
\* navigation's.
Ready == \/ data # None
         \/ ~IsShifts /\ \A l \in loads : ~l.current
         \/ screen \in WithDetail /\ mode = "form"

-------------------------------------------------------------------------------
(***************************************************************************)
(* useAsyncData                                                            *)
(***************************************************************************)

\* The effect's cleanup cancels the load before.
Loading(w) ==
  {[l EXCEPT !.current = FALSE] : l \in loads} \cup {[current |-> TRUE, ws |-> w, read |-> None]}
Reload == Cardinality(loads) < MaxLoads /\ loads' = Loading(ws) /\ unseen' = FALSE

ReadLoad(l) ==
  /\ l.read = None
  /\ loads' = (loads \ {l}) \cup
       {[l EXCEPT !.read = [rows |-> Visible(l.ws), active |-> active, last |-> last, ws |-> l.ws]]}
  /\ UNCHANGED <<screen, store, ws, data, local, calls, started, unseen, excused>>

\* Mutant: the flag `cancelled' is not looked at.
AnswerLoadMut(l) ==
  /\ l.read # None
  /\ loads' = loads \ {l}
  /\ data' = l.read
  /\ form' = Settled(form, mode, editing, l.read)
  /\ UNCHANGED <<mode, editing>>
  /\ UNCHANGED <<screen, store, ws, saving, asks, selected, detail, calls, started, unseen, excused>>

AnswerLoad(l) ==
  /\ l.read # None
  /\ loads' = loads \ {l}
  /\ IF l.current
       THEN data' = l.read /\ form' = Settled(form, mode, editing, l.read)
       ELSE UNCHANGED <<data, form>>
  /\ UNCHANGED <<mode, editing>>
  /\ UNCHANGED <<screen, store, ws, saving, asks, selected, detail, calls, started, unseen, excused>>

FailLoad(l) ==
  /\ loads' = loads \ {l}
  /\ IF l.current
       THEN data' = None /\ form' = Settled(form, mode, editing, None)
       ELSE UNCHANGED <<data, form>>
  /\ UNCHANGED <<mode, editing>>
  /\ UNCHANGED <<screen, store, ws, saving, asks, selected, detail, calls, started, unseen, excused>>

-------------------------------------------------------------------------------
(***************************************************************************)
(* Opening and closing forms                                               *)
(***************************************************************************)
Elsewhere == UNCHANGED <<screen, store, ws, data, loads, calls, started, unseen, excused>>

\* startCreate, startLog; in DriverApp the buttons that reset the form first
StartCreate ==
  /\ screen # "defects" /\ Ready
  /\ mode = "list" \/ IsShifts
  /\ screen = "sites" => data # None
  /\ mode' = "form" /\ editing' = None /\ form' = EmptyForm(Shown)
  /\ UNCHANGED <<saving, asks, selected, detail>>
  /\ Elsewhere

\* Mutant: editShift sets editingId before it awaits the loads.
StartEditMut(i) ==
  /\ mode = "list" /\ i \in ListedNow
  /\ \/ This.edits = "now"
        /\ mode' = "form" /\ editing' = i /\ form' = FormOf(i) /\ UNCHANGED asks
     \/ This.edits = "lock"
        /\ editing' = i /\ form' = FormOf(i)
        /\ asks' = asks \cup {[of |-> i, form |-> None, mine |-> TRUE]}
        /\ UNCHANGED mode
     \/ This.edits = "fetch"
        /\ asks' = asks \cup {[of |-> i, form |-> FormOf(i), mine |-> TRUE]}
        /\ editing' = i
        /\ UNCHANGED <<mode, form>>
  /\ UNCHANGED <<saving, selected, detail>>
  /\ Elsewhere

StartEdit(i) ==
  /\ mode = "list" /\ i \in ListedNow
  /\ \/ This.edits = "now"
        /\ mode' = "form" /\ editing' = i /\ form' = FormOf(i) /\ UNCHANGED asks
     \/ This.edits = "lock"
        /\ editing' = i /\ form' = FormOf(i)
        /\ asks' = asks \cup {[of |-> i, form |-> None, mine |-> TRUE]}
        /\ UNCHANGED mode
     \/ This.edits = "fetch"
        /\ asks' = asks \cup {[of |-> i, form |-> FormOf(i), mine |-> TRUE]}
        /\ UNCHANGED <<mode, editing, form>>
  /\ UNCHANGED <<saving, selected, detail>>
  /\ Elsewhere

\* Mutant: the answer about the lock fills the form too.
AskAnsweredMut(a) ==
  /\ asks' = asks \ {a}
  /\ mode' = IF a.mine \/ IsShifts THEN "form" ELSE mode
  /\ editing' = IF a.mine /\ IsShifts THEN a.of ELSE editing
  /\ form' = IF a.mine THEN a.form ELSE Settled(form, "form", editing, data)
  /\ UNCHANGED <<saving, selected, detail>>
  /\ Elsewhere

\* The rest of startEdit and editShift.  Of DriverApp,
\* if it was left since, only the tab is still there to be set.
AskAnswered(a) ==
  /\ asks' = asks \ {a}
  /\ mode' = IF a.mine \/ IsShifts THEN "form" ELSE mode
  /\ editing' = IF a.mine /\ IsShifts THEN a.of ELSE editing
  /\ form' = IF a.mine /\ IsShifts THEN a.form ELSE Settled(form, "form", editing, data)
  /\ UNCHANGED <<saving, selected, detail>>
  /\ Elsewhere

AskFailed(a) ==
  /\ asks' = asks \ {a}
  /\ UNCHANGED <<mode, editing, form, saving, selected, detail>>
  /\ Elsewhere

StartRenew(i) ==
  /\ screen = "documents" /\ mode = "list" /\ i \in ListedNow /\ Shown.rows[i].current
  /\ mode' = "form" /\ editing' = i /\ form' = [FormOf(i) EXCEPT !.renews = TRUE]
  /\ UNCHANGED <<saving, asks, selected, detail>>
  /\ Elsewhere

OpenDetail(i) ==
  /\ screen \in WithDetail /\ mode = "list" /\ i \in ListedNow
  /\ mode' = "detail" /\ selected' = i
  /\ UNCHANGED <<editing, form, saving, asks, detail>>
  /\ Elsewhere

\* Until then the detail shown is the one before.  A load that fails, of the row now
\* selected or together with the list's, leaves none.
DetailLoaded ==
  /\ \/ detail # selected /\ detail' = selected
     \/ screen \in WithDetail /\ (detail # selected \/ loads # {}) /\ detail # None /\ detail' = None
  /\ UNCHANGED <<mode, editing, form, saving, asks, selected>>
  /\ Elsewhere

\* startRevise (and the field of saveRename): the values are the detail's, the
\* row is the one selected.
StartRevise ==
  /\ screen = "rateCards" /\ mode = "detail" /\ detail # None
  /\ mode' = "form" /\ editing' = selected
  /\ form' = [EmptyForm(Shown) EXCEPT !.of = detail, !.hasty = (detail # selected)]
  /\ UNCHANGED <<saving, asks, selected, detail>>
  /\ Elsewhere

\* Cancel and the back buttons; enabled while a save is on its way.  In DriverApp
\* Cancel empties the form and stays.
Cancel ==
  /\ mode \in {"form", "detail"} /\ Ready
  /\ IsShifts => mode = "form" /\ editing # None
  /\ mode' = CASE IsShifts -> "form"
               [] screen = "rateCards" /\ mode = "form" /\ editing # None -> "detail"
               [] OTHER -> "list"
  /\ editing' = None /\ form' = EmptyForm(Shown)
  /\ UNCHANGED <<saving, asks, selected, detail>>
  /\ Elsewhere

\* The sidebar and the tab bar set DriverApp's tab and leave the form alone.
ShowTab ==
  /\ IsShifts
  /\ mode' = IF mode = "form" THEN "list" ELSE "form"
  /\ form' = IF mode = "form" THEN form ELSE Settled(form, "form", editing, data)
  /\ UNCHANGED <<editing, saving, asks, selected, detail>>
  /\ Elsewhere

\* The picker, offered for more than one active assignment
PickAssignment(a) ==
  /\ IsShifts /\ mode = "form" /\ Cardinality(Shown.active) > 1 /\ a \in Shown.active
  /\ form' = [form EXCEPT !.belongs = a, !.picked = TRUE]
  /\ UNCHANGED <<mode, editing, saving, asks, selected, detail>>
  /\ Elsewhere

-------------------------------------------------------------------------------
(***************************************************************************)
(* Calls of the services: a call is the writes it has still to do          *)
(***************************************************************************)
Insert(b)  == [op |-> "insert", id |-> None, to |-> b]
Update(i)  == [op |-> "update", id |-> i, to |-> None]
Move(i, b) == [op |-> "move", id |-> i, to |-> b]
Mark(i, b) == [op |-> "mark", id |-> i, to |-> b]
Remove(i)  == [op |-> "remove", id |-> i, to |-> None]
Remember(a) == [op |-> "remember", id |-> None, to |-> a]
SetDefault(i) == [op |-> "setDefault", id |-> i, to |-> None]

RenewDriverDocument(i) == <<Mark(i, FALSE), Insert(form.belongs)>>

\* saveShift: an assignment that is not in the list of active ones is replaced by
\* the first that is.
ChosenAssignment ==
  IF form.belongs \in Shown.active THEN form.belongs ELSE Primary(Shown)

SaveShift == <<IF editing = None THEN Insert(ChosenAssignment) ELSE Move(editing, ChosenAssignment),
               Remember(ChosenAssignment)>>

Todo ==
  CASE IsShifts -> SaveShift
    [] form.renews -> RenewDriverDocument(editing)
    [] screen = "drivers" /\ editing # None -> <<Update(editing), Update(editing)>>
    [] ~form.renews /\ screen \notin {"shifts", "drivers"} /\ editing # None -> <<Update(editing)>>
    [] OTHER -> <<Insert(IF screen = "sites" THEN form.belongs ELSE IF This.scoped THEN ws ELSE Home)>>

Begin(kind, back, todo) ==
  /\ started < MaxCalls[screen] /\ started' = started + 1
  /\ calls' = calls \cup {[kind |-> kind, back |-> back, ws |-> ws, todo |-> todo,
                           landed |-> FALSE, mine |-> TRUE]}

Excuse(condition) == excused' = (excused \/ (screen \in WithCurrent /\ condition))

Save ==
  /\ mode = "form" /\ ~saving /\ Ready
  /\ Begin("save", IF screen = "rateCards" /\ editing # None THEN "detail" ELSE "list", Todo)
  /\ saving' = TRUE
  /\ Excuse(calls # {} \/ Behind \/ (form.renews /\ ~Shown.rows[editing].current))
  /\ UNCHANGED <<screen, store, ws, data, loads, mode, editing, form, asks, selected, detail, unseen>>

RowActions(i) ==
  CASE screen = "documents" -> {<<Mark(i, ~Shown.rows[i].current)>>}
    [] screen = "checklists" -> {<<Update(i)>>, <<SetDefault(i)>>}
    [] This.onRow = "remove" -> {<<Remove(i)>>}
    [] This.onRow = "none" -> {}
    [] OTHER -> {<<Update(i)>>}

\* The buttons of a row (or of the detail shown): archive or restore, delete, make
\* default, advance, assign and end a driver's assignment.
RowAction(i) ==
  /\ \/ screen \notin WithDetail /\ mode = "list" /\ i \in ListedNow
     \/ screen \in WithDetail /\ mode = "detail" /\ i = detail /\ i \in ListedNow
  /\ \E todo \in RowActions(i) : Begin("row", "list", todo)
  /\ Excuse(calls # {} \/ Behind \/ (screen = "documents" /\ ~Shown.rows[i].current))
  /\ UNCHANGED <<screen, store, ws, data, loads, local, unseen>>

\* Mutant: setDefaultChecklistTemplate leaves the siblings alone.
DefaultMarksMut(id, w) ==
  {Mark(i, TRUE) : i \in {j \in Ids : rows[j] # None /\ rows[j].belongs = w /\ j = id /\ ~rows[j].current}}

\* setDefaultChecklistTemplate: the updates that the siblings, as read, call for
DefaultMarks(id, w) ==
  {Mark(i, i = id) : i \in {j \in Ids : /\ rows[j] # None /\ rows[j].belongs = w
                                        /\ rows[j].current # (j = id)}}
AnyOrder(S) == {q \in [1 .. Cardinality(S) -> S] : \A s \in S : \E k \in DOMAIN q : q[k] = s}

Changed(r, w) == CASE w.op = "mark" -> [r EXCEPT !.rev = @ + 1, !.current = w.to]
                   [] w.op = "move" -> [r EXCEPT !.rev = @ + 1, !.belongs = w.to]
                   [] OTHER -> [r EXCEPT !.rev = @ + 1]

NewRow(b, id) ==
  [rev |-> 0, current |-> screen = "documents",
   belongs |-> IF screen = "documents" /\ b \notin Ids THEN id ELSE b]
FreeIds == {i \in Ids : rows[i] = None}

\* updateDriver checks that the person is a member of the workspace; archiveDriver
\* does not.
Allowed(c, w) ==
  w.id # None => /\ rows[w.id] # None
                 /\ (screen = "drivers" /\ c.kind = "save") => rows[w.id].belongs = c.ws

\* The profile that archiveDriver writes is the workspace's own: for a driver of
\* another one it creates one, which no list shows.
OfTheRow(c, w) == (screen = "drivers" /\ c.kind = "row") => rows[w.id].belongs = c.ws

\* The next write of a call lands.
Write(c) ==
  /\ c.todo # <<>> /\ Allowed(c, Head(c.todo))
  /\ LET w == Head(c.todo)
         rest(todo) == calls' = (calls \ {c}) \cup {[c EXCEPT !.todo = todo, !.landed = TRUE]}
     IN /\ CASE w.op = "insert" -> \E i \in FreeIds : rows' = [rows EXCEPT ![i] = NewRow(w.to, i)]
             [] w.op = "remove" -> rows' = [rows EXCEPT ![w.id] = None]
             [] w.op \in {"remember", "setDefault"} -> UNCHANGED rows
             [] w.op \in {"update", "move", "mark"} /\ ~OfTheRow(c, w) -> UNCHANGED rows
             [] w.op \in {"update", "move", "mark"} /\ OfTheRow(c, w) -> rows' = [rows EXCEPT ![w.id] = Changed(@, w)]
        /\ last' = IF w.op = "remember" /\ w.to # None THEN w.to ELSE last
        /\ IF w.op = "setDefault"
             THEN \E q \in AnyOrder(DefaultMarks(w.id, c.ws)) : rest(q)
             ELSE rest(Tail(c.todo))
  /\ unseen' = (unseen \/ ~c.mine)
  /\ UNCHANGED <<screen, active, ws, data, loads, local, started, excused>>

\* Of a component that was left since, only DriverApp's tab is still set.
Answered(c) ==
  /\ c.todo = <<>>
  /\ calls' = calls \ {c}
  /\ IF c.mine THEN Reload ELSE UNCHANGED <<loads, unseen>>
  /\ IF c.mine /\ c.kind = "save"
       THEN /\ mode' = c.back
            /\ editing' = None /\ form' = EmptyForm(Shown) /\ saving' = FALSE
       ELSE /\ mode' = IF IsShifts /\ c.kind = "save" THEN c.back ELSE mode
            /\ UNCHANGED <<editing, form, saving>>
  /\ UNCHANGED <<screen, store, ws, data, asks, selected, detail, started, excused>>

\* A request fails, or its answer is lost after it was carried out: the message is
\* shown, the form stays, and nothing is loaded again.
Failed(c) ==
  /\ calls' = calls \ {c}
  /\ saving' = IF c.mine /\ c.kind = "save" THEN FALSE ELSE saving
  /\ unseen' = (unseen \/ c.landed)
  /\ Excuse(c.landed)
  /\ UNCHANGED <<screen, store, ws, data, loads, mode, editing, form, asks, selected, detail, started>>

-------------------------------------------------------------------------------
(***************************************************************************)
(* Around the component                                                    *)
(***************************************************************************)

\* AppShell passes another workspace to the same mounted component.  Bound: once.
SwitchWorkspace(w) ==
  /\ This.scoped /\ ws = Home /\ w # ws /\ Cardinality(loads) < MaxLoads
  /\ ws' = w /\ loads' = Loading(w) /\ unseen' = FALSE
  /\ UNCHANGED <<screen, store, data, local, calls, started, excused>>

\* The person leaves for another screen and comes back: a new component, except
\* that DriverApp's tab belongs to AppShell.  Requests go on.
Remount ==
  /\ mode' = IF IsShifts THEN mode ELSE "list"
  /\ editing' = None /\ saving' = FALSE /\ selected' = None /\ detail' = None
  /\ data' = None
  /\ form' = EmptyForm(Nothing(ws))
  /\ asks' = {[a EXCEPT !.mine = FALSE] : a \in {b \in asks : IsShifts}}
  /\ calls' = {[c EXCEPT !.mine = FALSE] : c \in calls}
  /\ loads' = {[current |-> TRUE, ws |-> ws, read |-> None]}
  /\ unseen' = FALSE
  /\ UNCHANGED <<screen, store, ws, started, excused>>

\* The company ends an assignment.
EndAssignment(a) ==
  /\ IsShifts /\ active = Assignments
  /\ active' = active \ {a}
  /\ UNCHANGED <<screen, rows, last, ws, data, loads, local, calls, started, unseen, excused>>

-------------------------------------------------------------------------------
Init ==
  /\ screen \in Screens
  /\ active = Assignments /\ last = None /\ ws = Home
  /\ \E first \in Listed, a \in Assignments :
       rows = [i \in Ids |->
                 IF i \notin Listed THEN None
                 ELSE [rev |-> 0,
                       belongs |-> CASE screen = "documents" -> i [] IsShifts -> a [] OTHER -> Home,
                       current |-> screen = "documents" \/ (screen = "checklists" /\ i = first)]]
  /\ data = None
  /\ loads = {[current |-> TRUE, ws |-> Home, read |-> None]}
  /\ mode = "list" /\ editing = None /\ saving = FALSE /\ asks = {}
  /\ selected = None /\ detail = None
  /\ form = EmptyForm(Nothing(Home))
  /\ calls = {} /\ started = 0 /\ unseen = FALSE /\ excused = FALSE

Next ==
  \/ \E l \in loads : ReadLoad(l) \/ AnswerLoad(l) \/ FailLoad(l)
  \/ \E i \in Ids : StartEdit(i) \/ StartRenew(i) \/ OpenDetail(i) \/ RowAction(i)
  \/ \E a \in asks : AskAnswered(a) \/ AskFailed(a)
  \/ \E c \in calls : Write(c) \/ Answered(c) \/ Failed(c)
  \/ \E a \in Assignments : PickAssignment(a) \/ EndAssignment(a)
  \/ \E w \in Workspaces : SwitchWorkspace(w)
  \/ StartCreate \/ DetailLoaded \/ StartRevise \/ Cancel \/ ShowTab \/ Save \/ Remount

Spec == Init /\ [][Next]_vars

-------------------------------------------------------------------------------
(***************************************************************************)
(* Properties                                                              *)
(***************************************************************************)

TypeOK ==
  /\ screen \in Screens /\ rows \in RowSets /\ ws \in Workspaces
  /\ active \subseteq Assignments /\ last \in Assignments \cup {None}
  /\ data \in View \cup {None} /\ form \in FormValues
  /\ \A l \in loads : l.current \in BOOLEAN /\ l.ws \in Workspaces /\ l.read \in View \cup {None}
  /\ mode \in {"list", "detail", "form"} /\ saving \in BOOLEAN
  /\ {editing, selected, detail} \subseteq Ids \cup {None}
  /\ \A c \in calls : c.kind \in {"save", "row"} /\ c.back \in {"list", "detail"}
  /\ started \in 0 .. MaxCalls[screen] /\ unseen \in BOOLEAN /\ excused \in BOOLEAN

\* What Save would write under a row was read from that row, and what it would
\* write as new was read from none, whatever arrived since the form was opened --
\* except a revision of a rate card begun while the detail of the one selected
\* was still loading: that has the rates of the one shown before.  And a new shift
\* is offered with the default assignment of what was loaded last.
FormMatchesTarget ==
  (mode = "form" /\ ~saving) =>
    /\ form.of = editing \/ form.hasty
    /\ (IsShifts /\ data # None /\ editing = None /\ ~form.picked)
         => form.belongs = DefaultAssignment(data)

\* A list at rest shows what is stored, in whatever order its loads were answered
\* -- except after a write that was reported as failed, or that was on its way
\* when the screen was left and opened again: nothing loads after those.
ShowsStored ==
  (loads = {} /\ calls = {} /\ data # None /\ ~unseen) => data.rows = Visible(ws)

\* "Exactly one ChecklistTemplate per workspace has isDefault: true at a time"
\* (checklistTemplateService.js), and "never two simultaneously-active rows for the
\* same physical document" (driverDocumentService.js): so it is while every call
\* runs alone, is carried out wholly or not at all, is begun from a list that is up
\* to date, nobody restores a document, and nobody renews one that was archived
\* while the form was open: renewDriverDocument does not look.
CurrentIsUnique ==
  ~excused =>
    /\ (screen = "checklists" /\ calls = {}) =>
         Cardinality({i \in Ids : rows[i] # None /\ rows[i].belongs = Home /\ rows[i].current}) = 1
    /\ screen = "documents" =>
         \A i, j \in Ids : (/\ rows[i] # None /\ rows[j] # None
                            /\ rows[i].current /\ rows[j].current
                            /\ rows[i].belongs = rows[j].belongs) => i = j

TwiceActive ==
  \E i, j \in Ids : /\ i # j /\ rows[i] # None /\ rows[j] # None
                    /\ rows[i].current /\ rows[j].current /\ rows[i].belongs = rows[j].belongs

\* "a failure partway through at worst leaves the old row archived with no active
\* replacement yet, never two simultaneously-active rows for the same physical
\* document" (renewDriverDocument): no write of a save gives a document a second active
\* row.  It does not hold: a renewal whose answer was lost, or that is still under way,
\* can be begun again, and archives again without looking.
RenewalNeverDoubles ==
  [][(screen = "documents" /\ \E c \in calls : c.kind = "save" /\ Write(c)) /\ ~TwiceActive
       => ~TwiceActive']_vars

\* "editing notes/break/hours must never silently re-resolve it" (shiftService.js):
\* an edit in which the driver picked no assignment keeps the shift's.  It does not
\* once that assignment has ended: DriverApp sends the primary one, or none.
EditKeepsContext ==
  (IsShifts /\ mode = "form" /\ Ready /\ editing # None /\ ~form.picked)
    => ChosenAssignment = form.belongs

================================================================================
