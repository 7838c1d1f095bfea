--------------------------- MODULE FormScreensProofs ---------------------------
(***************************************************************************)
(* Proofs about FormScreens, for any set of its components, any number of  *)
(* rows, workspaces, assignments, calls and loads on their way.  The four  *)
(* invariants rest on their own: what a form holds, what is still to be    *)
(* loaded, and which writes of a call remain.                              *)
(***************************************************************************)
EXTENDS FormScreens, FiniteSetTheorems, SequenceTheorems, TLAPS

Belongs == Workspaces \cup Assignments \cup Ids \cup {None}

\* A write a service can still have to do.
Writes ==
  {w \in [op : {"insert", "update", "move", "mark", "remove", "remember", "setDefault"},
          id : Ids \cup {None}, to : Belongs \cup BOOLEAN] :
     /\ w.op \in {"update", "move", "mark", "remove", "setDefault"} => w.id \in Ids
     /\ w.op \in {"insert", "remember"} => w.id = None
     /\ w.op \in {"insert", "move"} => w.to \in Belongs
     /\ w.op = "mark" => w.to \in BOOLEAN
     /\ w.op = "remember" => w.to \in Assignments \cup {None}}

Calls == [kind : {"save", "row"}, back : {"list", "detail"}, ws : Workspaces,
          todo : Seq(Writes), landed : BOOLEAN, mine : BOOLEAN]
Asks == [of : Ids, form : FormValues \cup {None}, mine : BOOLEAN]
Loads == [current : BOOLEAN, ws : Workspaces, read : View \cup {None}]

StoreType ==
  /\ screen \in Screens /\ rows \in RowSets /\ ws \in Workspaces
  /\ active \subseteq Assignments /\ last \in Assignments \cup {None}
LoadType == data \in View \cup {None} /\ loads \subseteq Loads
FormType ==
  /\ mode \in {"list", "detail", "form"} /\ saving \in BOOLEAN
  /\ editing \in Ids \cup {None} /\ selected \in Ids \cup {None} /\ detail \in Ids \cup {None}
  /\ form \in FormValues /\ asks \subseteq Asks
CallType ==
  /\ calls \subseteq Calls /\ started \in 0 .. MaxCalls[screen]
  /\ unseen \in BOOLEAN /\ excused \in BOOLEAN
TypeInv == StoreType /\ LoadType /\ FormType /\ CallType

\* The values and the row they are written under come from one place; a renewal is
\* of a row; the default follows what was loaded last, whether or not Save is on its
\* way; an edit waiting for its loads has its values already.
FormInv ==
  /\ form.of = editing \/ form.hasty
  /\ form.renews => editing # None /\ screen = "documents"
  /\ (IsShifts /\ mode = "form" /\ data # None /\ editing = None /\ ~form.picked)
       => form.belongs = DefaultAssignment(data)
  /\ IsShifts => \A a \in asks : a.form \in FormValues /\ a.form.of = a.of /\ ~a.form.renews
  /\ ~IsShifts => \A a \in asks : a.form = None

\* One load at most will be shown, and it is for the workspace of now.  Unless a call
\* that has written is still to load again, what it read, or what is shown already,
\* is what is stored.
OneLoad ==
  \A l \in loads : l.current => l.ws = ws /\ \A k \in loads : k.current => k = l
Owed == \E c \in calls : c.landed /\ c.mine
Loaded ==
  IF \E l \in loads : l.current
    THEN \A l \in loads : l.current /\ l.read # None => l.read.rows = Visible(ws)
    ELSE data # None => data.rows = Visible(ws)
LoadInv == OneLoad /\ (unseen \/ Owed \/ Loaded)

\* A document as a physical thing is named by its first row, and stays what it is:
\* rows of documents are not removed and not moved.
SameThing(seen) ==
  \A i \in Ids : seen[i] # None => rows[i] # None /\ rows[i].belongs = seen[i].belongs
DocumentsKept ==
  /\ \A i \in Ids : rows[i] # None => rows[i].belongs \in Ids /\ rows[rows[i].belongs] # None
  /\ data # None => SameThing(data.rows)
  /\ \A l \in loads : l.read # None => SameThing(l.read.rows)
  /\ form.renews => rows[editing] # None /\ form.belongs = rows[editing].belongs

CurrentRow(i) == rows[i] # None /\ rows[i].current
NoneCurrent(b) == \A i \in Ids : CurrentRow(i) => rows[i].belongs # b

\* What a call on documents can have left to do: a renewal has archived the row of
\* its document before it inserts the next.
DocumentCall(todo) ==
  \/ todo = <<>> \/ todo = <<Insert(Home)>>
  \/ \E i \in Ids : todo = <<Update(i)>> \/ todo = <<Mark(i, FALSE)>>
  \/ \E i \in Ids : CurrentRow(i) /\ todo = <<Mark(i, FALSE), Insert(rows[i].belongs)>>
  \/ \E b \in Ids : rows[b] # None /\ NoneCurrent(b) /\ todo = <<Insert(b)>>

OneCall == \A c, d \in calls : c = d
DocumentsInv ==
  screen = "documents" /\ ~excused =>
    /\ DocumentsKept
    /\ OneCall
    /\ \A c \in calls : DocumentCall(c.todo)
    /\ \A i, j \in Ids : CurrentRow(i) /\ CurrentRow(j) /\ rows[i].belongs = rows[j].belongs => i = j

\* The defaults of a workspace.
Defaults(w) == {i \in Ids : rows[i] # None /\ rows[i].belongs = w /\ rows[i].current}
HomeUnique == \E i \in Ids : Defaults(Home) = {i}

\* What a call on checklists can have left to do: the updates that are left of a
\* setDefaultChecklistTemplate are those still called for, each once.
ChecklistCall(c) ==
  \/ /\ HomeUnique
     /\ \/ c.todo = <<>> \/ c.todo = <<Insert(c.ws)>>
        \/ \E i \in Ids : c.todo = <<Update(i)>>
        \/ \E i \in Ids : rows[i] # None /\ rows[i].belongs = c.ws /\ c.todo = <<SetDefault(i)>>
  \/ \E i \in Ids :
       /\ c.landed /\ rows[i] # None /\ rows[i].belongs = c.ws
       /\ \A k \in DOMAIN c.todo : c.todo[k] \in DefaultMarks(i, c.ws)
       /\ \A m \in DefaultMarks(i, c.ws) : \E k \in DOMAIN c.todo : c.todo[k] = m
       /\ \A k, l \in DOMAIN c.todo : c.todo[k] = c.todo[l] => k = l
       /\ c.ws # Home => HomeUnique
ChecklistsInv ==
  screen = "checklists" /\ ~excused =>
    /\ OneCall
    /\ calls = {} => HomeUnique
    /\ \A c \in calls : ChecklistCall(c)

Inv == TypeInv /\ FormInv /\ LoadInv /\ DocumentsInv /\ ChecklistsInv

-------------------------------------------------------------------------------
(***************************************************************************)
(* What is shown and what a form is given                                  *)
(***************************************************************************)

LEMMA VisibleIs ==
  ASSUME StoreType, NEW w
  PROVE  /\ Visible(w) \in RowSets
         /\ \A i \in Ids : Visible(w)[i] # None => Visible(w)[i] = rows[i]
         /\ ~This.scoped => Visible(w) = rows
<1>1. \A i \in Ids : rows[i] \in Row \cup {None}
  BY DEF StoreType, RowSets
<1>2. rows = [i \in Ids |-> rows[i]]
  BY DEF StoreType, RowSets
<1> QED  BY <1>1, <1>2 DEF Visible, RowSets

LEMMA NothingIs ==
  ASSUME NEW w \in Workspaces
  PROVE  /\ Nothing(w) \in View /\ Nothing(w).active = {} /\ Nothing(w).ws = w
         /\ Nothing(w).rows = [i \in Ids |-> None]
  BY DEF Nothing, View, RowSets

LEMMA ShownIs ==
  ASSUME StoreType, LoadType
  PROVE  /\ data = None => Shown = Nothing(ws)
         /\ data # None => Shown = data
         /\ Shown \in View
         /\ Shown.rows \in RowSets /\ Shown.active \subseteq Assignments
         /\ ListedNow \subseteq Ids
<1>1. Nothing(ws) \in View
  BY NothingIs DEF StoreType
<1>2. Shown \in View
  BY <1>1 DEF Shown, Seen, LoadType
<1> QED  BY <1>2 DEF Shown, Seen, LoadType, View, ListedNow

LEMMA PrimaryIs ==
  ASSUME NEW d \in View
  PROVE  Primary(d) \in d.active \cup {None} /\ DefaultAssignment(d) \in Assignments \cup {None}
<1>1. Primary(d) \in d.active \cup {None}
  BY DEF Primary
<1>2. d.active \subseteq Assignments
  BY DEF View
<1>3. DefaultAssignment(d) \in d.active \cup {None}
  BY <1>1 DEF DefaultAssignment
<1> QED  BY <1>1, <1>2, <1>3

\* An empty form is of no row, and begins with the default assignment.
LEMMA EmptyFormIs ==
  ASSUME NEW d \in View
  PROVE  /\ EmptyForm(d) \in FormValues
         /\ EmptyForm(d).of = None /\ ~EmptyForm(d).renews /\ ~EmptyForm(d).hasty
         /\ ~EmptyForm(d).picked
         /\ IsShifts => EmptyForm(d).belongs = DefaultAssignment(d)
<1> DEFINE b == CASE IsShifts -> DefaultAssignment(d) [] screen = "sites" -> d.ws [] OTHER -> None
<1>1. d.ws \in Workspaces
  BY DEF View
<1>2. IsShifts => b = DefaultAssignment(d)
  BY DEF IsShifts
<1>3. b \in Workspaces \cup Assignments \cup {None}
  <2>1. CASE IsShifts
    BY <1>2, <2>1, PrimaryIs
  <2>2. CASE ~IsShifts
    BY <1>1, <2>2
  <2> QED  BY <2>1, <2>2
<1>4. EmptyForm(d) = [of |-> None, picked |-> FALSE, renews |-> FALSE, hasty |-> FALSE, belongs |-> b]
  BY DEF EmptyForm
<1> HIDE DEF b
<1> QED  BY <1>2, <1>3, <1>4 DEF FormValues

LEMMA FormOfIs ==
  ASSUME StoreType, LoadType, NEW i \in ListedNow
  PROVE  /\ FormOf(i) \in FormValues /\ FormOf(i).of = i
         /\ FormOf(i).belongs = Shown.rows[i].belongs
         /\ ~FormOf(i).renews /\ ~FormOf(i).hasty /\ i \in Ids
<1>1. Shown \in View /\ i \in Ids /\ Shown.rows[i] \in Row
  BY ShownIs DEF ListedNow, RowSets
<1>2. /\ EmptyForm(Shown) \in FormValues
      /\ ~EmptyForm(Shown).renews /\ ~EmptyForm(Shown).hasty
  BY <1>1, EmptyFormIs
<1>3. Shown.rows[i].belongs \in Workspaces \cup Assignments \cup Ids \cup {None}
  BY <1>1 DEF Row
<1> QED  BY <1>1, <1>2, <1>3 DEF FormOf, FormValues

\* DriverApp's effect empties a form that is of no row, and leaves the others.
LEMMA SettledIs ==
  ASSUME StoreType, NEW f \in FormValues, NEW tab, NEW row, NEW d \in View \cup {None}
  PROVE  /\ Settled(f, tab, row, d) \in FormValues
         /\ IsShifts /\ tab = "form" /\ row = None =>
              /\ Settled(f, tab, row, d).of = None /\ ~Settled(f, tab, row, d).renews
              /\ d # None => Settled(f, tab, row, d).belongs = DefaultAssignment(d)
         /\ ~(IsShifts /\ tab = "form" /\ row = None) => Settled(f, tab, row, d) = f
<1>1. d # None => Seen(d) = d
  BY DEF Seen
<1>2. Seen(d) \in View
  BY NothingIs DEF Seen, StoreType
<1>3. /\ EmptyForm(Seen(d)) \in FormValues
      /\ EmptyForm(Seen(d)).of = None /\ ~EmptyForm(Seen(d)).renews
      /\ IsShifts => EmptyForm(Seen(d)).belongs = DefaultAssignment(Seen(d))
  BY <1>2, EmptyFormIs
<1>4. CASE IsShifts /\ tab = "form" /\ row = None
  <2>1. Settled(f, tab, row, d) = EmptyForm(Seen(d))
    BY <1>4 DEF Settled
  <2> QED  BY <1>1, <1>3, <1>4, <2>1
<1>5. CASE ~(IsShifts /\ tab = "form" /\ row = None)
  BY <1>5 DEF Settled
<1> QED  BY <1>4, <1>5

-------------------------------------------------------------------------------
(***************************************************************************)
(* The steps that only touch the form                                      *)
(***************************************************************************)

\* The form after such a step: still in order, and a renewal is of a document that is
\* stored.
RenewsStored ==
  form.renews => rows[editing] # None /\ form.belongs = rows[editing].belongs
FormNext == Elsewhere /\ FormType' /\ FormInv' /\ (screen = "documents" /\ ~excused => RenewsStored')

\* In every step: what the component is, and which component it is, stay.
LEMMA SameComponent ==
  ASSUME screen' = screen
  PROVE  (IsShifts' <=> IsShifts) /\ This' = This
  BY DEF IsShifts, This

\* The step's effect on the form, from that on its variables.
LEMMA FormChanges ==
  ASSUME TypeInv, FormInv, DocumentsInv, Elsewhere,
         mode' \in {"list", "detail", "form"}, saving' \in BOOLEAN,
         editing' \in Ids \cup {None}, selected' \in Ids \cup {None}, detail' \in Ids \cup {None},
         asks' \subseteq Asks, form' \in FormValues,
         IsShifts => \A a \in asks' : a.form \in FormValues /\ a.form.of = a.of /\ ~a.form.renews,
         ~IsShifts => \A a \in asks' : a.form = None,
         form'.of = editing' \/ form'.hasty,
         \/ ~form'.renews
         \/ editing' = editing /\ form' = form
         \/ /\ screen = "documents" /\ editing' # None
            /\ ~excused => rows[editing'] # None /\ form'.belongs = rows[editing'].belongs,
         (IsShifts /\ mode' = "form" /\ data # None /\ editing' = None /\ ~form'.picked)
            => form'.belongs = DefaultAssignment(data)
  PROVE  FormNext
<1>1. FormType'
  BY DEF FormType
<1>2. screen' = screen /\ rows' = rows /\ data' = data
  BY DEF Elsewhere, store
<1>3. form'.renews => editing' # None /\ screen = "documents"
  BY DEF FormInv
<1>4. FormInv'
  BY <1>2, <1>3, SameComponent DEF FormInv
<1>5. screen = "documents" /\ ~excused => RenewsStored'
  BY <1>2 DEF RenewsStored, DocumentsInv, DocumentsKept
<1> QED  BY <1>1, <1>4, <1>5 DEF FormNext

LEMMA EmptiesForm ==
  ASSUME TypeInv, FormInv, DocumentsInv, Elsewhere,
         mode' \in {"list", "detail", "form"}, editing' = None, form' = EmptyForm(Shown),
         UNCHANGED <<saving, asks, selected, detail>>
  PROVE  FormNext
<1>1. Shown \in View /\ (data # None => Shown = data)
  BY ShownIs DEF TypeInv
<1>2. /\ form' \in FormValues /\ form'.of = None /\ ~form'.renews
      /\ IsShifts => form'.belongs = DefaultAssignment(Shown)
  BY <1>1, EmptyFormIs
<1>3. IsShifts /\ data # None => form'.belongs = DefaultAssignment(data)
  BY <1>1, <1>2
<1> QED  BY <1>2, <1>3, FormChanges DEF TypeInv, FormType, FormInv

LEMMA StartCreateForm ==
  ASSUME TypeInv, FormInv, DocumentsInv, StartCreate
  PROVE  FormNext
  BY EmptiesForm DEF StartCreate

LEMMA CancelForm ==
  ASSUME TypeInv, FormInv, DocumentsInv, Cancel
  PROVE  FormNext
  BY EmptiesForm DEF Cancel

\* Which component fetches before it edits, and of which rows belong to a workspace.
LEMMA ComponentIs ==
  ASSUME screen \in Screens
  PROVE  /\ This.edits = "fetch" <=> IsShifts
         /\ screen = "documents" => ~This.scoped /\ This.onRow = "archive"
         /\ screen = "checklists" => This.scoped /\ This.onRow = "archive"
<1>1. screen \in {"organisations", "vehicles", "checklists", "drivers", "sites", "rateCards",
                 "placements", "defects", "documents", "training", "workplaces", "shifts"}
  BY ScreensAreKnown DEF Component
<1> QED
  BY <1>1 DEF This, Component, IsShifts, OrganisationsApp, VehiclesApp, ChecklistTemplatesApp, CompanyApp,
              SitesApp, RateCardsApp, PlacementsApp, DefectsApp, DriverDocumentsApp, CpcTrainingApp,
              WorkplacesApp, DriverApp

LEMMA StartEditForm ==
  ASSUME TypeInv, FormInv, DocumentsInv, NEW i \in Ids, StartEdit(i)
  PROVE  FormNext
<1> USE DEF TypeInv, FormType
<1>1. /\ FormOf(i) \in FormValues /\ FormOf(i).of = i
      /\ ~FormOf(i).renews /\ ~FormOf(i).hasty
      /\ mode = "list" /\ UNCHANGED <<saving, selected, detail>> /\ Elsewhere
  BY FormOfIs DEF StartEdit
<1>n. None \notin Ids
  BY IdsAreDistinct
<1>2. This.edits = "fetch" <=> IsShifts
  BY ComponentIs DEF StoreType
<1>3. CASE This.edits = "now" /\ mode' = "form" /\ editing' = i /\ form' = FormOf(i) /\ UNCHANGED asks
  BY <1>1, <1>3, <1>n, FormChanges DEF FormInv
<1>4. CASE /\ This.edits = "lock" /\ editing' = i /\ form' = FormOf(i) /\ UNCHANGED mode
           /\ asks' = asks \cup {[of |-> i, form |-> None, mine |-> TRUE]}
  <2>0. [of |-> i, form |-> None, mine |-> TRUE] \in Asks
    BY DEF Asks
  <2>1. asks' \subseteq Asks
    BY <1>4, <2>0
  <2>2. ~IsShifts /\ \A a \in asks' : a.form = None
    BY <1>4, <1>2 DEF FormInv
  <2> QED  BY <1>1, <1>4, <1>n, <2>1, <2>2, FormChanges DEF FormInv
<1>5. CASE /\ This.edits = "fetch" /\ UNCHANGED <<mode, editing, form>>
           /\ asks' = asks \cup {[of |-> i, form |-> FormOf(i), mine |-> TRUE]}
  <2>0. [of |-> i, form |-> FormOf(i), mine |-> TRUE] \in Asks
    BY <1>1 DEF Asks
  <2>1. asks' \subseteq Asks
    BY <1>5, <2>0
  <2>2. IsShifts /\ \A a \in asks' : a.form \in FormValues /\ a.form.of = a.of /\ ~a.form.renews
    BY <1>1, <1>5, <1>2 DEF FormInv
  <2> QED  BY <1>1, <1>5, <2>1, <2>2, FormChanges DEF FormInv
<1> QED  BY <1>3, <1>4, <1>5 DEF StartEdit

LEMMA AskAnsweredForm ==
  ASSUME TypeInv, FormInv, DocumentsInv, NEW a \in asks, AskAnswered(a)
  PROVE  FormNext
<1> USE DEF TypeInv, FormType
<1>1. /\ asks' = asks \ {a} /\ UNCHANGED <<saving, selected, detail>> /\ Elsewhere
      /\ a \in Asks /\ a.of \in Ids /\ a.mine \in BOOLEAN
  BY DEF AskAnswered, Asks
<1>n. None \notin Ids
  BY IdsAreDistinct
<1>2. CASE a.mine /\ IsShifts
  <2>1. mode' = "form" /\ editing' = a.of /\ form' = a.form
    BY <1>2 DEF AskAnswered
  <2>2. a.form \in FormValues /\ a.form.of = a.of /\ ~a.form.renews
    BY <1>2 DEF FormInv
  <2> QED  BY <1>1, <1>n, <2>1, <2>2, FormChanges DEF FormInv
<1>3. CASE ~(a.mine /\ IsShifts)
  <2>1. /\ mode' \in {"list", "detail", "form"} /\ (IsShifts => mode' = "form") /\ editing' = editing
        /\ form' = Settled(form, "form", editing, data)
    BY <1>3 DEF AskAnswered
  <2>2. /\ form' \in FormValues
        /\ IsShifts /\ editing = None =>
             /\ form'.of = None /\ ~form'.renews
             /\ data # None => form'.belongs = DefaultAssignment(data)
        /\ ~(IsShifts /\ editing = None) => form' = form
    BY <2>1, SettledIs DEF LoadType
  <2>3. ~IsShifts => form' = form
    BY <2>2
  <2>4. CASE IsShifts /\ editing = None
    BY <1>1, <2>1, <2>2, <2>4, FormChanges DEF FormInv
  <2>5. CASE ~(IsShifts /\ editing = None)
    BY <1>1, <2>1, <2>2, <2>5, FormChanges DEF FormInv
  <2> QED  BY <2>4, <2>5
<1> QED  BY <1>2, <1>3

LEMMA ShowTabForm ==
  ASSUME TypeInv, FormInv, DocumentsInv, ShowTab
  PROVE  FormNext
<1> USE DEF TypeInv, FormType
<1>1. IsShifts /\ UNCHANGED <<editing, saving, asks, selected, detail>> /\ Elsewhere
  BY DEF ShowTab
<1>2. CASE mode = "form"
  BY <1>1, <1>2, FormChanges DEF ShowTab, FormInv
<1>3. CASE mode # "form"
  <2>1. mode' = "form" /\ form' = Settled(form, "form", editing, data)
    BY <1>3 DEF ShowTab
  <2>2. /\ form' \in FormValues
        /\ IsShifts /\ editing = None =>
             /\ form'.of = None /\ ~form'.renews
             /\ data # None => form'.belongs = DefaultAssignment(data)
        /\ ~(IsShifts /\ editing = None) => form' = form
    BY <2>1, SettledIs DEF LoadType
  <2>3. CASE editing = None
    BY <1>1, <2>1, <2>2, <2>3, FormChanges DEF FormInv
  <2>4. CASE editing # None
    BY <1>1, <2>1, <2>2, <2>4, FormChanges DEF FormInv
  <2> QED  BY <2>3, <2>4
<1> QED  BY <1>2, <1>3

LEMMA StartRenewForm ==
  ASSUME TypeInv, FormInv, DocumentsInv, NEW i \in Ids, StartRenew(i)
  PROVE  FormNext
<1> USE DEF TypeInv, FormType
<1>1. /\ screen = "documents" /\ mode' = "form" /\ editing' = i /\ i \in ListedNow
      /\ form' = [FormOf(i) EXCEPT !.renews = TRUE]
      /\ UNCHANGED <<saving, asks, selected, detail>> /\ Elsewhere
  BY DEF StartRenew
<1>2. FormOf(i) \in FormValues /\ FormOf(i).of = i /\ FormOf(i).belongs = Shown.rows[i].belongs
  BY <1>1, FormOfIs
<1>3. form' \in FormValues /\ form'.of = i /\ form'.belongs = Shown.rows[i].belongs
  BY <1>1, <1>2 DEF FormValues
<1>4. ~IsShifts /\ i # None
  BY <1>1, IdsAreDistinct DEF IsShifts
<1>5. ~excused => rows[i] # None /\ rows[i].belongs = Shown.rows[i].belongs
  <2>1. data # None
    BY <1>1, NothingIs, ShownIs DEF ListedNow, StoreType
  <2>2. Shown = data /\ data.rows[i] # None
    BY <1>1, <2>1, ShownIs DEF ListedNow
  <2> QED  BY <1>1, <2>1, <2>2 DEF DocumentsInv, DocumentsKept, SameThing
<1> QED  BY <1>1, <1>3, <1>4, <1>5, FormChanges DEF FormInv

LEMMA StartReviseForm ==
  ASSUME TypeInv, FormInv, DocumentsInv, StartRevise
  PROVE  FormNext
<1> USE DEF TypeInv, FormType
<1>1. /\ ~IsShifts /\ mode' = "form" /\ editing' = selected
      /\ form' = [EmptyForm(Shown) EXCEPT !.of = detail, !.hasty = (detail # selected)]
      /\ UNCHANGED <<saving, asks, selected, detail>> /\ Elsewhere
  BY DEF StartRevise, IsShifts
<1>2. EmptyForm(Shown) \in FormValues /\ ~EmptyForm(Shown).renews
  BY ShownIs, EmptyFormIs
<1>3. form' \in FormValues /\ form'.of = detail /\ form'.hasty = (detail # selected) /\ ~form'.renews
  BY <1>1, <1>2 DEF FormValues
<1> QED  BY <1>1, <1>3, FormChanges DEF FormInv

LEMMA PickAssignmentForm ==
  ASSUME TypeInv, FormInv, DocumentsInv, NEW a \in Assignments, PickAssignment(a)
  PROVE  FormNext
<1> USE DEF TypeInv, FormType
<1>1. /\ IsShifts /\ form' = [form EXCEPT !.belongs = a, !.picked = TRUE]
      /\ UNCHANGED <<mode, editing, saving, asks, selected, detail>> /\ Elsewhere
  BY DEF PickAssignment
<1>2. /\ form' \in FormValues /\ form'.of = form.of /\ form'.hasty = form.hasty
      /\ form'.renews = form.renews /\ form'.picked
  BY <1>1 DEF FormValues
<1>3. screen # "documents"
  BY <1>1 DEF IsShifts
<1>4. FormType' /\ FormInv'
  <2>1. screen' = screen /\ data' = data
    BY <1>1 DEF Elsewhere, store
  <2> QED  BY <1>1, <1>2, <2>1, SameComponent DEF FormInv
<1> QED  BY <1>1, <1>3, <1>4 DEF FormNext

\* The rest opens nothing: it asks for a detail, gets it, or gets no answer.
LEMMA KeepsForm ==
  ASSUME TypeInv, FormInv, DocumentsInv,
         \/ \E i \in Ids : OpenDetail(i)
         \/ DetailLoaded
         \/ \E a \in asks : AskFailed(a)
  PROVE  FormNext
<1> USE DEF TypeInv, FormType
<1>1. ASSUME NEW i \in Ids, OpenDetail(i) PROVE FormNext
  <2>1. ~IsShifts
    BY <1>1 DEF OpenDetail, WithDetail, IsShifts
  <2> QED  BY <1>1, <2>1, FormChanges DEF OpenDetail, FormInv
<1>2. CASE DetailLoaded
  BY <1>2, FormChanges DEF DetailLoaded, FormInv
<1>3. ASSUME NEW a \in asks, AskFailed(a) PROVE FormNext
  BY <1>3, FormChanges DEF AskFailed, FormInv
<1> QED  BY <1>1, <1>2, <1>3

FormStep ==
  \/ \E i \in Ids : StartEdit(i) \/ StartRenew(i) \/ OpenDetail(i)
  \/ \E a \in asks : AskAnswered(a) \/ AskFailed(a)
  \/ \E a \in Assignments : PickAssignment(a)
  \/ StartCreate \/ DetailLoaded \/ StartRevise \/ Cancel \/ ShowTab

LEMMA FormStepNext ==
  ASSUME TypeInv, FormInv, DocumentsInv, FormStep
  PROVE  FormNext
  BY StartEditForm, StartRenewForm, KeepsForm, AskAnsweredForm, PickAssignmentForm,
     StartCreateForm, StartReviseForm, CancelForm, ShowTabForm DEF FormStep

-------------------------------------------------------------------------------
(***************************************************************************)
(* Loads                                                                   *)
(***************************************************************************)

\* What depends on the rows and the calls alone.
LEMMA StoreKept ==
  ASSUME UNCHANGED <<screen, rows>>
  PROVE  /\ \A w \in Workspaces : Visible(w)' = Visible(w)
         /\ \A w : Defaults(w)' = Defaults(w)
         /\ HomeUnique' = HomeUnique
         /\ \A i \in Ids : CurrentRow(i)' = CurrentRow(i)
         /\ \A b : NoneCurrent(b)' = NoneCurrent(b)
         /\ \A c : DocumentCall(c)' = DocumentCall(c)
         /\ \A c : ChecklistCall(c)' = ChecklistCall(c)
  BY DEF Visible, This, Defaults, HomeUnique, CurrentRow, NoneCurrent, DocumentCall, ChecklistCall,
         DefaultMarks, Insert, Update, Mark, SetDefault

\* Calls that are where they were keep what is said of them.
LEMMA CallsKept ==
  ASSUME ChecklistsInv, DocumentsInv, UNCHANGED <<screen, rows, calls, excused>>,
         screen = "documents" /\ ~excused => DocumentsKept'
  PROVE  ChecklistsInv' /\ DocumentsInv'
<1>1. ChecklistsInv'
  BY StoreKept DEF ChecklistsInv, OneCall
<1>2. DocumentsInv'
  BY StoreKept DEF DocumentsInv, OneCall
<1> QED  BY <1>1, <1>2

LEMMA ReadLoadInv ==
  ASSUME Inv, NEW l \in loads, ReadLoad(l)
  PROVE  Inv'
<1> DEFINE x == [l EXCEPT !.read = [rows |-> Visible(l.ws), active |-> active, last |-> last, ws |-> l.ws]]
<1>1. /\ loads' = (loads \ {l}) \cup {x} /\ l.read = None
      /\ UNCHANGED <<screen, store, ws, data, local, calls, started, unseen, excused>>
  BY DEF ReadLoad
<1>2. l \in Loads /\ TypeInv
  BY DEF Inv, TypeInv, LoadType
<1>3. /\ x \in Loads /\ x.current = l.current /\ x.ws = l.ws
      /\ x.read.rows = Visible(l.ws) /\ x.read # None
  <2>1. l.ws \in Workspaces /\ Visible(l.ws) \in RowSets
    BY <1>2, VisibleIs DEF Loads, TypeInv
  <2>2. [rows |-> Visible(l.ws), active |-> active, last |-> last, ws |-> l.ws] \in View
    BY <1>2, <2>1 DEF View, TypeInv, StoreType
  <2> QED  BY <1>2, <2>2, NoneIsNoRow DEF Loads
<1> HIDE DEF x
<1>4. TypeInv'
  BY <1>1, <1>2, <1>3 DEF TypeInv, StoreType, LoadType, FormType, CallType, store, local
<1>5. FormInv'
  BY <1>1, SameComponent DEF Inv, FormInv, local, store
<1>6. LoadInv'
  <2>1. OneLoad'
    BY <1>1, <1>3 DEF Inv, LoadInv, OneLoad
  <2>2. Owed' = Owed /\ unseen' = unseen
    BY <1>1 DEF Owed
  <2>3. Visible(ws)' = Visible(ws)
    BY <1>1, <1>2, StoreKept DEF store, TypeInv, StoreType
  <2>4. Loaded => Loaded'
    <3> SUFFICES ASSUME Loaded PROVE Loaded'
      OBVIOUS
    <3>1. (\E k \in loads' : k.current) <=> (\E k \in loads : k.current)
      BY <1>1, <1>3
    <3>2. ASSUME NEW k \in loads', k.current, k.read # None, \E m \in loads : m.current
          PROVE  k.read.rows = Visible(ws)
      <4>1. CASE k = x
        BY <1>3, <3>2, <4>1 DEF Inv, LoadInv, OneLoad
      <4>2. CASE k # x
        BY <1>1, <3>2, <4>2 DEF Loaded
      <4> QED  BY <4>1, <4>2
    <3> QED  BY <1>1, <2>3, <3>1, <3>2 DEF Loaded
  <2> QED  BY <2>1, <2>2, <2>4 DEF Inv, LoadInv
<1>7. screen = "documents" /\ ~excused => DocumentsKept'
  <2>1. ASSUME screen = "documents" PROVE SameThing(x.read.rows)
    BY <1>2, <1>3, VisibleIs DEF TypeInv, SameThing
  <2> QED
    BY <1>1, <1>3, <2>1 DEF Inv, DocumentsInv, DocumentsKept, SameThing, local, store
<1> QED  BY <1>1, <1>4, <1>5, <1>6, <1>7, CallsKept DEF Inv, store

\* What a load that was not cancelled brings (nothing, when it failed) is shown, and
\* DriverApp's form follows it.
LEMMA DataArrives ==
  ASSUME Inv, NEW l \in loads, NEW d \in {l.read, None}, d \in View \cup {None},
         l.current \/ (data' = data /\ form' = form),
         l.current => data' = d /\ form' = Settled(form, mode, editing, d),
         loads' = loads \ {l},
         UNCHANGED <<mode, editing, screen, store, ws, saving, asks, selected, detail, calls,
                     started, unseen, excused>>
  PROVE  Inv'
<1>1. /\ TypeInv /\ form \in FormValues /\ UNCHANGED rows
  BY DEF Inv, TypeInv, FormType, store
<1>2. l.current =>
        /\ form' \in FormValues
        /\ IsShifts /\ mode = "form" /\ editing = None =>
             /\ form'.of = None /\ ~form'.renews
             /\ d # None => form'.belongs = DefaultAssignment(d)
        /\ ~(IsShifts /\ mode = "form" /\ editing = None) => form' = form
  BY <1>1, SettledIs DEF TypeInv
<1>3. form' \in FormValues /\ data' \in View \cup {None}
  BY <1>1, <1>2 DEF TypeInv, LoadType
<1>4. TypeInv'
  BY <1>1, <1>3 DEF TypeInv, StoreType, LoadType, FormType, CallType, store
<1>5. FormInv'
  <2>1. CASE l.current
    <3>1. CASE IsShifts /\ mode = "form" /\ editing = None
      BY <1>2, <2>1, <3>1, SameComponent DEF Inv, FormInv
    <3>2. CASE ~(IsShifts /\ mode = "form" /\ editing = None)
      BY <1>2, <2>1, <3>2, SameComponent DEF Inv, FormInv
    <3> QED  BY <3>1, <3>2
  <2>2. CASE ~l.current
    BY <2>2, SameComponent DEF Inv, FormInv
  <2> QED  BY <2>1, <2>2
<1>6. LoadInv'
  <2>1. OneLoad'
    BY DEF Inv, LoadInv, OneLoad
  <2>2. Owed' = Owed
    BY DEF Owed
  <2>3. Visible(ws)' = Visible(ws)
    BY <1>1, StoreKept DEF TypeInv, StoreType
  <2>4. Loaded => Loaded'
    BY <2>3 DEF Loaded, Inv, LoadInv, OneLoad
  <2> QED  BY <2>1, <2>2, <2>4 DEF Inv, LoadInv
<1>7. screen = "documents" /\ ~excused => DocumentsKept'
  <2> SUFFICES ASSUME screen = "documents", ~excused PROVE DocumentsKept'
    OBVIOUS
  <2>1. form' = form
    BY <1>2 DEF IsShifts
  <2> QED  BY <1>1, <2>1 DEF Inv, DocumentsInv, DocumentsKept, SameThing
<1> QED  BY <1>1, <1>4, <1>5, <1>6, <1>7, CallsKept DEF Inv

LEMMA AnswerLoadInv ==
  ASSUME Inv, NEW l \in loads, AnswerLoad(l) \/ FailLoad(l)
  PROVE  Inv'
<1>1. l.read \in View \cup {None}
  BY DEF Inv, TypeInv, LoadType, Loads
<1>2. CASE AnswerLoad(l)
  BY <1>1, <1>2, DataArrives DEF AnswerLoad
<1>3. CASE FailLoad(l)
  BY <1>1, <1>3, DataArrives DEF FailLoad
<1> QED  BY <1>2, <1>3

LEMMA FormStepInv ==
  ASSUME Inv, FormStep
  PROVE  Inv'
<1>1. FormNext
  BY FormStepNext DEF Inv
<1>2. /\ UNCHANGED <<screen, store, ws, data, loads, calls, started, unseen, excused>>
      /\ FormType' /\ FormInv' /\ (screen = "documents" /\ ~excused => RenewsStored')
  BY <1>1 DEF FormNext, Elsewhere
<1>3. TypeInv'
  BY <1>2 DEF Inv, TypeInv, StoreType, LoadType, CallType, store
<1>4. LoadInv'
  <2>1. Visible(ws)' = Visible(ws)
    BY <1>2, StoreKept DEF Inv, TypeInv, StoreType, store
  <2> QED  BY <1>2, <2>1 DEF Inv, LoadInv, OneLoad, Owed, Loaded
<1>5. screen = "documents" /\ ~excused => DocumentsKept'
  BY <1>2 DEF Inv, DocumentsInv, DocumentsKept, SameThing, RenewsStored, store
<1> QED  BY <1>2, <1>3, <1>4, <1>5, CallsKept DEF Inv, store

-------------------------------------------------------------------------------
(***************************************************************************)
(* Calls begun                                                             *)
(***************************************************************************)

\* The writes of a service are writes.
LEMMA WritesAre ==
  ASSUME NEW i \in Ids
  PROVE  /\ Update(i) \in Writes /\ Remove(i) \in Writes /\ SetDefault(i) \in Writes
         /\ \A b \in BOOLEAN : Mark(i, b) \in Writes
         /\ \A a \in Assignments \cup {None} : Move(i, a) \in Writes
  BY DEF Writes, Update, Remove, SetDefault, Mark, Move, Belongs

LEMMA InsertsAre ==
  /\ \A b \in Belongs : Insert(b) \in Writes
  /\ \A a \in Assignments \cup {None} : Remember(a) \in Writes
<1>1. \A b \in Belongs : Insert(b) \in Writes
  BY DEF Writes, Insert
<1>2. \A a \in Assignments \cup {None} : Remember(a) \in Writes
  BY DEF Writes, Remember, Belongs
<1> QED  BY <1>1, <1>2

LEMMA PairIsSequence ==
  ASSUME NEW S, NEW a \in S, NEW b \in S
  PROVE  <<a, b>> \in Seq(S)
  OBVIOUS

\* What Save has a service do.
LEMMA TodoIs ==
  ASSUME TypeInv, FormInv
  PROVE  /\ Todo \in Seq(Writes)
         /\ screen = "documents" =>
              \/ form.renews /\ Todo = <<Mark(editing, FALSE), Insert(form.belongs)>>
              \/ \E i \in Ids : Todo = <<Update(i)>>
              \/ Todo = <<Insert(Home)>>
         /\ screen = "checklists" =>
              \/ \E i \in Ids : Todo = <<Update(i)>>
              \/ Todo = <<Insert(ws)>>
<1> USE DEF TypeInv, FormType
<1>0. form.renews => screen = "documents" /\ ~IsShifts
  BY DEF FormInv, IsShifts
<1>1. CASE IsShifts
  <2>1. ChosenAssignment \in Assignments \cup {None}
    <3>1. Shown \in View /\ Shown.active \subseteq Assignments
      BY ShownIs
    <3>2. Primary(Shown) \in Assignments \cup {None}
      BY <3>1, PrimaryIs
    <3> QED  BY <3>1, <3>2 DEF ChosenAssignment
  <2>2. /\ Insert(ChosenAssignment) \in Writes /\ Remember(ChosenAssignment) \in Writes
        /\ editing # None => Move(editing, ChosenAssignment) \in Writes
    BY <2>1, WritesAre, InsertsAre DEF Belongs
  <2>3. Todo = <<IF editing = None THEN Insert(ChosenAssignment) ELSE Move(editing, ChosenAssignment),
                 Remember(ChosenAssignment)>>
    BY <1>0, <1>1 DEF Todo, SaveShift, IsShifts
  <2> DEFINE first == IF editing = None THEN Insert(ChosenAssignment) ELSE Move(editing, ChosenAssignment)
  <2>4. first \in Writes
    BY <2>2
  <2> HIDE DEF first
  <2>5. Todo = <<first, Remember(ChosenAssignment)>>
    BY <2>3 DEF first
  <2>6. Todo \in Seq(Writes)
    BY <2>2, <2>4, <2>5, PairIsSequence
  <2> QED  BY <1>1, <2>6 DEF IsShifts
<1>2. CASE ~IsShifts /\ form.renews
  <2>1. editing \in Ids /\ form.belongs \in Belongs
    BY <1>2 DEF FormInv, FormValues, Belongs
  <2>2. Mark(editing, FALSE) \in Writes /\ Insert(form.belongs) \in Writes
    BY <2>1, WritesAre, InsertsAre
  <2>3. Todo = <<Mark(editing, FALSE), Insert(form.belongs)>>
    BY <1>0, <1>2 DEF Todo, RenewDriverDocument, IsShifts
  <2>4. Todo \in Seq(Writes)
    BY <2>2, <2>3, PairIsSequence
  <2> QED  BY <1>0, <1>2, <2>3, <2>4
<1>3. CASE ~IsShifts /\ ~form.renews /\ editing # None
  <2>1. editing \in Ids /\ Update(editing) \in Writes
    BY <1>3, WritesAre
  <2>2. Todo = IF screen = "drivers" THEN <<Update(editing), Update(editing)>> ELSE <<Update(editing)>>
    BY <1>3 DEF Todo, IsShifts
  <2>3. Todo \in Seq(Writes)
    BY <2>1, <2>2
  <2> QED  BY <2>1, <2>2, <2>3
<1>4. CASE ~IsShifts /\ ~form.renews /\ editing = None
  <2> DEFINE b == IF screen = "sites" THEN form.belongs ELSE IF This.scoped THEN ws ELSE Home
  <2>1. Todo = <<Insert(b)>>
    BY <1>4 DEF Todo, IsShifts
  <2>2. b \in Belongs
    <3>1. form.belongs \in Belongs /\ ws \in Belongs /\ Home \in Belongs
      BY ScreenBounds DEF FormValues, Belongs, StoreType
    <3> QED  BY <3>1
  <2>3. (screen = "documents" => b = Home) /\ (screen = "checklists" => b = ws)
    BY ComponentIs DEF StoreType
  <2> HIDE DEF b
  <2>4. Insert(b) \in Writes
    BY <2>2, InsertsAre
  <2>5. Todo \in Seq(Writes)
    BY <2>1, <2>4
  <2> QED  BY <1>4, <2>1, <2>3, <2>5
<1> QED  BY <1>1, <1>2, <1>3, <1>4

\* What the buttons of a row have it do.
LEMMA RowActionsAre ==
  ASSUME StoreType, NEW i \in Ids, NEW todo \in RowActions(i), Shown.rows[i] \in Row
  PROVE  /\ todo \in Seq(Writes)
         /\ screen = "documents" => todo = <<Mark(i, ~Shown.rows[i].current)>>
         /\ screen = "checklists" => todo \in {<<Update(i)>>, <<SetDefault(i)>>}
<1>1. Shown.rows[i].current \in BOOLEAN
  BY DEF Row
<1>2. /\ Mark(i, ~Shown.rows[i].current) \in Writes
      /\ Update(i) \in Writes /\ Remove(i) \in Writes /\ SetDefault(i) \in Writes
  BY <1>1, WritesAre
<1> DEFINE marks == {<<Mark(i, ~Shown.rows[i].current)>>}
           both == {<<Update(i)>>, <<SetDefault(i)>>}
           removes == {<<Remove(i)>>}
           updates == {<<Update(i)>>}
<1>3. RowActions(i) = CASE screen = "documents" -> marks
                        [] screen = "checklists" -> both
                        [] This.onRow = "remove" -> removes
                        [] This.onRow = "none" -> {}
                        [] OTHER -> updates
  BY DEF RowActions
<1>4. marks \subseteq Seq(Writes) /\ both \subseteq Seq(Writes)
      /\ removes \subseteq Seq(Writes) /\ updates \subseteq Seq(Writes)
  BY <1>2
<1>5. /\ screen = "documents" => screen # "checklists" /\ This.onRow = "archive"
      /\ screen = "checklists" => This.onRow = "archive"
  BY ComponentIs DEF StoreType
<1>6. /\ screen = "documents" => todo \in marks
      /\ screen = "checklists" => todo \in both
      /\ todo \in marks \cup both \cup removes \cup updates
  <2> HIDE DEF marks, both, removes, updates
  <2> QED  BY <1>3, <1>5
<1> QED  BY <1>4, <1>6

\* A call begun leaves the rest of the types as they are.
LEMMA BeginKeepsTypes ==
  ASSUME TypeInv, NEW kind \in {"save", "row"}, NEW back \in {"list", "detail"}, NEW todo \in Seq(Writes),
         Begin(kind, back, todo), NEW condition, Excuse(condition), saving' \in BOOLEAN,
         UNCHANGED <<screen, store, ws, data, loads, mode, editing, form, asks, selected, detail, unseen>>
  PROVE  TypeInv'
<1>1. started' \in 0 .. MaxCalls[screen]
  BY ScreenBounds DEF Begin, TypeInv, CallType, StoreType
<1>2. calls' \subseteq Calls
  <2>1. [kind |-> kind, back |-> back, ws |-> ws, todo |-> todo, landed |-> FALSE, mine |-> TRUE] \in Calls
    BY DEF Calls, TypeInv, StoreType
  <2> QED  BY <2>1 DEF Begin, TypeInv, CallType
<1>3. excused' \in BOOLEAN
  BY DEF Excuse, TypeInv, CallType
<1> QED
  BY <1>1, <1>2, <1>3 DEF TypeInv, StoreType, LoadType, FormType, CallType, store

\* A call begun has written nothing.
LEMMA BeginKeepsLoads ==
  ASSUME TypeInv, LoadInv, NEW kind, NEW back, NEW todo, Begin(kind, back, todo),
         UNCHANGED <<screen, store, ws, data, loads, unseen>>
  PROVE  LoadInv'
<1>1. OneLoad'
  BY DEF LoadInv, OneLoad
<1>2. Owed' <=> Owed
  BY DEF Owed, Begin
<1>3. Loaded' <=> Loaded
  <2>1. Visible(ws)' = Visible(ws)
    BY StoreKept DEF TypeInv, StoreType, store
  <2> QED  BY <2>1 DEF Loaded
<1> QED  BY <1>1, <1>2, <1>3 DEF LoadInv

\* A call that is alone, and begun from a list that is up to date, is one of those
\* that keep one row current.
LEMMA BeginKeepsCurrent ==
  ASSUME TypeInv, DocumentsInv, ChecklistsInv, NEW kind, NEW back, NEW todo, Begin(kind, back, todo),
         NEW condition \in BOOLEAN, Excuse(condition), calls # {} => condition,
         screen = "documents" /\ ~condition /\ ~excused => DocumentCall(todo),
         screen = "checklists" /\ ~condition /\ HomeUnique =>
           \/ todo = <<Insert(ws)>>
           \/ \E i \in Ids : todo = <<Update(i)>>
           \/ \E i \in Ids : rows[i] # None /\ rows[i].belongs = ws /\ todo = <<SetDefault(i)>>,
         UNCHANGED <<screen, rows, data, loads, form, editing>>
  PROVE  DocumentsInv' /\ ChecklistsInv'
<1> DEFINE c == [kind |-> kind, back |-> back, ws |-> ws, todo |-> todo, landed |-> FALSE, mine |-> TRUE]
<1>1. calls' = calls \cup {c} /\ c.todo = todo /\ c.ws = ws
  BY DEF Begin
<1> HIDE DEF c
<1>2. screen \in WithCurrent /\ ~excused' => calls = {} /\ calls' = {c} /\ ~excused /\ ~condition
  BY <1>1 DEF Excuse
<1>3. DocumentsInv'
  <2> SUFFICES ASSUME screen = "documents", ~excused' PROVE DocumentsInv'
    BY DEF DocumentsInv
  <2>1. calls = {} /\ calls' = {c} /\ ~excused /\ ~condition
    BY <1>2 DEF WithCurrent
  <2>2. DocumentsKept'
    BY <2>1 DEF DocumentsInv, DocumentsKept, SameThing
  <2>3. OneCall' /\ \A d \in calls' : DocumentCall(d.todo)'
    BY <1>1, <2>1, StoreKept DEF OneCall
  <2> QED  BY <2>1, <2>2, <2>3, StoreKept DEF DocumentsInv
<1>4. ChecklistsInv'
  <2> SUFFICES ASSUME screen = "checklists", ~excused' PROVE OneCall' /\ calls' # {} /\ \A d \in calls' : ChecklistCall(d)'
    BY DEF ChecklistsInv
  <2>1. calls = {} /\ calls' = {c} /\ ~excused /\ ~condition
    BY <1>2 DEF WithCurrent
  <2>2. HomeUnique
    BY <2>1 DEF ChecklistsInv
  <2>3. ChecklistCall(c)
    BY <1>1, <2>1, <2>2 DEF ChecklistCall
  <2> QED  BY <2>1, <2>3, StoreKept DEF OneCall
<1> QED  BY <1>3, <1>4

LEMMA SaveInv ==
  ASSUME Inv, Save
  PROVE  Inv'
<1> DEFINE condition == calls # {} \/ Behind \/ (form.renews /\ ~Shown.rows[editing].current)
           back == IF screen = "rateCards" /\ editing # None THEN "detail" ELSE "list"
<1>1. /\ Begin("save", back, Todo) /\ Excuse(condition) /\ saving' = TRUE
      /\ UNCHANGED <<screen, store, ws, data, loads, mode, editing, form, asks, selected, detail, unseen>>
  BY DEF Save
<1>2. Todo \in Seq(Writes) /\ TypeInv /\ back \in {"list", "detail"}
  BY TodoIs DEF Inv
<1> HIDE DEF back
<1>3. TypeInv'
  <2> HIDE DEF condition
  <2> QED  BY <1>1, <1>2, BeginKeepsTypes
<1>4. LoadInv'
  BY <1>1, <1>2, BeginKeepsLoads DEF Inv
<1>5. FormInv'
  BY <1>1, SameComponent DEF Inv, FormInv
<1>6. ASSUME screen = "documents", ~condition, ~excused PROVE DocumentCall(Todo)
  <2>1. CASE form.renews /\ Todo = <<Mark(editing, FALSE), Insert(form.belongs)>>
    <3>1. /\ rows[editing] # None /\ form.belongs = rows[editing].belongs /\ editing \in Ids
      BY <1>2, <1>6, <2>1 DEF Inv, DocumentsInv, DocumentsKept, FormInv, TypeInv, FormType
    <3>2. Shown.rows = rows
      BY <1>2, <1>6, ComponentIs, VisibleIs DEF Behind, TypeInv, StoreType
    <3>3. CurrentRow(editing)
      BY <1>6, <2>1, <3>1, <3>2 DEF CurrentRow
    <3> QED  BY <2>1, <3>1, <3>3 DEF DocumentCall
  <2>2. CASE \/ \E i \in Ids : Todo = <<Update(i)>>
             \/ Todo = <<Insert(Home)>>
    BY <2>2 DEF DocumentCall
  <2> QED  BY <1>2, <1>6, <2>1, <2>2, TodoIs DEF Inv
<1>7. screen = "checklists" => \/ \E i \in Ids : Todo = <<Update(i)>>
                               \/ Todo = <<Insert(ws)>>
  BY TodoIs DEF Inv
<1>8. DocumentsInv' /\ ChecklistsInv'
  <2>1. calls # {} => condition
    OBVIOUS
  <2>2. condition \in BOOLEAN
    OBVIOUS
  <2> HIDE DEF condition
  <2> QED  BY <1>1, <1>2, <1>6, <1>7, <2>1, <2>2, BeginKeepsCurrent DEF Inv, store
<1> QED  BY <1>3, <1>4, <1>5, <1>8 DEF Inv

LEMMA RowActionInv ==
  ASSUME Inv, NEW i \in Ids, RowAction(i)
  PROVE  Inv'
<1> DEFINE condition == calls # {} \/ Behind \/ (screen = "documents" /\ ~Shown.rows[i].current)
<1>1. /\ i \in ListedNow /\ Excuse(condition) /\ UNCHANGED <<screen, store, ws, data, loads, local, unseen>>
  BY DEF RowAction
<1>2. PICK todo \in RowActions(i) : Begin("row", "list", todo)
  BY DEF RowAction
<1>3. TypeInv /\ Shown.rows \in RowSets /\ Shown.rows[i] \in Row
  BY <1>1, ShownIs DEF Inv, TypeInv, ListedNow, RowSets
<1>4. /\ todo \in Seq(Writes)
      /\ screen = "documents" => todo = <<Mark(i, ~Shown.rows[i].current)>>
      /\ screen = "checklists" => todo \in {<<Update(i)>>, <<SetDefault(i)>>}
  BY <1>3, RowActionsAre DEF TypeInv
<1>5. TypeInv'
  <2> HIDE DEF condition
  <2> QED  BY <1>1, <1>2, <1>3, <1>4, BeginKeepsTypes DEF local, TypeInv, FormType
<1>6. LoadInv'
  BY <1>1, <1>2, <1>3, BeginKeepsLoads DEF Inv
<1>7. FormInv'
  BY <1>1, SameComponent DEF Inv, FormInv, local
<1>8. ASSUME screen = "documents", ~condition PROVE DocumentCall(todo)
  <2>1. ~Shown.rows[i].current = FALSE
    BY <1>3, <1>8 DEF Row
  <2>2. todo = <<Mark(i, FALSE)>>
    BY <1>4, <1>8, <2>1
  <2> QED  BY <2>2 DEF DocumentCall
<1>9. ASSUME screen = "checklists", ~condition
      PROVE  \/ \E j \in Ids : todo = <<Update(j)>>
             \/ \E j \in Ids : rows[j] # None /\ rows[j].belongs = ws /\ todo = <<SetDefault(j)>>
  <2>1. Visible(ws)[i] # None
    BY <1>1, <1>9 DEF Behind, ListedNow
  <2>2. This.scoped
    BY <1>3, <1>9, ComponentIs DEF TypeInv, StoreType
  <2>3. rows[i] # None /\ rows[i].belongs = ws
    BY <2>1, <2>2 DEF Visible
  <2> QED  BY <1>4, <1>9, <2>3
<1>10. DocumentsInv' /\ ChecklistsInv'
  <2>1. calls # {} => condition
    OBVIOUS
  <2>2. condition \in BOOLEAN
    OBVIOUS
  <2> HIDE DEF condition
  <2> QED  BY <1>1, <1>2, <1>3, <1>8, <1>9, <2>1, <2>2, BeginKeepsCurrent DEF Inv, store, local
<1> QED  BY <1>5, <1>6, <1>7, <1>10 DEF Inv

-------------------------------------------------------------------------------
(***************************************************************************)
(* Writes                                                                  *)
(***************************************************************************)

\* The updates of setDefaultChecklistTemplate are finitely many, and made once each.
LEMMA FunctionIsSequence ==
  ASSUME NEW S, NEW n \in Nat, NEW q \in [1 .. n -> S]
  PROVE  q \in Seq(S) /\ DOMAIN q = 1 .. n
  BY SMT

LEMMA AnyOrderIs ==
  ASSUME NEW S, IsFiniteSet(S), NEW q \in AnyOrder(S)
  PROVE  /\ q \in Seq(S)
         /\ \A k \in DOMAIN q : q[k] \in S
         /\ \A s \in S : \E k \in DOMAIN q : q[k] = s
         /\ \A k, l \in DOMAIN q : q[k] = q[l] => k = l
<1> DEFINE n == Cardinality(S)
<1>1. n \in Nat
  BY FS_CardinalityType
<1>2. q \in [1 .. n -> S] /\ \A s \in S : \E k \in DOMAIN q : q[k] = s
  BY DEF AnyOrder
<1>3. DOMAIN q = 1 .. n
  BY <1>2
<1>4. IsFiniteSet(1 .. n) /\ Cardinality(1 .. n) = n
  BY <1>1, FS_Interval
<1>5. q \in Surjection(1 .. n, S)
  BY <1>2, <1>3 DEF Surjection
<1>6. q \in Injection(1 .. n, S)
  BY <1>4, <1>5, FS_SurjSameCardinalityImpliesInj
<1>7. \A k, l \in DOMAIN q : q[k] = q[l] => k = l
  BY <1>3, <1>6 DEF Injection, IsInjective
<1> HIDE DEF n
<1>8. q \in Seq(S)
  BY <1>1, <1>2, FunctionIsSequence
<1> QED  BY <1>2, <1>3, <1>7, <1>8

LEMMA MarksAreFinite ==
  ASSUME NEW id \in Ids, NEW w
  PROVE  IsFiniteSet(DefaultMarks(id, w)) /\ DefaultMarks(id, w) \subseteq Writes
<1> DEFINE T == {j \in Ids : rows[j] # None /\ rows[j].belongs = w /\ rows[j].current # (j = id)}
           f == [j \in T |-> Mark(j, j = id)]
<1>1. DefaultMarks(id, w) = {Mark(j, j = id) : j \in T}
  BY DEF DefaultMarks
<1>2. IsFiniteSet(T)
  BY FS_Subset, ScreenBounds
<1>3. f \in Surjection(T, DefaultMarks(id, w))
  BY <1>1 DEF Surjection
<1>4. IsFiniteSet(DefaultMarks(id, w))
  BY <1>2, <1>3, FS_Surjection
<1>5. \A j \in T : Mark(j, j = id) \in Writes
  BY WritesAre
<1> QED  BY <1>1, <1>4, <1>5

\* A row that is written is a row again.
LEMMA RowsWritten ==
  ASSUME StoreType, NEW w \in Writes
  PROVE  /\ w.op = "insert" => \A i \in Ids : NewRow(w.to, i) \in Row
         /\ \A r \in Row : w.op \in {"update", "move", "mark"} =>
              /\ Changed(r, w) \in Row
              /\ w.op # "move" => Changed(r, w).belongs = r.belongs
              /\ w.op = "mark" => Changed(r, w).current = w.to
              /\ w.op # "mark" => Changed(r, w).current = r.current
<1>1. /\ w.op \in {"insert", "update", "move", "mark", "remove", "remember", "setDefault"}
      /\ w.op \in {"insert", "move"} => w.to \in Belongs
      /\ w.op = "mark" => w.to \in BOOLEAN
  BY DEF Writes
<1>2. w.op = "insert" => \A i \in Ids : NewRow(w.to, i) \in Row
  BY <1>1 DEF NewRow, Row, Belongs
<1>3. ASSUME NEW r \in Row, w.op \in {"update", "move", "mark"}
      PROVE  /\ Changed(r, w) \in Row
             /\ w.op # "move" => Changed(r, w).belongs = r.belongs
             /\ w.op = "mark" => Changed(r, w).current = w.to
             /\ w.op # "mark" => Changed(r, w).current = r.current
  <2>1. CASE w.op = "mark"
    <3>1. Changed(r, w) = [r EXCEPT !.rev = @ + 1, !.current = w.to]
      BY <2>1 DEF Changed
    <3>2. Changed(r, w) = [rev |-> r.rev + 1, belongs |-> r.belongs, current |-> w.to]
      BY <3>1 DEF Row
    <3> QED  BY <1>1, <2>1, <3>2 DEF Row
  <2>2. CASE w.op = "move"
    <3>1. Changed(r, w) = [r EXCEPT !.rev = @ + 1, !.belongs = w.to]
      BY <2>2 DEF Changed
    <3>2. Changed(r, w) = [rev |-> r.rev + 1, belongs |-> w.to, current |-> r.current]
      BY <3>1 DEF Row
    <3> QED  BY <1>1, <2>2, <3>2 DEF Row, Belongs
  <2>3. CASE w.op = "update"
    <3>1. Changed(r, w) = [r EXCEPT !.rev = @ + 1]
      BY <2>3 DEF Changed
    <3> QED  BY <2>3, <3>1 DEF Row
  <2> QED  BY <1>3, <2>1, <2>2, <2>3
<1> QED  BY <1>2, <1>3

\* How the next write w of call c changes the rows.
RowsBecome(c, w) ==
  \/ w.op = "insert" /\ \E i \in Ids : rows[i] = None /\ rows' = [rows EXCEPT ![i] = NewRow(w.to, i)]
  \/ w.op = "remove" /\ w.id \in Ids /\ rows' = [rows EXCEPT ![w.id] = None]
  \/ w.op \in {"remember", "setDefault"} /\ rows' = rows
  \/ w.op \in {"update", "move", "mark"} /\ ~OfTheRow(c, w) /\ rows' = rows
  \/ /\ w.op \in {"update", "move", "mark"} /\ w.id \in Ids /\ rows[w.id] \in Row
     /\ rows' = [rows EXCEPT ![w.id] = Changed(rows[w.id], w)]

LEMMA RowsBecomeRows ==
  ASSUME StoreType, NEW c, NEW w \in Writes, RowsBecome(c, w)
  PROVE  rows' \in RowSets
<1>1. \A i \in Ids : rows[i] \in Row \cup {None}
  BY DEF StoreType, RowSets
<1>2. \A i \in Ids : \A r \in Row \cup {None} : [rows EXCEPT ![i] = r] \in RowSets
  BY DEF StoreType, RowSets
<1>3. CASE w.op = "insert" /\ \E i \in Ids : rows[i] = None /\ rows' = [rows EXCEPT ![i] = NewRow(w.to, i)]
  <2>1. \A i \in Ids : NewRow(w.to, i) \in Row
    BY <1>3, RowsWritten
  <2> QED  BY <1>2, <1>3, <2>1
<1>4. CASE /\ w.op \in {"update", "move", "mark"} /\ w.id \in Ids /\ rows[w.id] \in Row
           /\ rows' = [rows EXCEPT ![w.id] = Changed(rows[w.id], w)]
  <2>1. Changed(rows[w.id], w) \in Row
    BY <1>4, RowsWritten
  <2> QED  BY <1>2, <1>4, <2>1
<1> QED  BY <1>2, <1>3, <1>4 DEF RowsBecome, StoreType

\* What is left of call c once w has been written.
Remains(c, w, todo) ==
  \/ w.op = "setDefault" /\ todo \in AnyOrder(DefaultMarks(w.id, c.ws))
  \/ w.op # "setDefault" /\ todo = Tail(c.todo)

LEMMA WriteIs ==
  ASSUME TypeInv, NEW c \in calls, Write(c), NEW w, w = Head(c.todo)
  PROVE  /\ c \in Calls /\ c.todo # <<>> /\ w \in Writes
         /\ RowsBecome(c, w)
         /\ \E todo \in Seq(Writes) :
              Remains(c, w, todo) /\ calls' = (calls \ {c}) \cup {[c EXCEPT !.todo = todo, !.landed = TRUE]}
<1>1. c \in Calls /\ c.todo \in Seq(Writes) /\ c.todo # <<>> /\ c.ws \in Workspaces
  BY DEF TypeInv, CallType, Calls, Write
<1>2. w \in Writes /\ Tail(c.todo) \in Seq(Writes)
  BY <1>1, HeadTailProperties
<1>3. /\ w.op \in {"insert", "update", "move", "mark", "remove", "remember", "setDefault"}
      /\ w.op \in {"update", "move", "mark", "remove", "setDefault"} => w.id \in Ids
  BY <1>2 DEF Writes
<1>4. Allowed(c, w)
  BY DEF Write
<1>5. CASE w.op = "insert"
  <2>1. \E i \in FreeIds : rows' = [rows EXCEPT ![i] = NewRow(w.to, i)]
    BY <1>5 DEF Write
  <2> QED  BY <1>1, <1>2, <1>5, <2>1 DEF RowsBecome, FreeIds, Write, Remains
<1>6. CASE w.op = "remove"
  BY <1>1, <1>2, <1>3, <1>6 DEF RowsBecome, Write, Remains
<1>7. CASE w.op = "remember"
  BY <1>1, <1>2, <1>3, <1>7 DEF RowsBecome, Write, Remains
<1>8. CASE w.op = "setDefault"
  <2>1. rows' = rows
    BY <1>8 DEF Write
  <2>2. PICK q \in AnyOrder(DefaultMarks(w.id, c.ws)) :
          calls' = (calls \ {c}) \cup {[c EXCEPT !.todo = q, !.landed = TRUE]}
    BY <1>8 DEF Write
  <2>3. IsFiniteSet(DefaultMarks(w.id, c.ws)) /\ DefaultMarks(w.id, c.ws) \subseteq Writes
    BY <1>3, <1>8, MarksAreFinite
  <2>4. q \in Seq(DefaultMarks(w.id, c.ws))
    BY <2>3, AnyOrderIs
  <2>5. q \in Seq(Writes)
    BY <2>3, <2>4
  <2> QED  BY <1>1, <1>2, <1>8, <2>1, <2>2, <2>5 DEF RowsBecome, Remains
<1>9. CASE w.op \in {"update", "move", "mark"}
  <2>1. w.id \in Ids /\ rows[w.id] \in Row
    <3>1. w.id \in Ids /\ w.id # None
      BY <1>3, <1>9, IdsAreDistinct
    <3> QED  BY <1>4, <3>1 DEF Allowed, TypeInv, StoreType, RowSets
  <2>2. calls' = (calls \ {c}) \cup {[c EXCEPT !.todo = Tail(c.todo), !.landed = TRUE]}
    BY <1>9 DEF Write
  <2>3. CASE ~OfTheRow(c, w)
    <3>1. rows' = rows
      BY <1>9, <2>3 DEF Write
    <3> QED  BY <1>1, <1>2, <1>9, <2>2, <2>3, <3>1 DEF RowsBecome, Remains
  <2>4. CASE OfTheRow(c, w)
    <3>1. rows' = [rows EXCEPT ![w.id] = Changed(rows[w.id], w)]
      BY <1>9, <2>4 DEF Write
    <3> QED  BY <1>1, <1>2, <1>9, <2>1, <2>2, <3>1 DEF RowsBecome, Remains
  <2> QED  BY <2>3, <2>4
<1> QED  BY <1>3, <1>5, <1>6, <1>7, <1>8, <1>9

\* The call that has written, with what is left of it.
LEMMA CallIs ==
  ASSUME NEW c \in Calls, NEW todo \in Seq(Writes)
  PROVE  LET x == [c EXCEPT !.todo = todo, !.landed = TRUE]
         IN /\ x \in Calls /\ x.todo = todo /\ x.landed /\ x.mine = c.mine /\ x.ws = c.ws
            /\ x.kind = c.kind /\ x.back = c.back
  BY DEF Calls

LEMMA WriteTypes ==
  ASSUME TypeInv, NEW c \in calls, Write(c)
  PROVE  TypeInv'
<1> DEFINE w == Head(c.todo)
<1>1. c \in Calls /\ w \in Writes /\ RowsBecome(c, w)
  BY WriteIs
<1>2. PICK todo \in Seq(Writes) : calls' = (calls \ {c}) \cup {[c EXCEPT !.todo = todo, !.landed = TRUE]}
  BY WriteIs
<1>3. calls' \subseteq Calls
  BY <1>1, <1>2, CallIs DEF TypeInv, CallType
<1>4. rows' \in RowSets
  BY <1>1, RowsBecomeRows DEF TypeInv
<1>5. last' \in Assignments \cup {None}
  BY <1>1 DEF Write, Writes, TypeInv, StoreType
<1>6. unseen' \in BOOLEAN /\ UNCHANGED <<screen, active, ws, data, loads, local, started, excused>>
  BY DEF Write, TypeInv, CallType
<1> QED
  BY <1>3, <1>4, <1>5, <1>6 DEF TypeInv, StoreType, LoadType, FormType, CallType, local

LEMMA WriteLoads ==
  ASSUME TypeInv, LoadInv, NEW c \in calls, Write(c)
  PROVE  LoadInv'
<1>1. PICK todo \in Seq(Writes) : calls' = (calls \ {c}) \cup {[c EXCEPT !.todo = todo, !.landed = TRUE]}
  BY WriteIs
<1>2. /\ c \in Calls /\ unseen' = (unseen \/ ~c.mine) /\ UNCHANGED <<loads, ws>>
  BY DEF Write, TypeInv, CallType
<1>3. OneLoad'
  BY <1>2 DEF LoadInv, OneLoad
<1>4. c.mine => Owed'
  <2> DEFINE x == [c EXCEPT !.todo = todo, !.landed = TRUE]
  <2>1. x \in calls' /\ x.landed /\ x.mine = c.mine
    BY <1>1, <1>2, CallIs
  <2> HIDE DEF x
  <2> QED  BY <2>1 DEF Owed
<1>5. c.mine \in BOOLEAN
  BY <1>2 DEF Calls
<1> QED  BY <1>2, <1>3, <1>4, <1>5 DEF LoadInv

\* Rows of documents stay what they are under the writes of a call that is alone.
LEMMA WriteDocuments ==
  ASSUME TypeInv, DocumentsInv, FormInv, NEW c \in calls, Write(c)
  PROVE  DocumentsInv'
<1> DEFINE w == Head(c.todo)
<1> SUFFICES ASSUME screen = "documents", ~excused PROVE DocumentsInv'
  BY DEF Write, DocumentsInv
<1>1. c \in Calls /\ c.todo # <<>> /\ w \in Writes /\ RowsBecome(c, w)
  BY WriteIs
<1>2. PICK todo \in Seq(Writes) : /\ Remains(c, w, todo)
                                  /\ calls' = (calls \ {c}) \cup {[c EXCEPT !.todo = todo, !.landed = TRUE]}
  BY WriteIs
<1>3. /\ UNCHANGED <<screen, data, loads, local, excused>> /\ rows \in RowSets
  BY DEF Write, TypeInv, StoreType
<1>4. calls = {c}
  BY DEF DocumentsInv, OneCall
<1>5. /\ DocumentsKept /\ DocumentCall(c.todo)
      /\ \A i, j \in Ids : CurrentRow(i) /\ CurrentRow(j) /\ rows[i].belongs = rows[j].belongs => i = j
  BY DEF DocumentsInv
<1> DEFINE x == [c EXCEPT !.todo = todo, !.landed = TRUE]
<1>6. calls' = {x} /\ x.todo = todo
  BY <1>1, <1>2, <1>4, CallIs
<1> HIDE DEF x
<1>n. None \notin Row /\ None \notin Ids /\ Home \notin Ids
  BY NoneIsNoRow, IdsAreDistinct, ScreenBounds
<1>o. \A v \in Writes : OfTheRow(c, v)
  BY DEF OfTheRow
\* It is enough that rows stay, and that new ones belong to a row.
<1>7. ASSUME \A i \in Ids : rows[i] # None => rows'[i] # None /\ rows'[i].belongs = rows[i].belongs,
             \A i \in Ids : rows'[i] # None => rows'[i].belongs \in Ids /\ rows'[rows'[i].belongs] # None
      PROVE  DocumentsKept'
  <2>1. form.renews => editing \in Ids
    BY DEF FormInv, TypeInv, FormType
  <2>2. \A l \in loads : l.read # None => l.read.rows \in RowSets
    BY DEF TypeInv, LoadType, Loads, View
  <2> QED  BY <1>3, <1>5, <1>7, <2>1, <2>2 DEF DocumentsKept, SameThing, local
<1>8. ASSUME NEW i \in Ids, rows[i] = None, NEW b \in {Home} \cup {k \in Ids : rows[k] # None},
             b \in Ids => NoneCurrent(b),
             w = Insert(b), rows' = [rows EXCEPT ![i] = NewRow(b, i)], todo = <<>>
      PROVE  DocumentsInv'
  <2> DEFINE n == IF b \in Ids THEN b ELSE i
  <2>1. NewRow(b, i) = [rev |-> 0, current |-> TRUE, belongs |-> n]
    BY <1>n DEF NewRow
  <2>2. /\ rows'[i] = [rev |-> 0, current |-> TRUE, belongs |-> n] /\ rows'[i] # None
        /\ \A k \in Ids \ {i} : rows'[k] = rows[k]
    <3>1. [rev |-> 0, current |-> TRUE, belongs |-> n] \in Row
      BY DEF Row
    <3>2. rows' = [rows EXCEPT ![i] = [rev |-> 0, current |-> TRUE, belongs |-> n]]
      BY <1>8, <2>1
    <3> HIDE DEF n
    <3> QED  BY <1>3, <1>n, <3>1, <3>2 DEF RowSets
  <2>3. \A k \in Ids : CurrentRow(k) => rows[k].belongs # n
    <3>1. CASE b \in Ids
      BY <1>8, <3>1 DEF NoneCurrent
    <3>2. CASE b \notin Ids
      BY <1>5, <1>8, <3>2 DEF CurrentRow, DocumentsKept
    <3> QED  BY <3>1, <3>2
  <2>4. n \in Ids /\ rows'[n] # None
    <3>1. CASE b \in Ids
      BY <1>8, <1>n, <2>2, <3>1
    <3>2. CASE b \notin Ids
      BY <2>2, <3>2
    <3> QED  BY <3>1, <3>2
  <2>5. rows'[i].belongs = n /\ rows'[i].current
    BY <2>2
  <2> HIDE DEF n
  <2>6. DocumentsKept'
    BY <1>5, <1>7, <1>8, <2>2, <2>4, <2>5 DEF DocumentsKept
  <2>7. \A k, l \in Ids : (/\ rows'[k] # None /\ rows'[k].current /\ rows'[l] # None /\ rows'[l].current
                           /\ rows'[k].belongs = rows'[l].belongs) => k = l
    BY <1>5, <2>2, <2>3, <2>5 DEF CurrentRow
  <2> QED  BY <1>6, <1>8, <2>6, <2>7 DEF DocumentsInv, OneCall, DocumentCall, CurrentRow
\* The other writes leave a row what it belongs to, and make none current.
<1>9. ASSUME NEW i \in Ids, NEW r, rows[i] # None => r \in Row /\ r.belongs = rows[i].belongs /\ (r.current => rows[i].current),
             rows[i] # None, rows' = [rows EXCEPT ![i] = r]
      PROVE  /\ DocumentsKept'
             /\ \A k \in Ids : rows'[k] = IF k = i THEN r ELSE rows[k]
             /\ \A k, l \in Ids : (/\ rows'[k] # None /\ rows'[k].current /\ rows'[l] # None /\ rows'[l].current
                                   /\ rows'[k].belongs = rows'[l].belongs) => k = l
  <2>1. \A k \in Ids : rows'[k] = IF k = i THEN r ELSE rows[k]
    BY <1>3, <1>9 DEF RowSets
  <2>2. \A k \in Ids : /\ rows'[k] # None <=> rows[k] # None
                       /\ rows[k] # None => rows'[k].belongs = rows[k].belongs /\ (rows'[k].current => rows[k].current)
    BY <1>9, <1>n, <2>1
  <2>3. DocumentsKept'
    BY <1>5, <1>7, <2>2 DEF DocumentsKept
  <2> QED  BY <1>5, <2>1, <2>2, <2>3 DEF CurrentRow
<1>10. CASE \E i \in Ids : c.todo = <<Update(i)>> \/ c.todo = <<Mark(i, FALSE)>>
  <2>1. PICK i \in Ids : c.todo = <<Update(i)>> \/ c.todo = <<Mark(i, FALSE)>>
    BY <1>10
  <2>2. /\ w.op \in {"update", "mark"} /\ w.id = i
        /\ w.op = "mark" => w.to = FALSE
        /\ todo = <<>>
    <3>1. CASE c.todo = <<Update(i)>>
      BY <1>2, <3>1 DEF Update, Remains
    <3>2. CASE c.todo = <<Mark(i, FALSE)>>
      BY <1>2, <3>2 DEF Mark, Remains
    <3> QED  BY <2>1, <3>1, <3>2
  <2>3. rows[i] \in Row /\ rows' = [rows EXCEPT ![i] = Changed(rows[i], w)]
    BY <1>1, <1>o, <2>2 DEF RowsBecome
  <2>4. /\ Changed(rows[i], w) \in Row /\ Changed(rows[i], w).belongs = rows[i].belongs
        /\ Changed(rows[i], w).current => rows[i].current
    BY <1>1, <2>2, <2>3, RowsWritten DEF TypeInv
  <2>5. rows[i] # None
    BY <1>n, <2>3
  <2>6. /\ DocumentsKept'
        /\ \A k, l \in Ids : (/\ rows'[k] # None /\ rows'[k].current /\ rows'[l] # None /\ rows'[l].current
                              /\ rows'[k].belongs = rows'[l].belongs) => k = l
    BY <1>9, <2>3, <2>4, <2>5
  <2> QED  BY <1>6, <2>2, <2>6 DEF DocumentsInv, OneCall, DocumentCall, CurrentRow
<1>11. CASE \E i \in Ids : CurrentRow(i) /\ c.todo = <<Mark(i, FALSE), Insert(rows[i].belongs)>>
  <2>1. PICK i \in Ids : CurrentRow(i) /\ c.todo = <<Mark(i, FALSE), Insert(rows[i].belongs)>>
    BY <1>11
  <2> DEFINE b == rows[i].belongs
  <2>2. /\ w = Mark(i, FALSE) /\ w.op = "mark" /\ w.id = i /\ w.to = FALSE /\ todo = <<Insert(b)>>
    BY <1>2, <2>1 DEF Mark, Remains
  <2>3. rows[i] \in Row /\ rows' = [rows EXCEPT ![i] = Changed(rows[i], w)]
    BY <1>1, <1>o, <2>2 DEF RowsBecome
  <2>4. /\ Changed(rows[i], w) \in Row /\ Changed(rows[i], w).belongs = rows[i].belongs
        /\ Changed(rows[i], w).current = FALSE
    BY <1>1, <2>2, <2>3, RowsWritten DEF TypeInv
  <2>5. rows[i] # None
    BY <1>n, <2>3
  <2>6. /\ DocumentsKept'
        /\ \A k \in Ids : rows'[k] = IF k = i THEN Changed(rows[i], w) ELSE rows[k]
        /\ \A k, l \in Ids : (/\ rows'[k] # None /\ rows'[k].current /\ rows'[l] # None /\ rows'[l].current
                              /\ rows'[k].belongs = rows'[l].belongs) => k = l
    BY <1>9, <2>3, <2>4, <2>5
  <2>7. b \in Ids /\ rows[b] # None /\ rows'[b] # None
    BY <1>5, <1>n, <2>4, <2>5, <2>6 DEF DocumentsKept
  <2>8. \A k \in Ids : rows'[k] # None /\ rows'[k].current => rows'[k].belongs # b
    BY <1>5, <2>1, <2>4, <2>6 DEF CurrentRow
  <2> HIDE DEF b
  <2>9. DocumentCall(todo)'
    BY <2>2, <2>7, <2>8 DEF DocumentCall, CurrentRow, NoneCurrent, Insert
  <2> QED  BY <1>6, <2>6, <2>9 DEF DocumentsInv, OneCall, CurrentRow
<1>12. CASE \/ c.todo = <<Insert(Home)>>
            \/ \E b \in Ids : rows[b] # None /\ NoneCurrent(b) /\ c.todo = <<Insert(b)>>
  <2>1. PICK b \in {Home} \cup {k \in Ids : rows[k] # None} :
          (b \in Ids => NoneCurrent(b)) /\ c.todo = <<Insert(b)>>
    BY <1>12, <1>n
  <2>2. w = Insert(b) /\ w.op = "insert" /\ w.to = b /\ todo = <<>>
    BY <1>2, <2>1 DEF Insert, Remains
  <2>3. PICK i \in Ids : rows[i] = None /\ rows' = [rows EXCEPT ![i] = NewRow(b, i)]
    BY <1>1, <2>2 DEF RowsBecome
  <2> QED  BY <1>8, <2>1, <2>2, <2>3
<1> QED  BY <1>1, <1>5, <1>10, <1>11, <1>12 DEF DocumentCall

LEMMA WriteChecklists ==
  ASSUME TypeInv, ChecklistsInv, NEW c \in calls, Write(c)
  PROVE  ChecklistsInv'
<1> DEFINE w == Head(c.todo)
<1> SUFFICES ASSUME screen = "checklists", ~excused PROVE ChecklistsInv'
  BY DEF Write, ChecklistsInv
<1>1. c \in Calls /\ c.todo # <<>> /\ w \in Writes /\ RowsBecome(c, w) /\ c.todo \in Seq(Writes)
  BY WriteIs DEF Calls
<1>2. PICK todo \in Seq(Writes) : /\ Remains(c, w, todo)
                                  /\ calls' = (calls \ {c}) \cup {[c EXCEPT !.todo = todo, !.landed = TRUE]}
  BY WriteIs
<1>3. UNCHANGED <<screen, excused>> /\ rows \in RowSets
  BY DEF Write, TypeInv, StoreType
<1>4. calls = {c} /\ ChecklistCall(c)
  BY DEF ChecklistsInv, OneCall
<1> DEFINE x == [c EXCEPT !.todo = todo, !.landed = TRUE]
<1>5. calls' = {x} /\ x.todo = todo /\ x.landed /\ x.ws = c.ws
  BY <1>1, <1>2, <1>4, CallIs
<1> HIDE DEF x
<1>n. None \notin Row /\ c.ws \in Workspaces /\ (\A v : OfTheRow(c, v))
  BY <1>1, NoneIsNoRow DEF Calls, OfTheRow
<1>6. ChecklistCall(x)' => ChecklistsInv'
  BY <1>5 DEF ChecklistsInv, OneCall
<1>7. ASSUME \A k \in Ids : (rows'[k] # None /\ rows'[k].belongs = Home /\ rows'[k].current)
                              <=> (rows[k] # None /\ rows[k].belongs = Home /\ rows[k].current),
             HomeUnique
      PROVE  HomeUnique'
  BY <1>7 DEF HomeUnique, Defaults
<1>8. CASE HomeUnique /\ c.todo = <<Insert(c.ws)>>
  <2>1. w.op = "insert" /\ w.to = c.ws /\ todo = <<>>
    BY <1>2, <1>8 DEF Insert, Remains
  <2>2. PICK i \in Ids : rows[i] = None /\ rows' = [rows EXCEPT ![i] = NewRow(c.ws, i)]
    BY <1>1, <2>1 DEF RowsBecome
  <2>3. NewRow(c.ws, i).current = FALSE
    BY DEF NewRow
  <2>4. \A k \in Ids : rows'[k] = IF k = i THEN NewRow(c.ws, i) ELSE rows[k]
    BY <1>3, <2>2 DEF RowSets
  <2>5. HomeUnique'
    BY <1>7, <1>8, <2>2, <2>3, <2>4
  <2> QED  BY <1>5, <1>6, <2>1, <2>5 DEF ChecklistCall
<1>9. CASE HomeUnique /\ \E i \in Ids : c.todo = <<Update(i)>>
  <2>1. PICK i \in Ids : c.todo = <<Update(i)>>
    BY <1>9
  <2>2. w.op = "update" /\ w.id = i /\ todo = <<>>
    BY <1>2, <2>1 DEF Update, Remains
  <2>3. rows[i] \in Row /\ rows' = [rows EXCEPT ![i] = Changed(rows[i], w)]
    BY <1>1, <1>n, <2>2 DEF RowsBecome
  <2>4. /\ Changed(rows[i], w) \in Row /\ Changed(rows[i], w).belongs = rows[i].belongs
        /\ Changed(rows[i], w).current = rows[i].current
    BY <1>1, <2>2, <2>3, RowsWritten DEF TypeInv
  <2>5. \A k \in Ids : rows'[k] = IF k = i THEN Changed(rows[i], w) ELSE rows[k]
    BY <1>3, <2>3 DEF RowSets
  <2>6. HomeUnique'
    BY <1>7, <1>9, <1>n, <2>3, <2>4, <2>5
  <2> QED  BY <1>5, <1>6, <2>2, <2>6 DEF ChecklistCall
<1>10. CASE /\ HomeUnique
            /\ \E i \in Ids : rows[i] # None /\ rows[i].belongs = c.ws /\ c.todo = <<SetDefault(i)>>
  <2>1. PICK i \in Ids : rows[i] # None /\ rows[i].belongs = c.ws /\ c.todo = <<SetDefault(i)>>
    BY <1>10
  <2>2. w.op = "setDefault" /\ w.id = i /\ todo \in AnyOrder(DefaultMarks(i, c.ws))
    BY <1>2, <2>1 DEF SetDefault, Remains
  <2>3. rows' = rows
    BY <1>1, <2>2 DEF RowsBecome
  <2>4. IsFiniteSet(DefaultMarks(i, c.ws))
    BY MarksAreFinite
  <2>5. /\ \A k \in DOMAIN todo : todo[k] \in DefaultMarks(i, c.ws)
        /\ \A m \in DefaultMarks(i, c.ws) : \E k \in DOMAIN todo : todo[k] = m
        /\ \A k, l \in DOMAIN todo : todo[k] = todo[l] => k = l
    BY <2>2, <2>4, AnyOrderIs
  <2>6. ChecklistCall(x)
    BY <1>5, <1>10, <2>1, <2>5 DEF ChecklistCall
  <2>7. ChecklistCall(x)'
    <3>1. x' = x
      BY DEF x
    <3> QED  BY <1>3, <2>3, <2>6, StoreKept
  <2> QED  BY <1>6, <2>7
<1>11. CASE \E i \in Ids :
              /\ c.landed /\ rows[i] # None /\ rows[i].belongs = c.ws
              /\ \A k \in DOMAIN c.todo : c.todo[k] \in DefaultMarks(i, c.ws)
              /\ \A m \in DefaultMarks(i, c.ws) : \E k \in DOMAIN c.todo : c.todo[k] = m
              /\ \A k, l \in DOMAIN c.todo : c.todo[k] = c.todo[l] => k = l
              /\ c.ws # Home => HomeUnique
  <2>1. PICK i \in Ids :
              /\ rows[i] # None /\ rows[i].belongs = c.ws
              /\ \A k \in DOMAIN c.todo : c.todo[k] \in DefaultMarks(i, c.ws)
              /\ \A m \in DefaultMarks(i, c.ws) : \E k \in DOMAIN c.todo : c.todo[k] = m
              /\ \A k, l \in DOMAIN c.todo : c.todo[k] = c.todo[l] => k = l
              /\ c.ws # Home => HomeUnique
    BY <1>11
  <2>2. w \in DefaultMarks(i, c.ws)
    <3>1. 1 \in DOMAIN c.todo /\ w = c.todo[1]
      BY <1>1, LenProperties, EmptySeq
    <3> QED  BY <2>1, <3>1
  <2>3. PICK j \in Ids : /\ w = Mark(j, j = i) /\ rows[j] # None /\ rows[j].belongs = c.ws
                         /\ rows[j].current # (j = i)
    BY <2>2 DEF DefaultMarks
  <2>4. w.op = "mark" /\ w.id = j /\ w.to = (j = i) /\ todo = Tail(c.todo)
    BY <1>2, <2>3 DEF Mark, Remains
  <2>5. PICK r : rows[j] \in Row /\ r = Changed(rows[j], w) /\ rows' = [rows EXCEPT ![j] = r]
    BY <1>1, <1>n, <2>4 DEF RowsBecome
  <2>6. r \in Row /\ r.belongs = c.ws /\ r.current = (j = i)
    BY <1>1, <2>3, <2>4, <2>5, RowsWritten DEF TypeInv
  <2>7. /\ DefaultMarks(i, c.ws)' = DefaultMarks(i, c.ws) \ {w}
        /\ \A k \in Ids : rows'[k] = IF k = j THEN r ELSE rows[k]
    <3>1. \A k \in Ids : rows'[k] = IF k = j THEN r ELSE rows[k]
      BY <1>3, <2>5 DEF RowSets
    <3>2. \A k \in Ids : Mark(k, k = i) = Mark(j, j = i) => k = j
      BY DEF Mark
    <3> DEFINE called == {k \in Ids : rows[k] # None /\ rows[k].belongs = c.ws /\ rows[k].current # (k = i)}
               then == {k \in Ids : rows'[k] # None /\ rows'[k].belongs = c.ws /\ rows'[k].current # (k = i)}
    <3>3. then = called \ {j}
      BY <1>n, <2>3, <2>6, <3>1
    <3>4. j \in called /\ called \subseteq Ids
      BY <2>3
    <3>5. /\ DefaultMarks(i, c.ws) = {Mark(k, k = i) : k \in called}
          /\ DefaultMarks(i, c.ws)' = {Mark(k, k = i) : k \in then}
      BY DEF DefaultMarks, Mark
    <3> HIDE DEF called, then
    <3>6. {Mark(k, k = i) : k \in then} = {Mark(k, k = i) : k \in called} \ {Mark(j, j = i)}
      BY <3>2, <3>3, <3>4
    <3> QED  BY <2>3, <3>1, <3>5, <3>6
  <2>8. /\ \A k \in DOMAIN todo : \E l \in DOMAIN c.todo : todo[k] = c.todo[l] /\ c.todo[l] # w
        /\ \A l \in DOMAIN c.todo : c.todo[l] # w => \E k \in DOMAIN todo : todo[k] = c.todo[l]
        /\ \A k, l \in DOMAIN todo : todo[k] = todo[l] => k = l
    <3>1. PICK q : q = c.todo /\ q \in Seq(Writes) /\ q # <<>>
      BY <1>1
    <3>2. \A k, l \in DOMAIN q : q[k] = q[l] => k = l
      BY <2>1, <3>1
    <3>3. /\ Len(q) \in Nat \ {0} /\ DOMAIN q = 1 .. Len(q) /\ Head(q) = q[1]
          /\ DOMAIN Tail(q) = 1 .. Len(q) - 1
          /\ \A k \in 1 .. Len(q) - 1 : Tail(q)[k] = q[k + 1]
      BY <3>1, HeadTailProperties, LenProperties, EmptySeq
    <3>4. \A k \in DOMAIN Tail(q) : k + 1 \in DOMAIN q /\ k + 1 # 1
      BY <3>3
    <3>5. \A l \in DOMAIN q : l # 1 => l - 1 \in DOMAIN Tail(q) /\ Tail(q)[l - 1] = q[l]
      BY <3>3
    <3>6. \A k \in DOMAIN Tail(q) : \E l \in DOMAIN q : Tail(q)[k] = q[l] /\ q[l] # Head(q)
      BY <3>2, <3>3, <3>4
    <3>7. \A l \in DOMAIN q : q[l] # Head(q) => \E k \in DOMAIN Tail(q) : Tail(q)[k] = q[l]
      BY <3>3, <3>5
    <3>8. \A k, l \in DOMAIN Tail(q) : Tail(q)[k] = Tail(q)[l] => k = l
      BY <3>2, <3>3, <3>4
    <3> QED  BY <2>4, <3>1, <3>6, <3>7, <3>8
  <2>9. /\ \A k \in DOMAIN todo : todo[k] \in DefaultMarks(i, c.ws) \ {w}
        /\ \A m \in DefaultMarks(i, c.ws) \ {w} : \E k \in DOMAIN todo : todo[k] = m
    BY <2>1, <2>8
  <2>10. rows'[i] # None /\ rows'[i].belongs = c.ws
    BY <1>n, <2>1, <2>6, <2>7
  <2>11. c.ws # Home => HomeUnique'
    BY <1>7, <1>n, <2>1, <2>3, <2>6, <2>7
  <2> QED
    BY <1>5, <1>6, <2>7, <2>8, <2>9, <2>10, <2>11 DEF ChecklistCall
<1> QED  BY <1>1, <1>4, <1>8, <1>9, <1>10, <1>11 DEF ChecklistCall

LEMMA WriteInv ==
  ASSUME Inv, NEW c \in calls, Write(c)
  PROVE  Inv'
<1>1. TypeInv' /\ LoadInv' /\ DocumentsInv' /\ ChecklistsInv'
  BY WriteTypes, WriteLoads, WriteDocuments, WriteChecklists DEF Inv
<1>2. FormInv'
  BY SameComponent DEF Inv, FormInv, Write, local
<1> QED  BY <1>1, <1>2 DEF Inv

-------------------------------------------------------------------------------
(***************************************************************************)
(* Answers, and what happens around the component                          *)
(***************************************************************************)

\* A load begun is the only one that will be shown; the others stay what they have read.
LEMMA LoadingIs ==
  ASSUME LoadType, NEW w \in Workspaces
  PROVE  /\ Loading(w) \subseteq Loads
         /\ \A k \in Loading(w) : k.current => k = [current |-> TRUE, ws |-> w, read |-> None]
         /\ \E k \in Loading(w) : k.current
         /\ \A k \in Loading(w) : k.read # None => \E l \in loads : l.read = k.read
<1> DEFINE x == [current |-> TRUE, ws |-> w, read |-> None]
<1>1. x \in Loads /\ x.current /\ x.read = None
  BY DEF Loads
<1>2. \A l \in loads : /\ [l EXCEPT !.current = FALSE] \in Loads
                       /\ [l EXCEPT !.current = FALSE].current = FALSE
                       /\ [l EXCEPT !.current = FALSE].read = l.read
  BY DEF LoadType, Loads
<1>3. \A k \in Loading(w) : k = x \/ \E l \in loads : k = [l EXCEPT !.current = FALSE]
  BY DEF Loading
<1>4. x \in Loading(w)
  BY DEF Loading
<1> HIDE DEF x
<1>5. Loading(w) \subseteq Loads
  BY <1>1, <1>2, <1>3
<1>6. \A k \in Loading(w) : k.current => k = x
  BY <1>2, <1>3
<1>7. \A k \in Loading(w) : k.read # None => \E l \in loads : l.read = k.read
  BY <1>1, <1>2, <1>3
<1> QED  BY <1>1, <1>4, <1>5, <1>6, <1>7 DEF x

\* What is true once a load has begun for the workspace of now.
LEMMA Reloads ==
  ASSUME TypeInv, NEW w \in Workspaces, loads' = Loading(w), ws' = w
  PROVE  /\ loads' \subseteq Loads /\ LoadInv'
         /\ \A k \in loads' : k.read # None => \E l \in loads : l.read = k.read
<1>1. /\ loads' \subseteq Loads
      /\ \A k \in loads' : k.current => k = [current |-> TRUE, ws |-> w, read |-> None]
      /\ \E k \in loads' : k.current
      /\ \A k \in loads' : k.read # None => \E l \in loads : l.read = k.read
  BY LoadingIs DEF TypeInv
<1>2. OneLoad'
  <2>1. \A k \in loads' : k.current => k.ws = ws'
    BY <1>1
  <2> QED  BY <1>1, <2>1 DEF OneLoad
<1>3. Loaded'
  BY <1>1 DEF Loaded
<1> QED  BY <1>1, <1>2, <1>3 DEF LoadInv

\* The default is one when nothing is left to mark.
LEMMA AllMarked ==
  ASSUME TypeInv, NEW c \in calls, c \in Calls, ChecklistCall(c), c.todo = <<>>
  PROVE  HomeUnique
<1> SUFFICES ASSUME ~HomeUnique PROVE FALSE
  OBVIOUS
<1>1. PICK i \in Ids :
        /\ rows[i] # None /\ rows[i].belongs = c.ws
        /\ \A m \in DefaultMarks(i, c.ws) : \E k \in DOMAIN c.todo : c.todo[k] = m
        /\ c.ws # Home => HomeUnique
  BY DEF ChecklistCall
<1>2. DOMAIN c.todo = {}
  BY EmptySeq
<1>3. \A j \in Ids : ~(rows[j] # None /\ rows[j].belongs = Home /\ rows[j].current # (j = i))
  <2>1. DefaultMarks(i, Home) = {} /\ c.ws = Home
    BY <1>1, <1>2
  <2> QED  BY <2>1 DEF DefaultMarks
<1>4. \A j \in Ids : rows[j] # None => rows[j].current \in BOOLEAN
  BY DEF TypeInv, StoreType, RowSets, Row
<1>5. Defaults(Home) = {i}
  BY <1>1, <1>3, <1>4 DEF Defaults
<1> QED  BY <1>5 DEF HomeUnique

\* The call that is over, when it was alone, leaves one default.
LEMMA CallOver ==
  ASSUME Inv, NEW c \in calls, calls' = calls \ {c}, UNCHANGED <<screen, rows>>,
         excused \/ excused' = excused \/ screen \notin WithCurrent,
         ~excused => (screen = "checklists" => excused' \/ HomeUnique),
         excused => excused',
         screen = "documents" /\ ~excused' => DocumentsKept'
  PROVE  DocumentsInv' /\ ChecklistsInv'
<1>1. DocumentsInv'
  BY StoreKept DEF Inv, DocumentsInv, OneCall
<1>2. ChecklistsInv'
  <2> SUFFICES ASSUME screen = "checklists", ~excused' PROVE ChecklistsInv'
    BY DEF ChecklistsInv
  <2>1. calls = {c} /\ HomeUnique
    BY DEF Inv, ChecklistsInv, OneCall
  <2>2. calls' = {}
    BY <2>1
  <2> QED  BY <2>1, <2>2, StoreKept DEF ChecklistsInv, OneCall
<1> QED  BY <1>1, <1>2

LEMMA AnsweredInv ==
  ASSUME Inv, NEW c \in calls, Answered(c)
  PROVE  Inv'
<1>1. /\ c.todo = <<>> /\ calls' = calls \ {c}
      /\ UNCHANGED <<screen, store, ws, data, asks, selected, detail, started, excused>>
  BY DEF Answered
<1>2. /\ TypeInv /\ c \in Calls /\ c.back \in {"list", "detail"} /\ ws \in Workspaces
      /\ c.mine \in BOOLEAN
  BY DEF Inv, TypeInv, CallType, StoreType, Calls
<1>3. /\ loads' \subseteq Loads /\ unseen' \in BOOLEAN /\ LoadInv'
      /\ \A k \in loads' : k.read # None => \E l \in loads : l.read = k.read
  <2>1. CASE c.mine
    <3>1. loads' = Loading(ws) /\ ws' = ws /\ unseen' = FALSE
      BY <1>1, <2>1 DEF Answered, Reload
    <3>2. PICK w \in Workspaces : w = ws
      BY <1>2
    <3> QED  BY <1>2, <3>1, <3>2, Reloads
  <2>2. CASE ~c.mine
    <3>1. UNCHANGED <<loads, unseen>>
      BY <2>2 DEF Answered
    <3>2. Owed' <=> Owed
      BY <1>1, <2>2 DEF Owed
    <3>3. Visible(ws)' = Visible(ws)
      BY <1>1, <1>2, StoreKept DEF store
    <3>4. LoadInv'
      BY <1>1, <3>1, <3>2, <3>3 DEF Inv, LoadInv, OneLoad, Loaded
    <3> QED  BY <1>2, <3>1, <3>4 DEF TypeInv, LoadType, CallType
  <2> QED  BY <1>2, <2>1, <2>2
<1>4. /\ mode' \in {"list", "detail", "form"} /\ saving' \in BOOLEAN /\ editing' \in Ids \cup {None}
      /\ form' \in FormValues
      /\ FormInv'
      /\ form'.renews => form' = form /\ editing' = editing
  <2>1. CASE c.mine /\ c.kind = "save"
    <3>1. editing' = None /\ form' = EmptyForm(Shown) /\ saving' = FALSE /\ mode' = c.back
      BY <2>1 DEF Answered
    <3>2. Shown \in View
      BY <1>2, ShownIs DEF TypeInv
    <3>3. form' \in FormValues /\ form'.of = None /\ ~form'.renews
      BY <3>1, <3>2, EmptyFormIs
    <3> QED  BY <1>1, <1>2, <3>1, <3>3, SameComponent DEF Inv, FormInv
  <2>2. CASE ~(c.mine /\ c.kind = "save")
    <3>1. UNCHANGED <<editing, form, saving>> /\ mode' \in {mode, c.back}
      BY <2>2 DEF Answered
    <3> QED  BY <1>1, <1>2, <3>1, SameComponent DEF Inv, FormInv, TypeInv, FormType
  <2> QED  BY <2>1, <2>2
<1>5. TypeInv'
  BY <1>1, <1>2, <1>3, <1>4 DEF TypeInv, StoreType, LoadType, FormType, CallType, store
<1>6. screen = "documents" /\ ~excused => DocumentsKept'
  BY <1>1, <1>3, <1>4 DEF Inv, DocumentsInv, DocumentsKept, SameThing, store
<1>7. screen = "checklists" /\ ~excused => HomeUnique
  BY <1>1, <1>2, AllMarked DEF Inv, ChecklistsInv
<1>8. DocumentsInv' /\ ChecklistsInv'
  BY <1>1, <1>6, <1>7, CallOver DEF store
<1> QED  BY <1>3, <1>4, <1>5, <1>8 DEF Inv

LEMMA FailedInv ==
  ASSUME Inv, NEW c \in calls, Failed(c)
  PROVE  Inv'
<1>1. /\ calls' = calls \ {c} /\ unseen' = (unseen \/ c.landed)
      /\ saving' = IF c.mine /\ c.kind = "save" THEN FALSE ELSE saving
      /\ excused' = (excused \/ (screen \in WithCurrent /\ c.landed))
      /\ UNCHANGED <<screen, store, ws, data, loads, mode, editing, form, asks, selected, detail, started>>
  BY DEF Failed, Excuse
<1>2. TypeInv /\ c \in Calls /\ c.landed \in BOOLEAN
  BY DEF Inv, TypeInv, CallType, Calls
<1>3. TypeInv'
  BY <1>1, <1>2 DEF TypeInv, StoreType, LoadType, FormType, CallType, store
<1>4. FormInv'
  BY <1>1, SameComponent DEF Inv, FormInv
<1>5. LoadInv'
  <2>1. ~c.landed => (Owed' <=> Owed)
    BY <1>1 DEF Owed
  <2>2. Visible(ws)' = Visible(ws)
    BY <1>1, <1>2, StoreKept DEF TypeInv, StoreType, store
  <2>3. OneLoad' /\ (Loaded' <=> Loaded)
    BY <1>1, <2>2 DEF Inv, LoadInv, OneLoad, Loaded
  <2> QED  BY <1>1, <1>2, <2>1, <2>3 DEF Inv, LoadInv
<1>6. screen = "documents" /\ ~excused => DocumentsKept'
  BY <1>1 DEF Inv, DocumentsInv, DocumentsKept, SameThing, store
<1>7. screen = "checklists" /\ ~excused' => HomeUnique
  BY <1>1 DEF Inv, ChecklistsInv, ChecklistCall, WithCurrent
<1>8. DocumentsInv' /\ ChecklistsInv'
  <2>1. CASE excused' = excused
    BY <1>1, <1>6, <1>7, <2>1, CallOver DEF store
  <2>2. CASE excused'
    BY <2>2 DEF DocumentsInv, ChecklistsInv
  <2> QED  BY <1>1, <1>2, <1>3, <2>1, <2>2 DEF TypeInv, CallType
<1> QED  BY <1>3, <1>4, <1>5, <1>8 DEF Inv

LEMMA SwitchWorkspaceInv ==
  ASSUME Inv, NEW w \in Workspaces, SwitchWorkspace(w)
  PROVE  Inv'
<1>1. /\ ws' = w /\ loads' = Loading(w) /\ unseen' = FALSE
      /\ UNCHANGED <<screen, store, data, local, calls, started, excused>>
  BY DEF SwitchWorkspace
<1>2. /\ loads' \subseteq Loads /\ LoadInv' /\ TypeInv
      /\ \A k \in loads' : k.read # None => \E l \in loads : l.read = k.read
  BY <1>1, Reloads DEF Inv
<1>3. TypeInv'
  BY <1>1, <1>2 DEF TypeInv, StoreType, LoadType, FormType, CallType, store, local
<1>4. FormInv'
  BY <1>1, SameComponent DEF Inv, FormInv, local
<1>5. screen = "documents" /\ ~excused => DocumentsKept'
  BY <1>1, <1>2 DEF Inv, DocumentsInv, DocumentsKept, SameThing, store, local
<1> QED  BY <1>1, <1>2, <1>3, <1>4, <1>5, CallsKept DEF Inv, store

LEMMA RemountInv ==
  ASSUME Inv, Remount
  PROVE  Inv'
<1>1. /\ mode' = (IF IsShifts THEN mode ELSE "list")
      /\ editing' = None /\ saving' = FALSE /\ selected' = None /\ detail' = None /\ data' = None
      /\ form' = EmptyForm(Nothing(ws))
      /\ asks' = {[a EXCEPT !.mine = FALSE] : a \in {b \in asks : IsShifts}}
      /\ calls' = {[c EXCEPT !.mine = FALSE] : c \in calls}
      /\ loads' = {[current |-> TRUE, ws |-> ws, read |-> None]}
      /\ unseen' = FALSE
      /\ UNCHANGED <<screen, store, ws, started, excused>>
  BY DEF Remount
<1>2. TypeInv /\ ws \in Workspaces
  BY DEF Inv, TypeInv, StoreType
<1>3. form' \in FormValues /\ form'.of = None /\ ~form'.renews
  BY <1>1, <1>2, NothingIs, EmptyFormIs
<1>4. \A a \in asks' : \E b \in asks : IsShifts /\ a \in Asks /\ a.of = b.of /\ a.form = b.form
  <2>1. \A b \in asks : [b EXCEPT !.mine = FALSE] \in Asks /\ [b EXCEPT !.mine = FALSE].of = b.of
                        /\ [b EXCEPT !.mine = FALSE].form = b.form
    BY <1>2 DEF TypeInv, FormType, Asks
  <2> QED  BY <1>1, <2>1
<1>5. \A c \in calls : /\ [c EXCEPT !.mine = FALSE] \in Calls
                       /\ [c EXCEPT !.mine = FALSE].todo = c.todo /\ [c EXCEPT !.mine = FALSE].ws = c.ws
                       /\ [c EXCEPT !.mine = FALSE].landed = c.landed
  BY <1>2 DEF TypeInv, CallType, Calls
<1>6. loads' \subseteq Loads /\ LoadInv'
  <2> DEFINE x == [current |-> TRUE, ws |-> ws, read |-> None]
  <2>1. x \in Loads /\ x.current /\ x.ws = ws /\ x.read = None
    BY <1>2 DEF Loads
  <2>2. loads' = {x} /\ ws' = ws
    BY <1>1
  <2> HIDE DEF x
  <2> QED  BY <2>1, <2>2 DEF LoadInv, OneLoad, Loaded
<1>7. TypeInv'
  <2>1. asks' \subseteq Asks /\ calls' \subseteq Calls
    BY <1>1, <1>4, <1>5
  <2> QED
    BY <1>1, <1>2, <1>3, <1>6, <2>1 DEF TypeInv, StoreType, LoadType, FormType, CallType, store
<1>8. FormInv'
  BY <1>1, <1>3, <1>4, SameComponent DEF Inv, FormInv
<1>9. DocumentsInv'
  <2> SUFFICES ASSUME screen = "documents", ~excused PROVE DocumentsInv'
    BY <1>1 DEF DocumentsInv
  <2>1. DocumentsKept'
    <3>1. \A l \in loads' : l.read = None
      BY <1>1
    <3> QED  BY <1>1, <1>3, <3>1 DEF Inv, DocumentsInv, DocumentsKept, store
  <2>2. OneCall' /\ \A c \in calls' : \E d \in calls : c.todo = d.todo
    BY <1>1, <1>5 DEF Inv, DocumentsInv, OneCall
  <2> QED  BY <1>1, <2>1, <2>2, StoreKept DEF Inv, DocumentsInv, store
<1>10. ChecklistsInv'
  <2> SUFFICES ASSUME screen = "checklists", ~excused PROVE ChecklistsInv'
    BY <1>1 DEF ChecklistsInv
  <2>1. OneCall' /\ (calls' = {} => calls = {})
    BY <1>1, <1>5 DEF Inv, ChecklistsInv, OneCall
  <2>2. \A c \in calls : ChecklistCall([c EXCEPT !.mine = FALSE])
    <3> SUFFICES ASSUME NEW c \in calls PROVE ChecklistCall([c EXCEPT !.mine = FALSE])
      OBVIOUS
    <3> DEFINE d == [c EXCEPT !.mine = FALSE]
    <3>1. d.todo = c.todo /\ d.ws = c.ws /\ d.landed = c.landed
      BY <1>5
    <3> HIDE DEF d
    <3>2. ChecklistCall(d)
      BY <3>1 DEF Inv, ChecklistsInv, ChecklistCall
    <3> QED  BY <3>2 DEF d
  <2> QED  BY <1>1, <2>1, <2>2, StoreKept DEF Inv, ChecklistsInv, store
<1> QED  BY <1>6, <1>7, <1>8, <1>9, <1>10 DEF Inv

LEMMA EndAssignmentInv ==
  ASSUME Inv, NEW a \in Assignments, EndAssignment(a)
  PROVE  Inv'
<1>1. /\ active' \subseteq active
      /\ UNCHANGED <<screen, rows, last, ws, data, loads, local, calls, started, unseen, excused>>
  BY DEF EndAssignment
<1>2. TypeInv /\ TypeInv'
  BY <1>1 DEF Inv, TypeInv, StoreType, LoadType, FormType, CallType, local
<1>3. FormInv'
  BY <1>1, SameComponent DEF Inv, FormInv, local
<1>4. LoadInv'
  <2>1. Visible(ws)' = Visible(ws)
    BY <1>1, <1>2, StoreKept DEF TypeInv, StoreType
  <2> QED  BY <1>1, <2>1 DEF Inv, LoadInv, OneLoad, Owed, Loaded
<1>5. screen = "documents" /\ ~excused => DocumentsKept'
  BY <1>1 DEF Inv, DocumentsInv, DocumentsKept, SameThing, local
<1> QED  BY <1>1, <1>2, <1>3, <1>4, <1>5, CallsKept DEF Inv

-------------------------------------------------------------------------------
(***************************************************************************)
(* The invariant, and what follows                                         *)
(***************************************************************************)

LEMMA InitInv ==
  ASSUME Init
  PROVE  Inv
<1>1. /\ screen \in Screens /\ active = Assignments /\ last = None /\ ws = Home
      /\ data = None /\ loads = {[current |-> TRUE, ws |-> Home, read |-> None]}
      /\ mode = "list" /\ editing = None /\ saving = FALSE /\ asks = {}
      /\ selected = None /\ detail = None /\ form = EmptyForm(Nothing(Home))
      /\ calls = {} /\ started = 0 /\ unseen = FALSE /\ excused = FALSE
  BY DEF Init
<1>2. PICK first \in Listed, a \in Assignments :
        rows = [i \in Ids |->
                  IF i \notin Listed THEN None
                  ELSE [rev |-> 0,
                        belongs |-> CASE screen = "documents" -> i [] IsShifts -> a [] OTHER -> Home,
                        current |-> screen = "documents" \/ (screen = "checklists" /\ i = first)]]
  BY DEF Init
<1>3. Home \in Workspaces /\ Listed \subseteq Ids /\ MaxCalls[screen] \in Nat /\ None \notin Row
  BY <1>1, ScreenBounds, NoneIsNoRow
<1>4. \A i \in Ids :
        \/ rows[i] = None /\ i \notin Listed
        \/ /\ rows[i] \in Row /\ i \in Listed
           /\ screen = "documents" => rows[i].belongs = i
           /\ screen = "checklists" => rows[i].belongs = Home /\ (rows[i].current <=> i = first)
  BY <1>2, <1>3 DEF Row, IsShifts
<1>5. form \in FormValues /\ form.of = None /\ ~form.renews
  BY <1>1, <1>3, NothingIs, EmptyFormIs
<1>6. rows \in RowSets
  <2>1. rows = [i \in Ids |-> rows[i]]
    BY <1>2
  <2> QED  BY <1>4, <2>1 DEF RowSets
<1>7. TypeInv
  <2>1. [current |-> TRUE, ws |-> Home, read |-> None] \in Loads
    BY <1>3 DEF Loads
  <2>2. StoreType
    BY <1>1, <1>3, <1>6 DEF StoreType
  <2>3. LoadType
    BY <1>1, <2>1 DEF LoadType
  <2>4. FormType
    BY <1>1, <1>5 DEF FormType
  <2>5. CallType
    <3>1. started \in 0 .. MaxCalls[screen]
      BY <1>1, <1>3
    <3> QED  BY <1>1, <3>1 DEF CallType
  <2> QED  BY <2>2, <2>3, <2>4, <2>5 DEF TypeInv
<1>8. FormInv
  BY <1>1, <1>5 DEF FormInv
<1>9. LoadInv
  BY <1>1 DEF LoadInv, OneLoad, Loaded
<1>10. DocumentsInv
  BY <1>1, <1>3, <1>4, <1>5 DEF DocumentsInv, DocumentsKept, OneCall, CurrentRow
<1>11. ChecklistsInv
  <2>1. screen = "checklists" => Defaults(Home) = {first}
    BY <1>2, <1>3, <1>4 DEF Defaults
  <2> QED  BY <1>1, <1>2, <1>3, <2>1 DEF ChecklistsInv, OneCall, HomeUnique
<1> QED  BY <1>7, <1>8, <1>9, <1>10, <1>11 DEF Inv

LEMMA StepInv ==
  ASSUME Inv, [Next]_vars
  PROVE  Inv'
<1>1. CASE FormStep
  BY <1>1, FormStepInv
<1>2. CASE \E l \in loads : ReadLoad(l) \/ AnswerLoad(l) \/ FailLoad(l)
  BY <1>2, ReadLoadInv, AnswerLoadInv
<1>3. CASE \E i \in Ids : RowAction(i)
  BY <1>3, RowActionInv
<1>4. CASE \E c \in calls : Write(c) \/ Answered(c) \/ Failed(c)
  BY <1>4, WriteInv, AnsweredInv, FailedInv
<1>5. CASE \E a \in Assignments : EndAssignment(a)
  BY <1>5, EndAssignmentInv
<1>6. CASE \E w \in Workspaces : SwitchWorkspace(w)
  BY <1>6, SwitchWorkspaceInv
<1>7. CASE Save
  BY <1>7, SaveInv
<1>8. CASE Remount
  BY <1>8, RemountInv
<1>9. CASE UNCHANGED vars
  <2>1. UNCHANGED <<screen, rows, active, last, ws, data, loads, mode, editing, form, saving, asks,
                    selected, detail, calls, started, unseen, excused>>
    BY <1>9 DEF vars, store, local
  <2>2. TypeInv'
    BY <2>1 DEF Inv, TypeInv, StoreType, LoadType, FormType, CallType
  <2>3. FormInv'
    BY <2>1, SameComponent DEF Inv, FormInv
  <2>4. LoadInv'
    <3>1. Visible(ws)' = Visible(ws)
      BY <2>1, StoreKept DEF Inv, TypeInv, StoreType
    <3> QED  BY <2>1, <3>1 DEF Inv, LoadInv, OneLoad, Owed, Loaded
  <2>5. screen = "documents" /\ ~excused => DocumentsKept'
    BY <2>1 DEF Inv, DocumentsInv, DocumentsKept, SameThing
  <2> QED  BY <2>1, <2>2, <2>3, <2>4, <2>5, CallsKept DEF Inv
<1> QED
  BY <1>1, <1>2, <1>3, <1>4, <1>5, <1>6, <1>7, <1>8, <1>9 DEF Next, FormStep

\* The invariants of forms, loads and calls hold in every state of every component,
\* whatever fails and in whatever order requests are answered.
THEOREM Inductive == Spec => []Inv
<1>1. Init => Inv
  BY InitInv
<1>2. Inv /\ [Next]_vars => Inv'
  BY StepInv
<1> QED  BY <1>1, <1>2, PTL DEF Spec

\* TypeOK, in every state.
THEOREM TypeCorrect == Spec => []TypeOK
<1>1. Inv => TypeOK
  BY DEF Inv, TypeInv, StoreType, LoadType, FormType, CallType, TypeOK, Loads, Calls
<1> QED  BY <1>1, Inductive, PTL

\* No form writes one row's values over another's, and a new shift is offered with the
\* default assignment of what was loaded last: startEdit, editShift, the effects and
\* the answers of saves and loads in any order.
THEOREM FormsMatchTheirTarget == Spec => []FormMatchesTarget
<1>1. Inv => FormMatchesTarget
  BY DEF Inv, FormInv, FormMatchesTarget
<1> QED  BY <1>1, Inductive, PTL

\* useAsyncData with its cancelled loads: a list at rest is what is stored.
THEOREM ListsShowWhatIsStored == Spec => []ShowsStored
<1>1. Inv => ShowsStored
  BY DEF Inv, LoadInv, Loaded, Owed, ShowsStored
<1> QED  BY <1>1, Inductive, PTL

\* One default checklist, and one current row of a document, under the calls that the
\* property does not excuse: however many rows there are, and in whatever order the
\* updates of setDefaultChecklistTemplate land.
THEOREM OneRowIsCurrent == Spec => []CurrentIsUnique
<1>1. ASSUME Inv PROVE CurrentIsUnique
  <2>1. ~excused /\ screen = "checklists" /\ calls = {} => Cardinality(Defaults(Home)) = 1
    <3>1. HomeUnique => Cardinality(Defaults(Home)) = 1
      BY FS_Singleton DEF HomeUnique
    <3> QED  BY <1>1, <3>1 DEF Inv, ChecklistsInv
  <2>2. ~excused /\ screen = "documents" =>
          \A i, j \in Ids : CurrentRow(i) /\ CurrentRow(j) /\ rows[i].belongs = rows[j].belongs => i = j
    BY <1>1 DEF Inv, DocumentsInv
  <2> QED  BY <2>1, <2>2 DEF CurrentIsUnique, Defaults, CurrentRow
<1> QED  BY <1>1, Inductive, PTL

================================================================================
