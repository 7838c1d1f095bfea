-------------------------- MODULE VehicleChecksProofs --------------------------
(***************************************************************************)
(* Theorems about VehicleChecks, for any vehicles, items, bounds, number   *)
(* of managers and order of the inserts.                                   *)
(***************************************************************************)
EXTENDS VehicleChecks, TLAPS

-------------------------------------------------------------------------------

\* A defect and a check that is referred to exists.
RefsResolve ==
  /\ form.saving <= Len(checks)
  /\ \A r \in raising : r.check \in DOMAIN checks
  /\ \A d \in DOMAIN defects : defects[d].check \in DOMAIN checks

TypeInv == TypeOK /\ RefsResolve

\* A form without a template shows no items; the items of one with a template are
\* stamped with vehicles of its workspace, and when two are paired with exactly those.
Coherent(f) ==
  /\ ActiveTemplate(f) = <<>> => f.items = NoItems
  /\ ActiveTemplate(f) # <<>> =>
       \A v \in DOMAIN f.items : WorkspaceOf(v) = WorkspaceOf(f.vehicle)
  /\ f.paired # NoVehicle =>
       /\ f.vehicle \in Vehicles
       /\ f.paired \in Pairable(f.vehicle)
       /\ ActiveTemplate(f) # <<>> => DOMAIN f.items = {f.vehicle, f.paired}

FormInv == Coherent(form)

\* Of the submission the form waits for, every failed item is raised or on its way.
SavingInv ==
  form.saving # NoCheck =>
    \A i \in checks[form.saving].failed :
      \/ [check |-> form.saving, item |-> i] \in raising
      \/ \E d \in DOMAIN defects : defects[d].check = form.saving /\ defects[d].item = i

-------------------------------------------------------------------------------
(***************************************************************************)
(* The form                                                                *)
(***************************************************************************)

LEMMA SnapshotItems ==
  ASSUME NEW f \in Forms
  PROVE  /\ Snapshot(f) \in ItemLists
         /\ ActiveTemplate(f) = <<>> => Snapshot(f) = NoItems
         /\ ActiveTemplate(f) # <<>> =>
              /\ f.vehicle \in Vehicles
              /\ DOMAIN Snapshot(f) = {f.vehicle, f.paired} \ {NoVehicle}
<1>1. NoItems \in ItemLists
  <2>1. NoItems \in [{} -> [Codes -> Results]]
    BY DEF NoItems
  <2> QED BY <2>1 DEF ItemLists
<1>2. ASSUME ActiveTemplate(f) # <<>>
      PROVE  /\ f.vehicle \in Vehicles
             /\ DOMAIN Snapshot(f) = {f.vehicle, f.paired} \ {NoVehicle}
             /\ Snapshot(f) \in ItemLists
  <2> DEFINE S == {f.vehicle, f.paired} \ {NoVehicle}
  <2>1. f.vehicle \in Vehicles
    BY <1>2 DEF ActiveTemplate, Forms
  <2>2. S \in SUBSET Vehicles
    BY DEF Forms
  <2>3. Snapshot(f) = [v \in S |-> [c \in Codes |-> "unset"]]
    BY <1>2 DEF Snapshot
  <2>4. Snapshot(f) \in [S -> [Codes -> Results]]
    BY <2>3 DEF Results
  <2> QED BY <2>1, <2>2, <2>3, <2>4 DEF ItemLists
<1> QED BY <1>1, <1>2 DEF Snapshot

\* The effect keeps the form coherent, whatever the event changed, provided it left
\* a trailer selected only with the vehicle it was selected for.
LEMMA RenderedIsCoherent ==
  ASSUME NEW old \in Forms, NEW f \in Forms, Coherent(old), f.items = old.items,
         f.paired # NoVehicle => f.vehicle \in Vehicles /\ f.paired \in Pairable(f.vehicle),
         f.paired # NoVehicle /\ f.paired = old.paired => f.vehicle = old.vehicle
  PROVE  /\ Rendered(old, f) \in Forms
         /\ Rendered(old, f).saving = f.saving
         /\ Coherent(Rendered(old, f))
<1>1. CASE ActiveTemplate(f) # ActiveTemplate(old) \/ f.paired # old.paired
  <2> DEFINE g == [f EXCEPT !.items = Snapshot(f)]
  <2>1. Rendered(old, f) = g
    BY <1>1 DEF Rendered
  <2>2. /\ g \in Forms /\ g.items = Snapshot(f) /\ g.saving = f.saving
        /\ g.vehicle = f.vehicle /\ g.paired = f.paired /\ g.templates = f.templates
    BY SnapshotItems DEF Forms
  <2>3. ActiveTemplate(g) = ActiveTemplate(f)
    BY <2>2 DEF ActiveTemplate
  <2>4. f.paired # NoVehicle => WorkspaceOf(f.paired) = WorkspaceOf(f.vehicle)
    BY DEF Pairable
  <2>5. Coherent(g)
    <3> HIDE DEF g
    <3>1. ActiveTemplate(f) # <<>> => f.vehicle # NoVehicle
      BY DEF ActiveTemplate
    <3>2. ActiveTemplate(g) # <<>> =>
            \A v \in DOMAIN g.items : WorkspaceOf(v) = WorkspaceOf(g.vehicle)
      BY <2>2, <2>3, <2>4, SnapshotItems
    <3>3. ActiveTemplate(g) # <<>> /\ g.paired # NoVehicle =>
            DOMAIN g.items = {g.vehicle, g.paired}
      BY <2>2, <2>3, <3>1, SnapshotItems
    <3> QED BY <2>2, <2>3, <3>2, <3>3, SnapshotItems DEF Coherent
  <2> QED BY <2>1, <2>2, <2>5
<1>2. CASE ActiveTemplate(f) = ActiveTemplate(old) /\ f.paired = old.paired
  <2>1. Rendered(old, f) = f
    BY <1>2 DEF Rendered
  <2>2. ActiveTemplate(f) # <<>> => WorkspaceOf(f.vehicle) = WorkspaceOf(old.vehicle)
    BY <1>2 DEF ActiveTemplate
  <2> QED BY <1>2, <2>1, <2>2 DEF Coherent
<1> QED BY <1>1, <1>2

\* A form that shows nothing yet.
LEMMA BlankIsCoherent ==
  ASSUME NEW f, NEW open \in BOOLEAN, NEW loading \in BOOLEAN,
         f = [open |-> open, loading |-> loading,
              templates |-> [w \in Workspaces |-> NoTemplate],
              vehicle |-> NoVehicle, paired |-> NoVehicle, items |-> NoItems,
              saving |-> NoCheck]
  PROVE  f \in Forms /\ Coherent(f) /\ f.saving = NoCheck
<1>1. NoItems \in ItemLists
  <2>1. NoItems \in [{} -> [Codes -> Results]]
    BY DEF NoItems
  <2> QED BY <2>1 DEF ItemLists
<1>2. [w \in Workspaces |-> NoTemplate] \in [Workspaces -> 0..MaxTemplate]
  BY BoundsAssumption DEF NoTemplate
<1>3. NoCheck \in 0..MaxChecks
  BY BoundsAssumption DEF NoCheck
<1>4. f \in Forms
  BY <1>1, <1>2, <1>3 DEF Forms
<1>5. f.vehicle = NoVehicle /\ f.paired = NoVehicle /\ f.items = NoItems /\ f.saving = NoCheck
  OBVIOUS
<1>6. Coherent(f)
  BY <1>5 DEF Coherent, ActiveTemplate
<1> QED BY <1>4, <1>5, <1>6

FormEvent == Mount \/ Unmount \/ Loaded \/ SelectVehicle \/ SelectPaired \/ Answer

\* An event of the screen changes nothing but the form, and keeps it coherent.
LEMMA FormEvents ==
  ASSUME TypeInv, FormInv, FormEvent
  PROVE  /\ form' \in Forms /\ FormInv'
         /\ form'.saving \in {form.saving, NoCheck}
         /\ UNCHANGED records
<1> USE DEF FormInv
<1>0. form \in Forms
  BY DEF TypeInv, TypeOK
<1>1. CASE Mount
  <2> DEFINE templates == [w \in Workspaces |-> NoTemplate]
  <2>1. form' = [[open |-> FALSE, loading |-> FALSE, templates |-> templates,
                  vehicle |-> NoVehicle, paired |-> NoVehicle, items |-> NoItems,
                  saving |-> NoCheck] EXCEPT !.open = TRUE, !.loading = TRUE]
    BY <1>1 DEF Mount, EmptyForm
  <2> HIDE DEF templates
  <2>2. form' = [open |-> TRUE, loading |-> TRUE, templates |-> templates,
                 vehicle |-> NoVehicle, paired |-> NoVehicle, items |-> NoItems,
                 saving |-> NoCheck]
    BY <2>1
  <2> QED BY <1>1, <2>2, BlankIsCoherent DEF Mount, templates
<1>2. CASE Unmount
  BY <1>2, BlankIsCoherent DEF Unmount, EmptyForm
<1>3. CASE Loaded
  <2>1. PICK templates \in [Workspaces -> 0..MaxTemplate] :
          form' = Rendered(form, [form EXCEPT !.loading = FALSE, !.templates = templates,
                                   !.vehicle = IF @ = NoVehicle THEN First ELSE @])
    BY <1>3 DEF Loaded
  <2> DEFINE f == [form EXCEPT !.loading = FALSE, !.templates = templates,
                                   !.vehicle = IF @ = NoVehicle THEN First ELSE @]
  <2>2. /\ f \in Forms /\ f.items = form.items /\ f.paired = form.paired
        /\ f.saving = form.saving
        /\ f.vehicle = IF form.vehicle = NoVehicle THEN First ELSE form.vehicle
    BY <1>0, VehiclesAssumption DEF Forms
  <2>3. f.paired # NoVehicle => f.vehicle = form.vehicle
    BY <2>2, VehiclesAssumption DEF Coherent, NoVehicle
  <2> HIDE DEF f
  <2>4. /\ Rendered(form, f) \in Forms /\ Rendered(form, f).saving = f.saving
        /\ Coherent(Rendered(form, f))
    BY <1>0, <2>2, <2>3, RenderedIsCoherent DEF Coherent
  <2> QED BY <1>3, <2>1, <2>2, <2>4 DEF Loaded, f
<1>4. CASE SelectVehicle
  <2>1. PICK v \in Vehicles \ {form.vehicle} :
          form' = Rendered(form, [form EXCEPT !.vehicle = v, !.paired = NoVehicle])
    BY <1>4 DEF SelectVehicle
  <2> DEFINE f == [form EXCEPT !.vehicle = v, !.paired = NoVehicle]
  <2>2. f \in Forms /\ f.items = form.items /\ f.paired = NoVehicle /\ f.saving = form.saving
    BY <1>0 DEF Forms
  <2> HIDE DEF f
  <2>4. /\ Rendered(form, f) \in Forms /\ Rendered(form, f).saving = f.saving
        /\ Coherent(Rendered(form, f))
    BY <1>0, <2>2, RenderedIsCoherent
  <2> QED BY <1>4, <2>1, <2>2, <2>4 DEF SelectVehicle, f
<1>5. CASE SelectPaired
  <2>1. PICK t \in (Pairable(form.vehicle) \cup {NoVehicle}) \ {form.paired} :
          form' = Rendered(form, [form EXCEPT !.paired = t])
    BY <1>5 DEF SelectPaired
  <2> DEFINE f == [form EXCEPT !.paired = t]
  <2>2. /\ f \in Forms /\ f.items = form.items /\ f.paired = t /\ f.saving = form.saving
        /\ f.vehicle = form.vehicle
    BY <1>0, VehiclesAssumption DEF Forms, Pairable
  <2>3. t # NoVehicle => form.vehicle \in Vehicles /\ t \in Pairable(form.vehicle)
    BY DEF Pairable
  <2> HIDE DEF f
  <2>4. /\ Rendered(form, f) \in Forms /\ Rendered(form, f).saving = f.saving
        /\ Coherent(Rendered(form, f))
    BY <1>0, <2>2, <2>3, RenderedIsCoherent
  <2> QED BY <1>5, <2>1, <2>2, <2>4 DEF SelectPaired, f
<1>6. CASE Answer
  <2>1. PICK i \in Items(form.items), result \in {"ok", "defect"} :
          form' = [form EXCEPT !.items[i[1]][i[2]] = result]
    BY <1>6 DEF Answer
  <2>2. i[1] \in DOMAIN form.items /\ i[2] \in Codes
    BY DEF Items
  <2> DEFINE answers == [form.items EXCEPT ![i[1]][i[2]] = result]
  <2>3. answers \in ItemLists /\ DOMAIN answers = DOMAIN form.items
    <3>1. PICK S \in SUBSET Vehicles : form.items \in [S -> [Codes -> Results]]
      BY <1>0 DEF Forms, ItemLists
    <3>2. answers \in [S -> [Codes -> Results]]
      BY <2>2, <3>1 DEF Results
    <3> QED BY <3>1, <3>2 DEF ItemLists
  <2>4. /\ form' \in Forms /\ form'.items = answers /\ form'.vehicle = form.vehicle
        /\ form'.paired = form.paired /\ form'.templates = form.templates
        /\ form'.saving = form.saving
    BY <1>0, <2>1, <2>3 DEF Forms
  <2>5. ActiveTemplate(form') = ActiveTemplate(form)
    BY <2>4 DEF ActiveTemplate
  <2>6. form.items # NoItems
    BY <2>2 DEF NoItems
  <2> HIDE DEF answers
  <2> QED BY <1>6, <2>3, <2>4, <2>5, <2>6 DEF Answer, Coherent
<1> QED BY <1>1, <1>2, <1>3, <1>4, <1>5, <1>6 DEF FormEvent

\* So does the end of a submission, which resets the form.
LEMMA ResetForm ==
  ASSUME TypeInv, FormInv, SaveDone
  PROVE  /\ form' \in Forms /\ FormInv' /\ form'.saving = NoCheck
         /\ returned' = returned \cup {form.saving}
         /\ UNCHANGED <<checks, raising, defects, call>>
<1> DEFINE f == [form EXCEPT !.saving = NoCheck, !.loading = TRUE,
                              !.vehicle = First, !.paired = NoVehicle]
<1>1. form \in Forms
  BY DEF TypeInv, TypeOK
<1>2. f \in Forms /\ f.items = form.items /\ f.paired = NoVehicle /\ f.saving = NoCheck
  <2>1. First \in Vehicles /\ NoCheck \in 0..MaxChecks
    BY VehiclesAssumption, BoundsAssumption DEF NoCheck
  <2> QED BY <1>1, <2>1 DEF Forms
<1>3. form' = Rendered(form, f) /\ returned' = returned \cup {form.saving}
      /\ UNCHANGED <<checks, raising, defects, call>>
  BY DEF SaveDone
<1> HIDE DEF f
<1> QED BY <1>1, <1>2, <1>3, RenderedIsCoherent DEF FormInv

-------------------------------------------------------------------------------
(***************************************************************************)
(* Checks, and the defects they raise                                      *)
(***************************************************************************)

\* What a submission writes: a check about vehicles of its workspace, and the
\* inserts of its failed items.
LEMMA Submission ==
  ASSUME TypeInv, FormInv, CreateVehicleCheck
  PROVE  \E row \in CheckRows :
           /\ checks' = Append(checks, row)
           /\ Len(checks) + 1 \in 1..MaxChecks
           /\ raising' = raising \cup
                {[check |-> Len(checks) + 1, item |-> i] : i \in row.failed}
           /\ form' = [form EXCEPT !.saving = Len(checks) + 1]
           /\ \A v \in row.stamps : WorkspaceOf(v) = WorkspaceOf(row.vehicle)
           /\ row.paired # NoVehicle => row.stamps = {row.vehicle, row.paired}
           /\ UNCHANGED <<defects, call, returned>>
<1> DEFINE row == [vehicle |-> form.vehicle, paired |-> form.paired,
                   failed |-> Failed(form.items), stamps |-> DOMAIN form.items]
<1>1. form \in Forms /\ checks \in Seq(CheckRows)
  BY DEF TypeInv, TypeOK
<1>2. /\ form.vehicle \in Vehicles /\ ActiveTemplate(form) # <<>>
      /\ form.paired \in Vehicles \cup {NoVehicle}
  BY <1>1 DEF CreateVehicleCheck, CanSave, Forms
<1>3. DOMAIN form.items \in SUBSET Vehicles
  BY <1>1 DEF Forms, ItemLists
<1>4. Failed(form.items) \in SUBSET (Vehicles \X Codes)
  BY <1>3 DEF Failed, Items
<1>5. row \in CheckRows
  BY <1>2, <1>3, <1>4 DEF CheckRows
<1>6. checks' = Append(checks, row)
  BY DEF CreateVehicleCheck
<1>7. Len(checks') = Len(checks) + 1 /\ Len(checks) + 1 \in 1..MaxChecks
  BY <1>1, <1>5, <1>6, BoundsAssumption DEF CreateVehicleCheck
<1>8. /\ raising' = raising \cup
           {[check |-> Len(checks) + 1, item |-> i] : i \in row.failed}
      /\ form' = [form EXCEPT !.saving = Len(checks) + 1]
      /\ UNCHANGED <<defects, call, returned>>
  BY <1>7 DEF CreateVehicleCheck
<1>9. /\ row.vehicle = form.vehicle /\ row.paired = form.paired
      /\ row.stamps = DOMAIN form.items
  OBVIOUS
<1> HIDE DEF row
<1>10. /\ \A v \in row.stamps : WorkspaceOf(v) = WorkspaceOf(row.vehicle)
       /\ row.paired # NoVehicle => row.stamps = {row.vehicle, row.paired}
  BY <1>2, <1>9 DEF FormInv, Coherent
<1> QED BY <1>5, <1>6, <1>7, <1>8, <1>10

\* The next status of a defect that is not resolved.
LEMMA StatusOrder ==
  ASSUME NEW status \in Statuses
  PROVE  /\ IndexOf(status) \in 1..4 /\ STATUS_ORDER[IndexOf(status)] = status
         /\ status # "resolved" =>
              /\ NextStatus(status) \in Statuses
              /\ NextStatus(status) # status
              /\ IndexOf(NextStatus(status)) = IndexOf(status) + 1
<1>1. \A i \in 1..4, j \in 1..4 : STATUS_ORDER[i] = STATUS_ORDER[j] => i = j
  BY DEF STATUS_ORDER
<1>2. \A i \in 1..4 : IndexOf(STATUS_ORDER[i]) = i
  BY <1>1 DEF IndexOf
<1>3. PICK i \in 1..4 : status = STATUS_ORDER[i]
  BY DEF Statuses
<1>4. STATUS_ORDER[4] = "resolved"
  BY DEF STATUS_ORDER
<1>5. status # "resolved" => i + 1 \in 1..4
  BY <1>3, <1>4
<1> HIDE DEF STATUS_ORDER
<1>6. IndexOf(status) = i
  BY <1>2, <1>3
<1>7. status # "resolved" => NextStatus(status) = STATUS_ORDER[i + 1]
  BY <1>6 DEF NextStatus
<1>8. status # "resolved" =>
        NextStatus(status) \in Statuses /\ IndexOf(NextStatus(status)) = i + 1
  BY <1>2, <1>5, <1>7 DEF Statuses
<1> QED BY <1>3, <1>6, <1>8

LEMMA FunctionIsSequence ==
  ASSUME NEW S, NEW n \in Nat, NEW f \in [1..n -> S]
  PROVE  f \in Seq(S) /\ Len(f) = n /\ DOMAIN f = 1..n
OBVIOUS

\* Writing a status changes nothing else of the rows.
LEMMA WriteKeepsRows ==
  ASSUME TypeInv, NEW m \in Managers, WriteStatus(m)
  PROVE  /\ defects' \in Seq(DefectRows)
         /\ Len(defects') = Len(defects) /\ DOMAIN defects' = DOMAIN defects
         /\ \A e \in DOMAIN defects :
              /\ defects'[e].check = defects[e].check
              /\ defects'[e].item = defects[e].item
              /\ defects'[e].status =
                   IF e = call[m].defect THEN call[m].status ELSE defects[e].status
<1> DEFINE d == call[m].defect
           row == [defects[d] EXCEPT !.status = call[m].status]
<1>1. defects' = [defects EXCEPT ![d] = row]
  BY DEF WriteStatus
<1>2. call[m].status \in Statuses /\ defects \in Seq(DefectRows)
  BY DEF TypeInv, TypeOK
<1>3. /\ defects \in [1..Len(defects) -> DefectRows]
      /\ DOMAIN defects = 1..Len(defects) /\ Len(defects) \in Nat
  BY <1>2
<1>4. ASSUME d \in DOMAIN defects
      PROVE  /\ row \in DefectRows
             /\ row.check = defects[d].check /\ row.item = defects[d].item
             /\ row.status = call[m].status
  <2>1. defects[d] \in DefectRows
    BY <1>3, <1>4
  <2> HIDE DEF d
  <2> QED BY <1>2, <2>1 DEF DefectRows
<1> HIDE DEF d, row
<1>5. /\ DOMAIN defects' = 1..Len(defects)
      /\ \A e \in 1..Len(defects) : defects'[e] = IF e = d THEN row ELSE defects[e]
      /\ defects' = [e \in 1..Len(defects) |-> IF e = d THEN row ELSE defects[e]]
  BY <1>1, <1>3
<1>6. ASSUME NEW e \in 1..Len(defects)
      PROVE  /\ defects'[e] \in DefectRows
             /\ defects'[e].check = defects[e].check
             /\ defects'[e].item = defects[e].item
             /\ defects'[e].status = IF e = d THEN call[m].status ELSE defects[e].status
  <2>1. CASE e = d
    BY <1>3, <1>4, <1>5, <2>1
  <2>2. CASE e # d
    <3>1. defects'[e] = defects[e] /\ defects[e] \in DefectRows
      BY <1>3, <1>5, <2>2
    <3> QED BY <2>2, <3>1
  <2> QED BY <2>1, <2>2
<1>7. defects' \in [1..Len(defects) -> DefectRows]
  BY ONLY <1>5, <1>6
<1>8. /\ defects' \in Seq(DefectRows) /\ Len(defects') = Len(defects)
      /\ DOMAIN defects' = 1..Len(defects)
  BY ONLY <1>3, <1>7, FunctionIsSequence
<1> QED BY <1>3, <1>6, <1>8 DEF d

LEMMA AppendFacts ==
  ASSUME NEW S, NEW s \in Seq(S), NEW e \in S
  PROVE  /\ Append(s, e) \in Seq(S) /\ Len(Append(s, e)) = Len(s) + 1
         /\ DOMAIN Append(s, e) = 1..(Len(s) + 1)
         /\ Append(s, e)[Len(s) + 1] = e
         /\ \A i \in 1..Len(s) : Append(s, e)[i] = s[i] /\ i # Len(s) + 1
         /\ DOMAIN s = 1..Len(s) /\ Len(s) \in Nat
         /\ \A i \in 1..(Len(s) + 1) : i \in 1..Len(s) \/ i = Len(s) + 1
OBVIOUS

LEMMA SavingType ==
  ASSUME NEW f \in Forms, NEW k \in 0..MaxChecks
  PROVE  [f EXCEPT !.saving = k] \in Forms /\ [f EXCEPT !.saving = k].saving = k
BY DEF Forms

LEMMA TypeStep ==
  ASSUME TypeInv, FormInv, [Next]_vars
  PROVE  TypeInv'
<1> USE DEF TypeInv, TypeOK, RefsResolve
<1>1. CASE FormEvent
  <2>1. form'.saving <= Len(checks')
    BY <1>1, FormEvents DEF records, NoCheck
  <2> QED BY <1>1, <2>1, FormEvents DEF records
<1>2. CASE CreateVehicleCheck
  <2>1. PICK row \in CheckRows :
          /\ checks' = Append(checks, row)
          /\ Len(checks) + 1 \in 1..MaxChecks
          /\ raising' = raising \cup
               {[check |-> Len(checks) + 1, item |-> i] : i \in row.failed}
          /\ form' = [form EXCEPT !.saving = Len(checks) + 1]
          /\ UNCHANGED <<defects, call, returned>>
    BY <1>2, Submission
  <2>2. /\ checks' \in Seq(CheckRows) /\ Len(checks') = Len(checks) + 1
        /\ Len(checks') <= MaxChecks /\ returned' \subseteq 1..Len(checks')
    BY <2>1, BoundsAssumption
  <2>3. form' \in Forms /\ form'.saving = Len(checks) + 1
    BY <2>1, SavingType
  <2>4. /\ \A r \in raising' : r.check \in DOMAIN checks'
        /\ raising' \subseteq Raised
    <3>1. row.failed \in SUBSET (Vehicles \X Codes)
      BY DEF CheckRows
    <3> QED BY <2>1, <2>2, <3>1 DEF Raised
  <2>5. \A d \in DOMAIN defects' : defects'[d].check \in DOMAIN checks'
    BY <2>1, <2>2
  <2> QED BY <2>1, <2>2, <2>3, <2>4, <2>5
<1>3. CASE InsertDefect
  <2>1. PICK r \in raising :
          /\ raising' = raising \ {r}
          /\ defects' = Append(defects, [check |-> r.check, item |-> r.item,
                                         status |-> "open"])
    BY <1>3 DEF InsertDefect
  <2>2. "open" \in Statuses
    BY DEF Statuses, STATUS_ORDER
  <2>3. [check |-> r.check, item |-> r.item, status |-> "open"] \in DefectRows
    BY <2>2 DEF Raised, DefectRows
  <2>4. /\ defects' \in Seq(DefectRows) /\ Len(defects') <= MaxDefects
        /\ \A d \in DOMAIN defects' : defects'[d].check \in DOMAIN checks
    BY <1>3, <2>1, <2>3, BoundsAssumption DEF InsertDefect
  <2> QED BY <1>3, <2>1, <2>4 DEF InsertDefect
<1>4. CASE InsertFails
  <2>1. form' \in Forms /\ form'.saving <= Len(checks)
    <3>1. NoCheck \in 0..MaxChecks /\ NoCheck <= Len(checks)
      BY BoundsAssumption DEF NoCheck
    <3>2. form' = form \/ form' = [form EXCEPT !.saving = NoCheck]
      BY <1>4 DEF InsertFails
    <3> QED BY <3>1, <3>2, SavingType
  <2> QED BY <1>4, <2>1 DEF InsertFails
<1>5. CASE SaveDone
  <2>1. form.saving \in 1..Len(checks)
    BY <1>5 DEF SaveDone, Forms, NoCheck
  <2>2. NoCheck <= Len(checks)
    BY DEF NoCheck
  <2> QED BY <1>5, <2>1, <2>2, ResetForm
<1>6. ASSUME NEW m \in Managers, AdvanceDefectStatus(m)
      PROVE  TypeInv'
  <2>1. PICK d \in DOMAIN defects :
          /\ defects[d].status # "resolved"
          /\ call' = [call EXCEPT ![m] =
               [defect |-> d, status |-> NextStatus(defects[d].status)]]
    BY <1>6 DEF AdvanceDefectStatus
  <2>2. d \in 0..MaxDefects
    BY BoundsAssumption
  <2>3. defects[d].status \in Statuses
    <3>1. defects[d] \in DefectRows
      OBVIOUS
    <3> QED BY <3>1 DEF DefectRows
  <2>4. NextStatus(defects[d].status) \in Statuses
    BY <2>1, <2>3, StatusOrder
  <2> QED BY <1>6, <2>1, <2>2, <2>4 DEF AdvanceDefectStatus
<1>7. ASSUME NEW m \in Managers, WriteStatus(m)
      PROVE  TypeInv'
  <2>1. NoCall \in [defect : 0..MaxDefects, status : Statuses]
    BY BoundsAssumption DEF NoCall, Statuses, STATUS_ORDER
  <2>2. /\ defects' \in Seq(DefectRows) /\ Len(defects') = Len(defects)
        /\ \A d \in DOMAIN defects' : d \in DOMAIN defects /\ defects'[d].check = defects[d].check
    BY <1>7, WriteKeepsRows
  <2> QED BY <1>7, <2>1, <2>2 DEF WriteStatus
<1>8. ASSUME NEW m \in Managers, AbandonStatus(m)
      PROVE  TypeInv'
  <2>1. NoCall \in [defect : 0..MaxDefects, status : Statuses]
    BY BoundsAssumption DEF NoCall, Statuses, STATUS_ORDER
  <2> QED BY <1>8, <2>1 DEF AbandonStatus
<1>9. CASE UNCHANGED vars
  BY <1>9 DEF vars
<1> QED BY <1>1, <1>2, <1>3, <1>4, <1>5, <1>6, <1>7, <1>8, <1>9 DEF Next, FormEvent

\* The steps that leave checks, defects and their inserts alone.
LEMMA QuietSteps ==
  ASSUME TypeInv, FormInv,
         FormEvent \/ SaveDone \/ (\E m \in Managers : AdvanceDefectStatus(m) \/ AbandonStatus(m))
  PROVE  UNCHANGED <<checks, raising, defects>>
BY FormEvents DEF records, SaveDone, AdvanceDefectStatus, AbandonStatus

LEMMA DefectsStep ==
  ASSUME TypeInv, FormInv, DefectsMatchFailures, [Next]_vars
  PROVE  DefectsMatchFailures'
<1>0. /\ checks \in Seq(CheckRows) /\ defects \in Seq(DefectRows)
      /\ \A r \in raising : r.check \in 1..Len(checks) /\ r = [check |-> r.check, item |-> r.item]
      /\ \A d \in DOMAIN defects : defects[d].check \in 1..Len(checks)
  BY DEF TypeInv, TypeOK, RefsResolve, Raised
<1>1. CASE UNCHANGED <<checks, raising, defects>>
  BY <1>1 DEF DefectsMatchFailures
<1>2. CASE CreateVehicleCheck
  <2> DEFINE n == Len(checks) + 1
  <2>1. PICK row \in CheckRows :
          /\ checks' = Append(checks, row)
          /\ raising' = raising \cup {[check |-> n, item |-> i] : i \in row.failed}
          /\ UNCHANGED defects
    BY <1>2, Submission
  <2>2. checks'[n] = row /\ \A k \in 1..Len(checks) : checks'[k] = checks[k] /\ k # n
    BY <1>0, <2>1
  <2> HIDE DEF n
  <2>3. ASSUME NEW r \in raising'
        PROVE  r.item \in checks'[r.check].failed
    <3>1. CASE r \in raising
      BY <1>0, <2>2, <3>1 DEF DefectsMatchFailures
    <3>2. CASE r \in {[check |-> n, item |-> i] : i \in row.failed}
      BY <2>2, <3>2
    <3> QED BY <2>1, <3>1, <3>2
  <2>4. \A d \in DOMAIN defects' :
          /\ defects'[d].item \in checks'[defects'[d].check].failed
          /\ [check |-> defects'[d].check, item |-> defects'[d].item] \notin raising'
    BY <1>0, <2>1, <2>2 DEF DefectsMatchFailures
  <2> QED BY <2>1, <2>3, <2>4 DEF DefectsMatchFailures
<1>3. CASE InsertDefect
  <2>1. PICK r \in raising :
          /\ raising' = raising \ {r} /\ UNCHANGED checks
          /\ defects' = Append(defects, [check |-> r.check, item |-> r.item,
                                         status |-> "open"])
    BY <1>3 DEF InsertDefect
  <2> DEFINE n == Len(defects) + 1
  <2>2. /\ DOMAIN defects' = 1..n /\ DOMAIN defects = 1..Len(defects)
        /\ \A d \in DOMAIN defects' : d \in DOMAIN defects \/ d = n
        /\ defects'[n].check = r.check /\ defects'[n].item = r.item
        /\ \A d \in DOMAIN defects : defects'[d] = defects[d]
    BY <1>0, <2>1
  <2> HIDE DEF n
  <2>3. \A d \in DOMAIN defects' :
          /\ defects'[d].item \in checks'[defects'[d].check].failed
          /\ [check |-> defects'[d].check, item |-> defects'[d].item] \notin raising'
    BY <1>0, <2>1, <2>2 DEF DefectsMatchFailures
  <2>4. \A d \in DOMAIN defects : defects[d].check # r.check \/ defects[d].item # r.item
    BY <1>0 DEF DefectsMatchFailures
  <2>5. \A d, e \in DOMAIN defects' :
          defects'[d].check = defects'[e].check /\ defects'[d].item = defects'[e].item => d = e
    BY <2>2, <2>4 DEF DefectsMatchFailures
  <2> QED BY <2>1, <2>3, <2>5 DEF DefectsMatchFailures
<1>4. CASE InsertFails
  BY <1>4 DEF InsertFails, DefectsMatchFailures
<1>5. ASSUME NEW m \in Managers, WriteStatus(m)
      PROVE  DefectsMatchFailures'
  BY <1>5, WriteKeepsRows DEF WriteStatus, DefectsMatchFailures
<1>6. CASE UNCHANGED vars
  BY <1>1, <1>6 DEF vars
<1> QED BY <1>1, <1>2, <1>3, <1>4, <1>5, <1>6, QuietSteps DEF Next, FormEvent

\* What a submission that returned is entitled to, from what the form waits for.
Complete == SavingInv /\ ReturnedIsComplete

LEMMA CompleteStep ==
  ASSUME TypeInv, FormInv, Complete, [Next]_vars
  PROVE  Complete'
<1> USE DEF Complete, SavingInv, ReturnedIsComplete
<1>0. /\ checks \in Seq(CheckRows) /\ defects \in Seq(DefectRows) /\ form \in Forms
      /\ \A r \in raising : r = [check |-> r.check, item |-> r.item]
      /\ form.saving # NoCheck => form.saving \in 1..Len(checks)
      /\ returned \subseteq 1..Len(checks)
  BY DEF TypeInv, TypeOK, RefsResolve, Raised, Forms, NoCheck
<1>1. CASE FormEvent
  BY <1>1, FormEvents DEF records
<1>2. CASE CreateVehicleCheck
  <2> DEFINE n == Len(checks) + 1
  <2>1. PICK row \in CheckRows :
          /\ checks' = Append(checks, row) /\ n \in 1..MaxChecks
          /\ raising' = raising \cup {[check |-> n, item |-> i] : i \in row.failed}
          /\ form' = [form EXCEPT !.saving = n]
          /\ UNCHANGED <<defects, returned>>
    BY <1>2, Submission
  <2>2. checks'[n] = row /\ \A k \in 1..Len(checks) : checks'[k] = checks[k]
    BY <1>0, <2>1, AppendFacts
  <2>3. n \in 0..MaxChecks
    BY <2>1
  <2> HIDE DEF n
  <2>4. form'.saving = n
    BY <1>0, <2>1, <2>3, SavingType
  <2>5. SavingInv'
    <3>1. \A i \in row.failed : [check |-> n, item |-> i] \in raising'
      BY <2>1
    <3> QED BY <2>2, <2>4, <3>1
  <2>6. ReturnedIsComplete'
    BY <1>0, <2>1, <2>2
  <2> QED BY <2>5, <2>6
<1>3. CASE InsertDefect
  <2>1. PICK r \in raising :
          /\ raising' = raising \ {r} /\ UNCHANGED <<form, checks, returned>>
          /\ defects' = Append(defects, [check |-> r.check, item |-> r.item,
                                         status |-> "open"])
    BY <1>3 DEF InsertDefect
  <2>2. PICK n \in DOMAIN defects' : defects'[n].check = r.check /\ defects'[n].item = r.item
    <3>1. LET n == Len(defects) + 1
          IN n \in DOMAIN defects' /\ defects'[n].check = r.check /\ defects'[n].item = r.item
      BY <1>0, <2>1
    <3> QED BY <3>1
  <2>3. \A d \in DOMAIN defects : d \in DOMAIN defects' /\ defects'[d] = defects[d]
    BY <1>0, <2>1
  <2>4. SavingInv'
    <3> SUFFICES ASSUME form'.saving # NoCheck, NEW i \in checks'[form'.saving].failed
                 PROVE  \/ [check |-> form'.saving, item |-> i] \in raising'
                        \/ \E d \in DOMAIN defects' :
                             defects'[d].check = form'.saving /\ defects'[d].item = i
      OBVIOUS
    <3> DEFINE mine == [check |-> form.saving, item |-> i]
    <3>1. CASE mine = r
      BY <2>1, <2>2, <3>1
    <3>2. CASE mine # r /\ mine \in raising
      BY <2>1, <3>2
    <3>3. CASE mine \notin raising
      BY <2>1, <2>3, <3>3
    <3> QED BY <3>1, <3>2, <3>3
  <2>5. ReturnedIsComplete'
    BY <2>1, <2>3
  <2> QED BY <2>4, <2>5
<1>4. CASE InsertFails
  <2>1. PICK r \in raising :
          /\ raising' = raising \ {r} /\ UNCHANGED <<checks, defects, returned>>
          /\ form' = IF form.saving = r.check THEN [form EXCEPT !.saving = NoCheck] ELSE form
    BY <1>4 DEF InsertFails
  <2>2. CASE form.saving = r.check
    <3>1. NoCheck \in 0..MaxChecks
      BY BoundsAssumption DEF NoCheck
    <3>2. form'.saving = NoCheck
      BY <1>0, <2>1, <2>2, <3>1, SavingType
    <3> QED BY <2>1, <3>2
  <2>3. CASE form.saving # r.check
    BY <1>0, <2>1, <2>3
  <2> QED BY <2>2, <2>3
<1>5. CASE SaveDone
  <2>1. /\ form.saving # NoCheck
        /\ \A r \in raising : r.check # form.saving
    BY <1>5 DEF SaveDone
  <2>2. \A i \in checks[form.saving].failed :
          \E d \in DOMAIN defects : defects[d].check = form.saving /\ defects[d].item = i
    <3>1. \A i \in checks[form.saving].failed : [check |-> form.saving, item |-> i] \notin raising
      BY <2>1
    <3> QED BY <2>1, <3>1
  <2> QED BY <1>5, <2>2, ResetForm
<1>6. ASSUME NEW m \in Managers, AdvanceDefectStatus(m) \/ AbandonStatus(m)
      PROVE  Complete'
  BY <1>6 DEF AdvanceDefectStatus, AbandonStatus
<1>7. ASSUME NEW m \in Managers, WriteStatus(m)
      PROVE  Complete'
  BY <1>7, WriteKeepsRows DEF WriteStatus
<1>8. CASE UNCHANGED vars
  BY <1>8 DEF vars
<1> QED BY <1>1, <1>2, <1>3, <1>4, <1>5, <1>6, <1>7, <1>8 DEF Next, FormEvent

LEMMA ItemsStep ==
  ASSUME TypeInv, FormInv, ItemsOfTheCheck, [Next]_vars
  PROVE  ItemsOfTheCheck'
<1>1. CASE UNCHANGED checks
  BY <1>1 DEF ItemsOfTheCheck
<1>2. CASE CreateVehicleCheck
  <2>1. PICK row \in CheckRows :
          /\ checks' = Append(checks, row)
          /\ \A v \in row.stamps : WorkspaceOf(v) = WorkspaceOf(row.vehicle)
          /\ row.paired # NoVehicle => row.stamps = {row.vehicle, row.paired}
    BY <1>2, Submission
  <2>2. checks \in Seq(CheckRows)
    BY DEF TypeInv, TypeOK
  <2>3. \A k \in DOMAIN checks' :
          \/ checks'[k] = row
          \/ k \in DOMAIN checks /\ checks'[k] = checks[k]
    BY <2>1, <2>2
  <2> QED BY <2>1, <2>3 DEF ItemsOfTheCheck
<1>3. CASE FormEvent
  BY <1>1, <1>3, FormEvents DEF records
<1> QED BY <1>1, <1>2, <1>3
        DEF Next, FormEvent, InsertDefect, InsertFails, SaveDone, AdvanceDefectStatus,
            WriteStatus, AbandonStatus, vars

-------------------------------------------------------------------------------
(***************************************************************************)
(* The theorems                                                            *)
(***************************************************************************)

Safety == TypeInv /\ FormInv /\ DefectsMatchFailures /\ Complete /\ ItemsOfTheCheck

LEMMA SafetyInitially ==
  ASSUME Init
  PROVE  Safety
<1>1. EmptyForm \in Forms /\ Coherent(EmptyForm) /\ EmptyForm.saving = NoCheck
  BY BlankIsCoherent DEF EmptyForm
<1>2. NoCall \in [defect : 0..MaxDefects, status : Statuses]
  BY BoundsAssumption DEF NoCall, Statuses, STATUS_ORDER
<1>3. TypeInv
  BY <1>1, <1>2, BoundsAssumption DEF Init, TypeInv, TypeOK, RefsResolve, NoCheck
<1>4. FormInv /\ DefectsMatchFailures /\ Complete /\ ItemsOfTheCheck
  BY <1>1 DEF Init, FormInv, DefectsMatchFailures, Complete, SavingInv, ReturnedIsComplete,
              ItemsOfTheCheck
<1> QED BY <1>3, <1>4 DEF Safety

LEMMA FormStep ==
  ASSUME TypeInv, FormInv, [Next]_vars
  PROVE  FormInv'
<1>1. CASE CreateVehicleCheck \/ InsertFails
  <2>1. form \in Forms
    BY DEF TypeInv, TypeOK
  <2>2. \/ form' = form
        \/ \E k : form' = [form EXCEPT !.saving = k]
    BY <1>1 DEF CreateVehicleCheck, InsertFails
  <2>3. /\ form'.items = form.items /\ form'.vehicle = form.vehicle
        /\ form'.paired = form.paired /\ form'.templates = form.templates
    BY <2>1, <2>2 DEF Forms
  <2> QED BY <2>3 DEF FormInv, Coherent, ActiveTemplate
<1> QED BY <1>1, FormEvents, ResetForm
        DEF Next, FormEvent, InsertDefect, AdvanceDefectStatus, WriteStatus, AbandonStatus,
            vars, FormInv

\* The inductive invariant.
THEOREM Inductive == Spec => []Safety
<1>1. Init => Safety
  BY SafetyInitially
<1>2. Safety /\ [Next]_vars => Safety'
  BY TypeStep, FormStep, DefectsStep, CompleteStep, ItemsStep DEF Safety
<1> QED BY <1>1, <1>2, PTL DEF Spec

\* Every row, the form and every pending write keep their type
\* (vehicleCheckService.js, defectService.js).
THEOREM TypeCorrect == Spec => []TypeOK
<1>1. Safety => TypeOK
  BY DEF Safety, TypeInv
<1> QED BY <1>1, Inductive, PTL

\* raiseDefectsFromVehicleCheck: a defect stands for a failed item of its check,
\* and no item has two, on its way or raised, whatever fails or overtakes.
THEOREM DefectsStandForFailures == Spec => []DefectsMatchFailures
<1>1. Safety => DefectsMatchFailures
  BY DEF Safety
<1> QED BY <1>1, Inductive, PTL

\* createVehicleCheck only returns when every failed item has its defect.
THEOREM ReturnedChecksAreComplete == Spec => []ReturnedIsComplete
<1>1. Safety => ReturnedIsComplete
  BY DEF Safety, Complete
<1> QED BY <1>1, Inductive, PTL

\* The items of a check are about vehicles of its workspace, and a paired check's
\* about its two, however the driver went back and forth in the form.
THEOREM ItemsAreOfTheCheck == Spec => []ItemsOfTheCheck
<1>1. Safety => ItemsOfTheCheck
  BY DEF Safety
<1> QED BY <1>1, Inductive, PTL

================================================================================
