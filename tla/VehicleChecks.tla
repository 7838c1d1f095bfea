----------------------------- MODULE VehicleChecks -----------------------------
(***************************************************************************)
(* Daily vehicle checks: the driver's form                                 *)
(* (views/driver/VehicleCheckApp.jsx), the submission of a check and the   *)
(* defects it raises (vehicleCheckService.js, defectService.js), and the   *)
(* managers who work the defects off (defectService advanceDefectStatus).  *)
(*                                                                         *)
(* The form is a React component: an action is one event together with     *)
(* the effects its re-rendering runs.  The inserts of a submission are     *)
(* issued by one Promise.all: they land in any order, each on its own, and *)
(* go on landing after the first that failed.  Texts, readings, severities *)
(* and the difference between "ok" and "not_applicable" are left out; all  *)
(* templates have the items in Codes.                                      *)
(***************************************************************************)
EXTENDS Integers, Sequences, FiniteSets

CONSTANTS
  Vehicles,      \* those the driver may check
  Trailers,      \* vehicleType "trailer"; the others are tractor units
  HomeVehicles,  \* of the driver's own workspace; the others are an employer's
  First,         \* vehicles[0]
  Codes,         \* item codes of a checklist
  Managers,      \* sessions with the defects screen open
  MaxTemplate,   \* bound: templates a workspace may have as its default
  MaxChecks,     \* bound: checks ever submitted
  MaxDefects     \* bound: defects ever raised

ASSUME VehiclesAssumption ==
  /\ First \in Vehicles /\ Trailers \subseteq Vehicles /\ HomeVehicles \subseteq Vehicles
  /\ "none" \notin Vehicles
ASSUME BoundsAssumption == MaxTemplate \in Nat /\ MaxChecks \in Nat /\ MaxDefects \in Nat

NoVehicle  == "none"       \* vehicleId "", pairedVehicleId ""
NoTemplate == 0            \* no default template
NoCheck    == 0
Workspaces == {"home", "employer"}
WorkspaceOf(v) == IF v \in HomeVehicles THEN "home" ELSE "employer"

STATUS_ORDER == <<"open", "reported", "in_progress", "resolved">>
Statuses     == {STATUS_ORDER[i] : i \in 1..4}

VARIABLES
  form,      \* the driver's screen
  checks,    \* VehicleCheck rows, in the order of insertion
  raising,   \* inserts of defects on their way
  defects,   \* Defect rows, in the order of insertion
  call,      \* call[m]: the advanceDefectStatus manager m is in the middle of
  returned   \* history: the checks whose createVehicleCheck returned

vars == <<form, checks, raising, defects, call, returned>>

Results   == {"unset", "ok", "defect"}
\* items, by the vehicle they are stamped with and their code
ItemLists == UNION {[S -> [Codes -> Results]] : S \in SUBSET Vehicles}
Items(f)  == (DOMAIN f) \X Codes

Forms == [open : BOOLEAN, loading : BOOLEAN, templates : [Workspaces -> 0..MaxTemplate],
          vehicle : Vehicles \cup {NoVehicle}, paired : Vehicles \cup {NoVehicle},
          items : ItemLists, saving : 0..MaxChecks]
CheckRows  == [vehicle : Vehicles, paired : Vehicles \cup {NoVehicle},
               failed : SUBSET (Vehicles \X Codes), stamps : SUBSET Vehicles]
Raised     == [check : 1..MaxChecks, item : Vehicles \X Codes]
DefectRows == [check : 1..MaxChecks, item : Vehicles \X Codes, status : Statuses]
NoCall     == [defect |-> 0, status |-> "resolved"]

TypeOK ==
  /\ form \in Forms
  /\ checks \in Seq(CheckRows) /\ Len(checks) <= MaxChecks
  /\ raising \subseteq Raised
  /\ defects \in Seq(DefectRows) /\ Len(defects) <= MaxDefects
  /\ call \in [Managers -> [defect : 0..MaxDefects, status : Statuses]]
  /\ returned \subseteq 1..Len(checks)

NoItems   == [v \in {} |-> [c \in Codes |-> "unset"]]
EmptyForm == [open |-> FALSE, loading |-> FALSE,
              templates |-> [w \in Workspaces |-> NoTemplate],
              vehicle |-> NoVehicle, paired |-> NoVehicle, items |-> NoItems,
              saving |-> NoCheck]

Init ==
  /\ form = EmptyForm /\ checks = <<>> /\ raising = {} /\ defects = <<>>
  /\ call = [m \in Managers |-> NoCall] /\ returned = {}

-------------------------------------------------------------------------------
(***************************************************************************)
(* The form                                                                *)
(***************************************************************************)

\* activeTemplate?.id
ActiveTemplate(f) ==
  IF f.vehicle = NoVehicle \/ f.templates[WorkspaceOf(f.vehicle)] = NoTemplate
    THEN <<>>
    ELSE <<WorkspaceOf(f.vehicle), f.templates[WorkspaceOf(f.vehicle)]>>

\* snapshotItems, for the vehicle and, when paired, the trailer
Snapshot(f) ==
  IF ActiveTemplate(f) = <<>>
    THEN NoItems
    ELSE [v \in {f.vehicle, f.paired} \ {NoVehicle} |-> [c \in Codes |-> "unset"]]

\* Mutant: the effect runs once, when the first template is there.
RenderedMut(old, f) ==
  IF ActiveTemplate(old) = <<>> \/ f.paired # old.paired
    THEN [f EXCEPT !.items = Snapshot(f)]
    ELSE f

\* The effect that resets the items: its dependencies are the id of the active
\* template and pairedVehicleId.
Rendered(old, f) ==
  IF ActiveTemplate(f) # ActiveTemplate(old) \/ f.paired # old.paired
    THEN [f EXCEPT !.items = Snapshot(f)]
    ELSE f

records == <<checks, raising, defects, call, returned>>

Mount ==
  /\ ~form.open
  /\ form' = [EmptyForm EXCEPT !.open = TRUE, !.loading = TRUE]
  /\ UNCHANGED records

\* The screen is left; what it has sent is sent.
Unmount ==
  /\ form.open
  /\ form' = EmptyForm
  /\ UNCHANGED records

\* loadVehicleCheckAppData answers, with the default templates of the moment; the
\* first vehicle is selected unless one is.
Loaded ==
  /\ form.loading
  /\ \E templates \in [Workspaces -> 0..MaxTemplate] :
       form' = Rendered(form, [form EXCEPT !.loading = FALSE, !.templates = templates,
                                !.vehicle = IF @ = NoVehicle THEN First ELSE @])
  /\ UNCHANGED records

\* Changing the vehicle drops the pairing, in an effect of its own.
SelectVehicle ==
  /\ form.vehicle # NoVehicle
  /\ \E v \in Vehicles \ {form.vehicle} :
       form' = Rendered(form, [form EXCEPT !.vehicle = v, !.paired = NoVehicle])
  /\ UNCHANGED records

\* pairableTrailers
Pairable(v) ==
  IF v \in Vehicles \ Trailers
    THEN {t \in Trailers : WorkspaceOf(t) = WorkspaceOf(v)}
    ELSE {}

SelectPaired ==
  /\ \E t \in (Pairable(form.vehicle) \cup {NoVehicle}) \ {form.paired} :
       form' = Rendered(form, [form EXCEPT !.paired = t])
  /\ UNCHANGED records

Answer ==
  /\ \E i \in Items(form.items), result \in {"ok", "defect"} :
       form' = [form EXCEPT !.items[i[1]][i[2]] = result]
  /\ UNCHANGED records

-------------------------------------------------------------------------------
(***************************************************************************)
(* Submission                                                              *)
(***************************************************************************)

CanSave ==
  /\ form.vehicle # NoVehicle /\ ActiveTemplate(form) # <<>>
  /\ Items(form.items) # {}
  /\ \A i \in Items(form.items) : form.items[i[1]][i[2]] # "unset"

Failed(f) == {i \in Items(f) : f[i[1]][i[2]] = "defect"}

\* Mutant: every defect is raised against the check's own vehicle.
CreateVehicleCheckMut ==
  /\ form.open /\ form.saving = NoCheck /\ CanSave
  /\ Len(checks) < MaxChecks
  /\ checks' = Append(checks, [vehicle |-> form.vehicle, paired |-> form.paired,
                               failed |-> Failed(form.items), stamps |-> DOMAIN form.items])
  /\ raising' = raising \cup
       {[check |-> Len(checks'), item |-> <<form.vehicle, i[2]>>] : i \in Failed(form.items)}
  /\ form' = [form EXCEPT !.saving = Len(checks')]
  /\ UNCHANGED <<defects, call, returned>>

\* saveCheck, createVehicleCheck: the check is inserted; then
\* raiseDefectsFromVehicleCheck issues one insert per failed item.
CreateVehicleCheck ==
  /\ form.open /\ form.saving = NoCheck /\ CanSave
  /\ Len(checks) < MaxChecks
  /\ checks' = Append(checks, [vehicle |-> form.vehicle, paired |-> form.paired,
                               failed |-> Failed(form.items), stamps |-> DOMAIN form.items])
  /\ raising' = raising \cup
       {[check |-> Len(checks'), item |-> i] : i \in Failed(form.items)}
  /\ form' = [form EXCEPT !.saving = Len(checks')]
  /\ UNCHANGED <<defects, call, returned>>

InsertDefect ==
  /\ Len(defects) < MaxDefects
  /\ \E r \in raising :
       /\ raising' = raising \ {r}
       /\ defects' = Append(defects, [check |-> r.check, item |-> r.item, status |-> "open"])
  /\ UNCHANGED <<form, checks, call, returned>>

\* An insert fails: Promise.all rejects, saveCheck shows the error and keeps the
\* form as it is; the other inserts are not called back.
InsertFails ==
  /\ \E r \in raising :
       /\ raising' = raising \ {r}
       /\ form' = IF form.saving = r.check THEN [form EXCEPT !.saving = NoCheck] ELSE form
  /\ UNCHANGED <<checks, defects, call, returned>>

\* Mutant: the inserts are not awaited.
SaveDoneMut ==
  /\ form.saving # NoCheck
  /\ returned' = returned \cup {form.saving}
  /\ form' = Rendered(form, [form EXCEPT !.saving = NoCheck, !.loading = TRUE,
                              !.vehicle = First, !.paired = NoVehicle])
  /\ UNCHANGED <<checks, raising, defects, call>>

\* All inserts are done: resetForm, and the screen's data is loaded again.
SaveDone ==
  /\ form.saving # NoCheck
  /\ \A r \in raising : r.check # form.saving
  /\ returned' = returned \cup {form.saving}
  /\ form' = Rendered(form, [form EXCEPT !.saving = NoCheck, !.loading = TRUE,
                              !.vehicle = First, !.paired = NoVehicle])
  /\ UNCHANGED <<checks, raising, defects, call>>

-------------------------------------------------------------------------------
(***************************************************************************)
(* The defects screen of a manager                                         *)
(***************************************************************************)

IndexOf(status) == CHOOSE i \in 1..4 : STATUS_ORDER[i] = status

NextStatus(status) == STATUS_ORDER[IndexOf(status) + 1]

\* advanceDefectStatus reads the defect ...
AdvanceDefectStatus(m) ==
  /\ call[m] = NoCall
  /\ \E d \in DOMAIN defects :
       /\ defects[d].status # "resolved"
       /\ call' = [call EXCEPT ![m] = [defect |-> d, status |-> NextStatus(defects[d].status)]]
  /\ UNCHANGED <<form, checks, raising, defects, returned>>

\* ... and writes its next status.
WriteStatus(m) ==
  /\ call[m] # NoCall
  /\ defects' = [defects EXCEPT ![call[m].defect].status = call[m].status]
  /\ call' = [call EXCEPT ![m] = NoCall]
  /\ UNCHANGED <<form, checks, raising, returned>>

\* The write fails, or its tab is closed before it.
AbandonStatus(m) ==
  /\ call[m] # NoCall
  /\ call' = [call EXCEPT ![m] = NoCall]
  /\ UNCHANGED <<form, checks, raising, defects, returned>>

Next ==
  \/ Mount \/ Unmount \/ Loaded \/ SelectVehicle \/ SelectPaired \/ Answer
  \/ CreateVehicleCheck \/ InsertDefect \/ InsertFails \/ SaveDone
  \/ \E m \in Managers : AdvanceDefectStatus(m) \/ WriteStatus(m) \/ AbandonStatus(m)

Spec == Init /\ [][Next]_vars

-------------------------------------------------------------------------------

\* Whatever fails or overtakes: a defect stands for a failed item of its check,
\* on that item's vehicle, and no item has two, on its way or raised.
DefectsMatchFailures ==
  /\ \A r \in raising : r.item \in checks[r.check].failed
  /\ \A d \in DOMAIN defects :
       /\ defects[d].item \in checks[defects[d].check].failed
       /\ [check |-> defects[d].check, item |-> defects[d].item] \notin raising
       /\ \A e \in DOMAIN defects :
            defects[d].check = defects[e].check /\ defects[d].item = defects[e].item => d = e

\* A submission that returned has raised a defect for every failed item.
ReturnedIsComplete ==
  \A k \in returned : \A i \in checks[k].failed :
    \E d \in DOMAIN defects : defects[d].check = k /\ defects[d].item = i

\* A check's items, and so its defects, are about vehicles of the workspace the
\* check belongs to, and a paired check's about exactly its two, however the driver
\* went back and forth between vehicles.
ItemsOfTheCheck ==
  \A k \in DOMAIN checks :
    /\ \A v \in checks[k].stamps : WorkspaceOf(v) = WorkspaceOf(checks[k].vehicle)
    /\ checks[k].paired # NoVehicle => checks[k].stamps = {checks[k].vehicle, checks[k].paired}

\* For an unpaired check every item's vehicle is the check's own (domain/types.js,
\* VehicleCheck).  NOT an invariant: between two vehicles of one workspace the
\* items, and their answers, are carried over.
UnpairedIsOwn ==
  \A k \in DOMAIN checks :
    checks[k].paired = NoVehicle => checks[k].stamps = {checks[k].vehicle}

\* "Moves a defect to the NEXT status in the linear workflow only - never skips ahead
\* or goes backward" (defectService.js:68-69).  NOT so: the status is read before it is
\* written, and the write of one manager may come after those of another.
ForwardOnly ==
  [][\A d \in DOMAIN defects :
       defects'[d].status # defects[d].status =>
         /\ defects[d].status # "resolved"
         /\ IndexOf(defects'[d].status) = IndexOf(defects[d].status) + 1]_defects

===============================================================================
