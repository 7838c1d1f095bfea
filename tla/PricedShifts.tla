----------------------------- MODULE PricedShifts -----------------------------
(***************************************************************************)
(* How work is priced: rate card lineages and their append-only versions   *)
(* (services/rateCardService.js), shifts with the exact version pinned to  *)
(* them (shiftService.js), and the loads of per-load shifts                *)
(* (loadService.js).  What an assignment stands for is taken from          *)
(* AssignmentContract, which WorkStructure implements: only its lineage    *)
(* matters here.                                                           *)
(*                                                                         *)
(* A service function is a read step and then one step per write, in the   *)
(* order it awaits them, and may fail at any of them.  The requests of a   *)
(* Promise.all are all sent at once and land in any order, each on its     *)
(* own: when one fails the call rejects, and the others land later, after  *)
(* it or after the calls that follow.  (A write awaited alone has landed   *)
(* when its call ends, or never does.)  Amounts, texts and a lineage's     *)
(* name and archive flag are left out; a load carries instead which save   *)
(* of its shift it was entered in.                                         *)
(***************************************************************************)
EXTENDS Integers, Sequences, FiniteSets

CONSTANTS
  Sessions,        \* callers of the services; one call at a time each
  AssignmentIds, Lineages, ShiftIds, LoadIds,
  MaxDate,         \* bound: the last day considered
  MaxVersion,      \* bound: versions of a lineage
  MaxLoads,        \* bound: loads entered with one save
  MaxSaves         \* bound: saves that carry loads

ASSUME PricingBounds ==
  MaxDate \in Nat /\ MaxVersion \in Nat \ {0} /\ MaxLoads \in Nat /\ MaxSaves \in Nat

Dates      == 1..MaxDate
None       == 0                    \* null: no rate card
NoAssignment == "no assignment"    \* assignmentId: null
KeepLoads  == -1                   \* input.loads === undefined

VARIABLES
  lineageOf,   \* lineageOf[a]: the rate card lineage of assignment a's placement
  lineages,    \* ids of the RateCardLineage rows
  versions,    \* versions[l]: the RateCard rows of lineage l, in the order of insertion
  shifts,      \* shifts[id]: assignment, date, rateCard (a row of its assignment's lineage)
  loads,       \* loads[id]: shift, save, missed
  sent,        \* sent[id]: the inserts of loads on their way
  removing,    \* ids of the removals of loads on their way
  call,        \* call[s]: the service call session s is in the middle of
  known,       \* history, known[id]: how many versions the pin of shift id chose from
  saves        \* history: saves with loads so far

vars == <<lineageOf, lineages, versions, shifts, loads, sent, removing, call, known, saves>>

ShiftRows == [assignment : AssignmentIds \cup {NoAssignment}, date : Dates,
              rateCard : 0..MaxVersion]
RateCardRows == [version : 1..MaxVersion, supersedes : 0..MaxVersion, from : Dates]
\* missed is history: the insert was on its way when a later call read the loads of
\* its shift.
LoadRows  == [shift : ShiftIds, save : 1..MaxSaves, missed : BOOLEAN]

NoCall == [fn |-> "none"]

TypeOK ==
  /\ DOMAIN lineageOf \subseteq AssignmentIds
  /\ \A a \in DOMAIN lineageOf : lineageOf[a] \in Lineages
  /\ lineages \subseteq Lineages
  /\ DOMAIN versions = Lineages
  /\ \A l \in Lineages :
       Len(versions[l]) <= MaxVersion /\ versions[l] \in Seq(RateCardRows)
  /\ DOMAIN shifts \subseteq ShiftIds
  /\ \A i \in DOMAIN shifts : shifts[i] \in ShiftRows /\ i \in DOMAIN known
  /\ DOMAIN loads \subseteq LoadIds
  /\ \A i \in DOMAIN loads : loads[i] \in LoadRows
  /\ DOMAIN sent \subseteq LoadIds /\ \A i \in DOMAIN sent : sent[i] \in LoadRows
  /\ removing \subseteq LoadIds
  /\ saves \in 0..MaxSaves

EmptyTable == [i \in {} |-> i]
Insert(f, id, row) == [i \in DOMAIN f \cup {id} |-> IF i = id THEN row ELSE f[i]]
Remove(f, id) == [i \in DOMAIN f \ {id} |-> f[i]]
\* Repository.update: {...existing, ...patch}
Merge(row, patch) == [k \in DOMAIN row |-> IF k \in DOMAIN patch THEN patch[k] ELSE row[k]]

Init ==
  /\ lineageOf = EmptyTable /\ lineages = {}
  /\ versions = [l \in Lineages |-> <<>>]
  /\ shifts = EmptyTable
  /\ loads = EmptyTable /\ sent = EmptyTable /\ removing = {}
  /\ call = [s \in Sessions |-> NoCall]
  /\ known = EmptyTable /\ saves = 0

Idle(s) == call[s].fn = "none"
Continue(s, c) == call' = [call EXCEPT ![s] = c]
Return(s) == Continue(s, NoCall)

rateVars  == <<lineageOf, lineages, versions>>
shiftVars == <<shifts, known>>
loadVars  == <<loads, sent, removing, saves>>

-------------------------------------------------------------------------------
(***************************************************************************)
(* Rate cards                                                              *)
(***************************************************************************)

\* createAssignment, of which only the lineage of the placement matters here
\* (AssignmentContract): it must exist, its versions need not.
AssignmentCreated ==
  \E a \in AssignmentIds \ DOMAIN lineageOf, l \in lineages :
    /\ lineageOf' = Insert(lineageOf, a, l)
    /\ UNCHANGED <<lineages, versions, shiftVars, loadVars, call>>

Count(l) == Len(versions[l])

\* createSoloWorkContext: a new lineage, its version 1 and an assignment priced
\* by it, in one db.insertAtomic.
CreateSoloWorkContext ==
  \E a \in AssignmentIds \ DOMAIN lineageOf, l \in Lineages \ lineages, d \in Dates :
    /\ lineages' = lineages \cup {l}
    /\ versions' = [versions EXCEPT ![l] = <<[version |-> 1, supersedes |-> None, from |-> d]>>]
    /\ lineageOf' = Insert(lineageOf, a, l)
    /\ UNCHANGED <<shiftVars, loadVars, call>>

\* createRateCard: the lineage row, and then version 1.
CreateRateCard(s) ==
  /\ Idle(s)
  /\ \E l \in Lineages \ lineages, d \in Dates :
       /\ lineages' = lineages \cup {l}
       /\ Continue(s, [fn |-> "insertVersion", lineage |-> l,
                       row |-> [version |-> 1, supersedes |-> None, from |-> d]])
  /\ UNCHANGED <<lineageOf, versions, shiftVars, loadVars>>

\* reviseRateCard's row, given the version it takes for the latest
Revision(l, latest, d) ==
  [version |-> versions[l][latest].version + 1, supersedes |-> latest, from |-> d]

\* reviseRateCard reads all versions.  The latest is the one with the greatest
\* effectiveFrom.
ReviseRateCard(s) ==
  /\ Idle(s)
  /\ \E l \in lineages, d \in Dates :
       /\ Count(l) < MaxVersion
       /\ \E latest \in DOMAIN versions[l] :
            /\ \A v \in DOMAIN versions[l] : versions[l][v].from <= versions[l][latest].from
            /\ d > versions[l][latest].from
            /\ Continue(s, [fn |-> "insertVersion", lineage |-> l,
                            row |-> Revision(l, latest, d)])
  /\ UNCHANGED <<rateVars, shiftVars, loadVars>>

InsertVersion(s) ==
  /\ call[s].fn = "insertVersion" /\ Count(call[s].lineage) < MaxVersion
  /\ versions' = [versions EXCEPT ![call[s].lineage] = Append(@, call[s].row)]
  /\ Return(s)
  /\ UNCHANGED <<lineageOf, lineages, shiftVars, loadVars>>

\* Mutant: the first version in effect, not the latest.
EffectiveMut(l, date) ==
  LET inEffect == {v \in DOMAIN versions[l] : versions[l][v].from <= date}
  IN IF inEffect = {} THEN None
     ELSE CHOOSE v \in inEffect : \A w \in inEffect : versions[l][v].from <= versions[l][w].from

\* resolveEffectiveRateCard
Effective(l, date) ==
  LET inEffect == {v \in DOMAIN versions[l] : versions[l][v].from <= date}
  IN IF inEffect = {} THEN None
     ELSE CHOOSE v \in inEffect : \A w \in inEffect : versions[l][v].from >= versions[l][w].from

\* resolveRateCardIdForContext
RateCardFor(a, date) ==
  IF a = NoAssignment THEN None ELSE Effective(lineageOf[a], date)

VersionsFor(a) == IF a = NoAssignment THEN 0 ELSE Count(lineageOf[a])

-------------------------------------------------------------------------------
(***************************************************************************)
(* Shifts                                                                  *)
(***************************************************************************)

\* Assignments a form may offer, and null
Choices == DOMAIN lineageOf \cup {NoAssignment}

\* Numbers of loads a form may save; KeepLoads for callers without loads.
LoadChoices == {KeepLoads} \cup (IF saves < MaxSaves THEN 0..MaxLoads ELSE {})

\* createShift resolves its rate card ...
CreateShift(s) ==
  /\ Idle(s)
  /\ \E a \in Choices, d \in Dates, n \in LoadChoices :
       Continue(s, [fn |-> "createShift", loads |-> n, seen |-> VersionsFor(a),
                    row |-> [assignment |-> a, date |-> d, rateCard |-> RateCardFor(a, d)]])
  /\ UNCHANGED <<rateVars, shiftVars, loadVars>>

\* After the shift itself is written: replaceLoadsForShift, unless loads were
\* left out.  Its first step is to query the loads to remove.
ThenLoads(s, id, n) ==
  IF n = KeepLoads
    THEN Return(s)
    ELSE Continue(s, [fn |-> "query", shift |-> id, loads |-> n])

\* ... and inserts the row.
InsertShift(s) ==
  /\ call[s].fn = "createShift"
  /\ \E id \in ShiftIds \ DOMAIN shifts :
       /\ shifts' = Insert(shifts, id, call[s].row)
       /\ known' = Insert(known, id, call[s].seen)
       /\ ThenLoads(s, id, call[s].loads)
  /\ UNCHANGED <<rateVars, loadVars>>

\* Mutant: every edit resolves the rate card afresh.
ContextChangedMut(existing, patch) == TRUE

\* updateShift's contextChanged
ContextChanged(existing, patch) == Merge(existing, patch) # existing

\* What updateShift writes: the patch, with a new pin if the context changed.
Resolved(existing, patch) ==
  LET next == Merge(existing, patch)
  IN IF ContextChanged(existing, patch)
       THEN [next EXCEPT !.rateCard = RateCardFor(next.assignment, next.date)]
       ELSE next

\* updateShift reads the shift and resolves; a patch may carry a date, an
\* assignment, both or neither.
UpdateShift(s) ==
  /\ Idle(s)
  /\ \E id \in DOMAIN shifts, n \in LoadChoices :
       LET existing == shifts[id]
       IN \E d \in Dates, a \in Choices, fields \in SUBSET {"date", "assignment"} :
            LET patch == [k \in fields |-> IF k = "date" THEN d ELSE a]
                row   == Resolved(existing, patch)
                written == fields \cup (IF ContextChanged(existing, patch) THEN {"rateCard"} ELSE {})
            IN Continue(s, [fn |-> "updateShift", shift |-> id, loads |-> n,
                            patch |-> [k \in written |-> row[k]],
                            seen |-> VersionsFor(row.assignment)])
  /\ UNCHANGED <<rateVars, shiftVars, loadVars>>

\* Mutant: the row is replaced by the patch.
WriteShiftMut(s) ==
  /\ call[s].fn = "updateShift"
  /\ call[s].shift \in DOMAIN shifts     \* or update throws "not found": Abandon
  /\ shifts' = [shifts EXCEPT ![call[s].shift] = call[s].patch]
  /\ known' = IF "rateCard" \in DOMAIN call[s].patch
                THEN [known EXCEPT ![call[s].shift] = call[s].seen] ELSE known
  /\ ThenLoads(s, call[s].shift, call[s].loads)
  /\ UNCHANGED <<rateVars, loadVars>>

WriteShift(s) ==
  /\ call[s].fn = "updateShift"
  /\ call[s].shift \in DOMAIN shifts     \* or update throws "not found": Abandon
  /\ shifts' = [shifts EXCEPT ![call[s].shift] = Merge(@, call[s].patch)]
  /\ known' = IF "rateCard" \in DOMAIN call[s].patch
                THEN [known EXCEPT ![call[s].shift] = call[s].seen] ELSE known
  /\ ThenLoads(s, call[s].shift, call[s].loads)
  /\ UNCHANGED <<rateVars, loadVars>>

-------------------------------------------------------------------------------
(***************************************************************************)
(* Loads: replaceLoadsForShift and deleteShift, both by way of             *)
(* clearLoadsForShift.                                                     *)
(***************************************************************************)

LoadsOf(id) == {i \in DOMAIN loads : loads[i].shift = id}

Delete == -2     \* in the place of a number of loads: the caller is deleteShift

DeleteShift(s) ==
  /\ Idle(s)
  /\ \E id \in DOMAIN shifts :
       Continue(s, [fn |-> "query", shift |-> id, loads |-> Delete])
  /\ UNCHANGED <<rateVars, shiftVars, loadVars>>

\* The answer to the query; the removals are sent.  Inserts that an earlier call left
\* on their way are not among what is removed.
Missed(rows, id) == [i \in DOMAIN rows |-> [rows[i] EXCEPT !.missed = @ \/ rows[i].shift = id]]

QueryLoads(s) ==
  /\ call[s].fn = "query"
  /\ removing' = removing \cup LoadsOf(call[s].shift)
  /\ sent' = Missed(sent, call[s].shift)
  /\ Continue(s, [fn |-> "clear", shift |-> call[s].shift, loads |-> call[s].loads,
                  ids |-> LoadsOf(call[s].shift)])
  /\ UNCHANGED <<rateVars, shiftVars, loads, saves>>

\* A removal lands, whether its call still waits for it or not.
RemoveLoad ==
  /\ \E i \in removing : removing' = removing \ {i} /\ loads' = Remove(loads, i)
  /\ UNCHANGED <<rateVars, shiftVars, call, sent, saves>>

\* Mutant: the removals are not awaited.
ClearedMut(s) == call[s].fn = "clear"

Cleared(s) == call[s].fn = "clear" /\ call[s].ids \cap removing = {}

\* All removals are done: the inserts of the new loads are sent ...
ClearDone(s) ==
  /\ Cleared(s) /\ call[s].loads # Delete
  /\ saves < MaxSaves
  /\ saves' = saves + 1
  /\ \E ids \in SUBSET (LoadIds \ (DOMAIN loads \cup DOMAIN sent \cup removing)) :
       /\ Cardinality(ids) = call[s].loads
       /\ sent' = [i \in DOMAIN sent \cup ids |->
                    IF i \in ids THEN [shift |-> call[s].shift, save |-> saves', missed |-> FALSE]
                                ELSE sent[i]]
  /\ Continue(s, [fn |-> "insertLoads", shift |-> call[s].shift, save |-> saves'])
  /\ UNCHANGED <<rateVars, shiftVars, loads, removing>>

\* ... an insert lands, whether its call still waits for it or not ...
InsertLoad ==
  /\ \E i \in DOMAIN sent : loads' = Insert(loads, i, sent[i]) /\ sent' = Remove(sent, i)
  /\ UNCHANGED <<rateVars, shiftVars, call, removing, saves>>

\* The inserts that the call still waits for
Awaited(s) ==
  IF call[s].fn = "insertLoads" THEN {i \in DOMAIN sent : sent[i].save = call[s].save} ELSE {}

LoadsDone(s) ==
  /\ call[s].fn = "insertLoads" /\ Awaited(s) = {}
  /\ Return(s) /\ UNCHANGED <<rateVars, shiftVars, loadVars>>

\* ... or, in deleteShift, the shift is removed.
RemoveShift(s) ==
  /\ Cleared(s) /\ call[s].loads = Delete
  /\ shifts' = Remove(shifts, call[s].shift) /\ known' = Remove(known, call[s].shift)
  /\ Return(s) /\ UNCHANGED <<rateVars, loadVars>>

\* A request of the call fails, or its tab is closed.  Some of its inserts are lost;
\* the others, and its removals, stay on their way.
Abandon(s) ==
  /\ ~Idle(s)
  /\ \E lost \in SUBSET Awaited(s) : sent' = [i \in DOMAIN sent \ lost |-> sent[i]]
  /\ Return(s) /\ UNCHANGED <<rateVars, shiftVars, loads, removing, saves>>

Step(s) ==
  \/ CreateRateCard(s) \/ ReviseRateCard(s) \/ InsertVersion(s)
  \/ CreateShift(s) \/ InsertShift(s) \/ UpdateShift(s) \/ WriteShift(s)
  \/ DeleteShift(s) \/ QueryLoads(s) \/ ClearDone(s) \/ LoadsDone(s) \/ RemoveShift(s)
  \/ Abandon(s)

Next ==
  \/ AssignmentCreated \/ CreateSoloWorkContext
  \/ RemoveLoad \/ InsertLoad
  \/ \E s \in Sessions : Step(s)

Spec == Init /\ [][Next]_vars

-------------------------------------------------------------------------------
(***************************************************************************)
(* Properties, for calls that do not overlap (one session) but may fail    *)
(* anywhere.                                                               *)
(***************************************************************************)

\* Version numbers of a lineage are 1, 2, 3 ... and each takes effect strictly
\* after the one before, which it supersedes (reviseRateCard).  So what is in
\* effect is unambiguous, and a shift is pinned to the version that was in effect
\* on its date, in the lineage of its own assignment, among those that existed when
\* its date or assignment was last set: however many edits and later revisions
\* there were.
PinIsEffective ==
  /\ \A l \in Lineages :
       /\ \A v \in DOMAIN versions[l] :
            versions[l][v].version = v /\ versions[l][v].supersedes = v - 1
       /\ \A v, w \in DOMAIN versions[l] : v < w => versions[l][v].from < versions[l][w].from
  /\ \A i \in DOMAIN shifts :
       LET row == shifts[i]
           inEffect == {v \in 1..known[i] : versions[lineageOf[row.assignment]][v].from <= row.date}
       IN IF row.assignment = NoAssignment
            THEN row.rateCard = None
            ELSE row.rateCard = Cardinality(inEffect)

\* Neither a revision nor an edit that leaves date and assignment alone ever
\* changes what a shift is priced by (updateShift's contextChanged).
PricesAreHistory ==
  [][\A i \in DOMAIN shifts \cap DOMAIN shifts' :
       /\ shifts'[i].date = shifts[i].date /\ shifts'[i].assignment = shifts[i].assignment
       => /\ shifts'[i].rateCard = shifts[i].rateCard
          /\ shifts[i].rateCard # None =>
               LET l == lineageOf[shifts[i].assignment]
               IN versions'[l][shifts[i].rateCard] = versions[l][shifts[i].rateCard]]_vars

\* No load outlives its shift, wherever deleteShift fails: loads go first.  And a
\* shift is never paid for the loads of two saves at once, wherever a replacement
\* fails (replaceLoadsForShift clears before it inserts).  The one exception is an
\* insert that a failed save left on its way and that a later save or deletion of the
\* shift missed, because it had not landed when that call read the loads.
LoadsAreOfOneSave ==
  LET due == {i \in DOMAIN loads : ~loads[i].missed}
  IN /\ \A i \in due : loads[i].shift \in DOMAIN shifts
     /\ \A i, j \in due : loads[i].shift = loads[j].shift => loads[i].save = loads[j].save

\* "`input.loads`, when provided (even as `[]`), replaces this shift's Load rows
\* entirely" (shiftService.js:22-23).  NOT an invariant: an insert
\* of a save that failed lands after the retry has cleared the loads, and the shift is
\* paid for both.
ReplacedEntirely ==
  \A i, j \in DOMAIN loads : loads[i].shift = loads[j].shift => loads[i].save = loads[j].save
===============================================================================
