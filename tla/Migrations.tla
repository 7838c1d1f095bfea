------------------------------ MODULE Migrations ------------------------------
(***************************************************************************)
(* What a browser does to its own database before the application starts   *)
(* (storage/bootstrap.js, migrations/*.js): fourteen migrations, each a    *)
(* few passes over a collection, behind a version number.  The version is  *)
(* in localStorage and the rows are in IndexedDB: no transaction covers    *)
(* both, nor two rows, and the tab may be closed between any two writes.   *)
(* The next boot runs the interrupted migration again from its top.        *)
(*                                                                         *)
(* A row is a function from the names of the fields it has, so that        *)
(* "field in row" and a missing field are what they are in the code.       *)
(* Fields that no migration reads are left out.  A pass takes its rows in  *)
(* any order (the code: by id); what it reads for one row is one step.     *)
(***************************************************************************)
EXTENDS Integers, Sequences

CONSTANTS
  Tabs,          \* tabs of one browser
  Installs,      \* what an earlier release may have left: [version, ls, db]
  LegacyShifts,  \* ids of the shifts in hgv-shifts, older than any version
  Revised,       \* shifts whose rates were revised, from their date or before, once pinned
  NewIds,        \* bound: the ids newId returns, in order
  MaxCloses      \* bound: boots that are cut short by closing the tab

ASSUME MigrationBounds == MaxCloses \in Nat /\ Len(NewIds) \in Nat

LastVersion == 14
Null == "null"

Collections == {"workspaces", "people", "memberships", "organisations", "sites",
  "driverProfiles", "engagements", "assignments", "shifts", "rateCards",
  "rateCardLineages", "placements", "complianceProfiles", "vehicles", "checklistTemplates"}

VARIABLES
  version,   \* localStorage SCHEMA_VERSION
  ls,        \* the wt-* collections of localStorage, never written
  db,        \* db[c]: the rows of IndexedDB store c, by id
  tab,       \* tab[t]: where runMigrations is in tab t
  newIds,    \* how many ids newId has returned
  closes     \* boots cut short so far

vars == <<version, ls, db, tab, newIds, closes>>

NoFields == [f \in {} |-> Null]

\* row[f], undefined read as Null: such guards of the code test truth
Get(row, f) == IF f \in DOMAIN row THEN row[f] ELSE Null

\* Mutant: an update replaces the row.
MergeMut(row, patch) == patch

\* {...row, ...patch}
Merge(row, patch) ==
  [f \in DOMAIN row \cup DOMAIN patch |-> IF f \in DOMAIN patch THEN patch[f] ELSE row[f]]

Insert(c, id, row)   == [op |-> "insert", in |-> c, id |-> id, row |-> row]
Update(c, id, patch) == [op |-> "update", in |-> c, id |-> id, row |-> patch]
Skip == <<>>

\* "if (field in row) continue", and otherwise field is added as null
AddField(i, f) ==
  IF f \in DOMAIN i.row THEN Skip ELSE <<Update(i.in, i.id, [g \in {f} |-> Null])>>

RowsOf(c) == {[in |-> c, id |-> id, row |-> db[c][id]] : id \in DOMAIN db[c]}
NewId == NewIds[newIds + 1]

-------------------------------------------------------------------------------
(***************************************************************************)
(* The passes: for a row i, as the pass's getAll found it, the writes it   *)
(* leads to.                                                               *)
(***************************************************************************)

\* 001: the default ComplianceProfile, unless it exists
InitSchema ==
  IF "compliance-default" \in DOMAIN db.complianceProfiles
    THEN Skip
    ELSE <<Insert("complianceProfiles", "compliance-default", NoFields)>>

\* 002: the rows of the demo agency and every legacy shift, each a strict insert
DemoRows == <<
     Insert("people", "p-demo", [archivedAt |-> Null]),
     Insert("workspaces", "ws-demo", [kind |-> "personal", ownerPersonId |-> "p-demo"]),
     Insert("memberships", "m-demo", [archivedAt |-> Null]),
     Insert("driverProfiles", "dp-demo",
       [personId |-> "p-demo", workspaceId |-> "ws-demo", lastUsedAssignmentId |-> Null]),
     Insert("workspaces", "ws-agency", [kind |-> "agency", ownerPersonId |-> Null]),
     Insert("organisations", "o-demo",
       [workspaceId |-> "ws-agency", tradingName |-> "agency", types |-> "agency"]),
     Insert("memberships", "m-agency", [archivedAt |-> Null]),
     Insert("sites", "s-demo",
       [organisationId |-> "o-demo", clientName |-> "logistics", archivedAt |-> Null]),
     Insert("rateCards", "rc-demo",
       [workspaceId |-> "ws-agency", lineageId |-> "rc-demo", effectiveFrom |-> 1]),
     Insert("engagements", "e-demo",
       [providerOrganisationId |-> "o-demo", workspaceId |-> "ws-agency",
        relationshipType |-> "agency_worker"]),
     Insert("placements", "pl-demo",
       [providerOrganisationId |-> "o-demo", siteId |-> "s-demo", rateCardLineageId |-> "rc-demo"]),
     Insert("assignments", "a-demo", [engagementId |-> "e-demo", placementId |-> "pl-demo"]) >>

LegacyShift(id) ==
  <<Insert("shifts", id, [assignmentId |-> "a-demo", date |-> 1, rateCardId |-> "rc-demo"])>>

\* 003: upsert by id
CopyRow(i) ==
  IF i.id \in DOMAIN db[i.in] THEN <<Update(i.in, i.id, i.row)>> ELSE <<Insert(i.in, i.id, i.row)>>

\* 004, three passes
VersionCard(i) ==
  IF Get(i.row, "lineageId") # Null THEN Skip
  ELSE <<Update("rateCards", i.id, [lineageId |-> i.id])>>

LineOfAssignment(i) ==
  LET card == Get(i.row, "rateCardId")
  IN IF Get(i.row, "rateCardLineageId") # Null \/ card = Null THEN Skip
     ELSE <<Update("assignments", i.id,
              [rateCardLineageId |-> IF card \in DOMAIN db.rateCards
                                       THEN db.rateCards[card].lineageId ELSE Null])>>

\* resolveEffectiveRateCard: the versions of a lineage in s that have begun,
VersionsBy(s, lineage, date) ==
  {r \in DOMAIN s.rateCards :
     /\ Get(s.rateCards[r], "lineageId") = lineage /\ s.rateCards[r].effectiveFrom <= date}

\* and the candidates for the one in effect
EffectiveCards(s, lineage, date) ==
  {r \in VersionsBy(s, lineage, date) : \A q \in VersionsBy(s, lineage, date) :
     s.rateCards[q].effectiveFrom <= s.rateCards[r].effectiveFrom}

\* The lineage an old assignment row in s points to, Null if the row is of no use
LineageOf(s, a) ==
  IF a \in DOMAIN s.assignments THEN Get(s.assignments[a], "rateCardLineageId") ELSE Null

PinShift(i) ==
  LET lineage == LineageOf(db, i.row.assignmentId)
      cards == EffectiveCards(db, lineage, i.row.date)
  IN IF \/ Get(i.row, "rateCardId") # Null \/ i.row.assignmentId = Null
        \/ lineage = Null \/ cards = {}
       THEN Skip
       ELSE <<Update("shifts", i.id, [rateCardId |-> CHOOSE r \in cards : TRUE])>>

\* 005, five passes, of which three are AddField
TypeOfOrganisation(i) ==
  LET kind == IF i.row.workspaceId \in DOMAIN db.workspaces
                THEN db.workspaces[i.row.workspaceId].kind ELSE "other"
  IN IF Get(i.row, "types") # Null THEN Skip
     ELSE <<Update("organisations", i.id,
              [types |-> IF kind \in {"agency", "transport_company"} THEN kind ELSE "other"])>>

\* Mutant: the lineage is inserted without looking for it.
LineageRowMut(i) == <<Insert("rateCardLineages", i.id, NoFields)>>

\* i.id is a lineage that occurs among the rate cards
LineageRow(i) ==
  IF i.id \in DOMAIN db.rateCardLineages THEN Skip
  ELSE <<Insert("rateCardLineages", i.id, NoFields)>>

\* 006, two passes
Employer(i) ==
  IF Get(i.row, "employerOrganisationId") # Null THEN Skip
  ELSE <<Update("engagements", i.id, [employerOrganisationId |-> Get(i.row, "organisationId")])>>

\* Mutant: the client organisation is always created.
ClientOrgsMut(workspace, name) == {}

ClientOrgs(workspace, name) ==
  {o \in DOMAIN db.organisations :
     db.organisations[o].workspaceId = workspace /\ db.organisations[o].tradingName = name}

SelfTypes == {"agency", "transport_company"}

ClientOfSite(i) ==
  LET org  == i.row.organisationId
      name == i.row.clientName
      workspace == db.organisations[org].workspaceId
      found == ClientOrgs(workspace, name)
  IN IF \/ name = Null \/ org \notin DOMAIN db.organisations
        \/ Get(db.organisations[org], "types") \notin SelfTypes
       THEN Skip
     ELSE IF found # {}
       THEN <<Update("sites", i.id, [organisationId |-> CHOOSE o \in found : TRUE])>>
       ELSE <<Insert("organisations", NewId,
                [workspaceId |-> workspace, tradingName |-> name, types |-> "client"]),
              Update("sites", i.id, [organisationId |-> NewId])>>

\* 007, second pass
ProfileWorkspace(i) ==
  LET personal == {w \in DOMAIN db.workspaces :
                     /\ db.workspaces[w].kind = "personal"
                     /\ db.workspaces[w].ownerPersonId = i.row.personId}
  IN IF Get(i.row, "workspaceId") # Null \/ personal = {} THEN Skip
     ELSE <<Update("driverProfiles", i.id, [workspaceId |-> CHOOSE w \in personal : TRUE])>>

\* 008, two passes
Provider(i) ==
  LET patch == [providerOrganisationId |-> Get(i.row, "employerOrganisationId"),
                relationshipType |-> Get(i.row, "role")]
      missing == {f \in DOMAIN patch : Get(i.row, f) = Null}
  IN IF missing = {} THEN Skip
     ELSE <<Update("engagements", i.id, [f \in missing |-> patch[f]])>>

\* Mutant: the rate card lineage is left out of the id.
derivePlacementIdMut(provider, site, lineage) == "placement-" \o provider \o "-" \o site

derivePlacementId(provider, site, lineage) ==
  "placement-" \o provider \o "-" \o site \o "-" \o lineage

PlacementOf(i) ==
  LET site == Get(i.row, "siteId")
      line == Get(i.row, "rateCardLineageId")
      provider == Get(db.engagements[i.row.engagementId], "providerOrganisationId")
      id == derivePlacementId(provider, site, line)
      patch == Update("assignments", i.id, [placementId |-> id])
  IN IF \/ Get(i.row, "placementId") # Null \/ site = Null \/ line = Null
        \/ i.row.engagementId \notin DOMAIN db.engagements
       THEN Skip
     ELSE IF id \in DOMAIN db.placements
       THEN <<patch>>
       ELSE <<Insert("placements", id, [providerOrganisationId |-> provider,
                siteId |-> site, rateCardLineageId |-> line]), patch>>

\* 009
DefaultTemplate(i) ==
  IF \E c \in DOMAIN db.checklistTemplates : db.checklistTemplates[c].workspaceId = i.id
    THEN Skip
    ELSE <<Insert("checklistTemplates", NewId, [workspaceId |-> i.id])>>

\* 011
PayType(i) ==
  IF "payType" \in DOMAIN i.row THEN Skip
  ELSE <<Update("rateCardLineages", i.id, [payType |-> "hourly"])>>

\* A pass: what it does, and the collection it runs over
On(does, c) == [does |-> does, over |-> c]

\* COLLECTION_KEYS of 003
Copied == {"workspaces", "people", "memberships", "organisations", "sites", "driverProfiles",
  "engagements", "assignments", "shifts", "rateCards", "complianceProfiles"}

\* The passes of each migration, in order; 012 and 013 have none.
PassesOf == <<
  <<On("init", "complianceProfiles")>>,
  <<On("demo", "none"), On("hgv-shifts", "shifts")>>,
  <<On("copy", "workspaces"), On("copy", "people"), On("copy", "memberships"),
    On("copy", "organisations"), On("copy", "sites"), On("copy", "driverProfiles"),
    On("copy", "engagements"), On("copy", "assignments"), On("copy", "shifts"),
    On("copy", "rateCards"), On("copy", "complianceProfiles")>>,
  <<On("version", "rateCards"), On("line", "assignments"), On("pin", "shifts")>>,
  <<On("type", "organisations"), On("archivedAt", "sites"), On("archivedAt", "memberships"),
    On("lastUsedAssignmentId", "driverProfiles"), On("insert", "rateCardLineages")>>,
  <<On("employer", "engagements"), On("client", "sites")>>,
  <<On("archivedAt", "people"), On("workspace", "driverProfiles")>>,
  <<On("provider", "engagements"), On("placement", "assignments")>>,
  <<On("template", "workspaces")>>,
  <<On("preferredAssignmentId", "driverProfiles")>>,
  <<On("payType", "rateCardLineages")>>,
  <<>>, <<>>,
  <<On("motExpiryDate", "vehicles")>> >>

\* What a pass iterates over: its getAll
Items(p) ==
  CASE p.does \in {"init", "demo"} -> {[in |-> p.over, id |-> p.does, row |-> NoFields]}
    [] p.does = "hgv-shifts" -> {[in |-> p.over, id |-> h, row |-> NoFields] : h \in LegacyShifts}
    [] p.does = "copy" -> {[in |-> p.over, id |-> id, row |-> ls[p.over][id]] :
                             id \in DOMAIN ls[p.over]}
    [] p.does = "insert" -> {[in |-> p.over, id |-> db.rateCards[r].lineageId, row |-> NoFields] :
                               r \in DOMAIN db.rateCards}
    [] OTHER -> RowsOf(p.over)

\* The writes of a pass for row i
WritesOf(does, i) ==
  CASE does = "init" -> InitSchema
    [] does = "demo" -> DemoRows
    [] does = "hgv-shifts" -> LegacyShift(i.id)
    [] does = "copy" -> CopyRow(i)
    [] does = "version" -> VersionCard(i)
    [] does = "line" -> LineOfAssignment(i)
    [] does = "pin" -> PinShift(i)
    [] does = "type" -> TypeOfOrganisation(i)
    [] does = "insert" -> LineageRow(i)
    [] does = "employer" -> Employer(i)
    [] does = "client" -> ClientOfSite(i)
    [] does = "workspace" -> ProfileWorkspace(i)
    [] does = "provider" -> Provider(i)
    [] does = "placement" -> PlacementOf(i)
    [] does = "template" -> DefaultTemplate(i)
    [] does = "payType" -> PayType(i)
    [] OTHER -> AddField(i, does)

-------------------------------------------------------------------------------
(***************************************************************************)
(* runMigrations                                                           *)
(***************************************************************************)

Closed  == [pc |-> "closed", current |-> 0, pass |-> 0, todo |-> {}, writes |-> <<>>]

Init ==
  /\ \E i \in Installs : version = i.version /\ ls = i.ls /\ db = i.db
  /\ tab = [t \in Tabs |-> Closed]
  /\ newIds = 0 /\ closes = 0

Between(t) == tab[t].todo = {} /\ tab[t].writes = <<>>
Passes(t)  == PassesOf[tab[t].current + 1]

\* bootstrapDb, or a reload after a boot that failed
Boot(t) ==
  /\ tab[t].pc \in {"closed", "failed"}
  /\ tab' = [tab EXCEPT ![t] = [Closed EXCEPT !.pc = "next", !.current = version]]
  /\ UNCHANGED <<version, ls, db, newIds, closes>>

NextMigration(t) ==
  /\ tab[t].pc = "next" /\ tab[t].current < LastVersion
  /\ tab' = [tab EXCEPT ![t] = [@ EXCEPT !.pc = "run", !.pass = 0]]
  /\ UNCHANGED <<version, ls, db, newIds, closes>>

NextPass(t) ==
  /\ tab[t].pc = "run" /\ Between(t) /\ tab[t].pass < Len(Passes(t))
  /\ tab' = [tab EXCEPT ![t] = [@ EXCEPT !.pass = tab[t].pass + 1,
                                 !.todo = Items(Passes(t)[tab[t].pass + 1])]]
  /\ UNCHANGED <<version, ls, db, newIds, closes>>

\* The loop's body for one row, up to its first write
Visit(t) ==
  /\ tab[t].pc = "run" /\ tab[t].writes = <<>> /\ newIds < Len(NewIds)
  /\ \E i \in tab[t].todo :
       LET writes == WritesOf(Passes(t)[tab[t].pass].does, i)
       IN /\ tab' = [tab EXCEPT ![t] = [@ EXCEPT !.todo = tab[t].todo \ {i}, !.writes = writes]]
          /\ newIds' = IF \E k \in DOMAIN writes :
                            writes[k].op = "insert" /\ writes[k].id = NewId
                         THEN newIds + 1 ELSE newIds
  /\ UNCHANGED <<version, ls, db, closes>>

\* A write that add or put refuses ends the boot: "storage unavailable".
Write(t) ==
  /\ tab[t].writes # <<>>
  /\ LET w == Head(tab[t].writes)
         rows == db[w.in]
     IN IF (w.op = "insert") = (w.id \in DOMAIN rows)
          THEN tab' = [tab EXCEPT ![t] = [Closed EXCEPT !.pc = "failed"]] /\ UNCHANGED db
          ELSE /\ db' = [db EXCEPT ![w.in] =
                    [id \in DOMAIN rows \cup {w.id} |->
                       IF id # w.id THEN rows[id]
                       ELSE IF w.op = "insert" THEN w.row ELSE Merge(rows[id], w.row)]]
               /\ tab' = [tab EXCEPT ![t].writes = Tail(@)]
  /\ UNCHANGED <<version, ls, newIds, closes>>

\* Mutant: a migration whose pass is cut short counts as done.
FinishMigrationMut(t) ==
  /\ tab[t].pc = "run" /\ tab[t].writes = <<>> /\ tab[t].pass = Len(Passes(t))
  /\ version' = tab[t].current + 1
  /\ tab' = [tab EXCEPT ![t] = [@ EXCEPT !.pc = "next", !.current = version', !.todo = {}]]
  /\ UNCHANGED <<ls, db, newIds, closes>>

\* run() resolved: setItem(SCHEMA_VERSION)
FinishMigration(t) ==
  /\ tab[t].pc = "run" /\ Between(t) /\ tab[t].pass = Len(Passes(t))
  /\ version' = tab[t].current + 1
  /\ tab' = [tab EXCEPT ![t] = [@ EXCEPT !.pc = "next", !.current = version']]
  /\ UNCHANGED <<ls, db, newIds, closes>>

BootDone(t) ==
  /\ tab[t].pc = "next" /\ tab[t].current = LastVersion
  /\ tab' = [tab EXCEPT ![t].pc = "up"]
  /\ UNCHANGED <<version, ls, db, newIds, closes>>

\* The tab is closed; during a boot, only so many times.
Close(t) ==
  /\ tab[t].pc # "closed"
  /\ closes' = IF tab[t].pc \in {"next", "run"} THEN closes + 1 ELSE closes
  /\ closes' <= MaxCloses
  /\ tab' = [tab EXCEPT ![t] = Closed]
  /\ UNCHANGED <<version, ls, db, newIds>>

Step(t) ==
  NextMigration(t) \/ NextPass(t) \/ Visit(t) \/ Write(t) \/ FinishMigration(t) \/ BootDone(t)

Next == \E t \in Tabs : Boot(t) \/ Step(t) \/ Close(t)

Spec == Init /\ [][Next]_vars

\* A boot goes on by itself: nothing in it waits for anything but the database.
FairSpec == Spec /\ \A t \in Tabs : WF_vars(Step(t))

-------------------------------------------------------------------------------
(***************************************************************************)
(* Properties, for one tab at a time, which may be closed at any point of  *)
(* a boot.                                                                 *)
(***************************************************************************)

\* Fields every row of a collection has had since the first release
Always == [assignments |-> {"engagementId"}, shifts |-> {"assignmentId", "date"},
           sites |-> {"organisationId", "clientName"}, organisations |-> {"workspaceId", "tradingName"},
           engagements |-> {"workspaceId"}, driverProfiles |-> {"personId"},
           rateCards |-> {"workspaceId", "effectiveFrom"}]

TypeOK ==
  /\ version \in 0..LastVersion /\ newIds \in 0..Len(NewIds) /\ closes \in 0..MaxCloses
  /\ DOMAIN db = Collections
  /\ \A c \in DOMAIN Always : \A id \in DOMAIN db[c] : Always[c] \subseteq DOMAIN db[c][id]
  /\ \A t \in Tabs :
       /\ tab[t].pc \in {"closed", "next", "run", "up", "failed"}
       /\ tab[t].current \in 0..LastVersion
       /\ tab[t].writes # <<>> => tab[t].pc = "run"

HasFields(rows, fields) == \A id \in DOMAIN rows : fields \subseteq DOMAIN rows[id]
Filled(rows, f) == \A id \in DOMAIN rows : Get(rows[id], f) # Null

\* What the migrations that write promise of the rows s, each from its version on
Initialised(local, s) ==
  "compliance-default" \in DOMAIN s.complianceProfiles \cup DOMAIN local.complianceProfiles
Moved(local, s) == \A c \in Collections : DOMAIN local[c] \subseteq DOMAIN s[c]
CardsVersioned(s) == Filled(s.rateCards, "lineageId")
ShiftsPinned(s) ==
  \A h \in DOMAIN s.shifts :
    LET lineage == LineageOf(s, s.shifts[h].assignmentId)
    IN \/ Get(s.shifts[h], "rateCardId") # Null \/ lineage = Null
       \/ EffectiveCards(s, lineage, s.shifts[h].date) = {}
MasterDataAdded(s) ==
  /\ Filled(s.organisations, "types") /\ HasFields(s.sites, {"archivedAt"})
  /\ HasFields(s.memberships, {"archivedAt"})
  /\ HasFields(s.driverProfiles, {"lastUsedAssignmentId"})
LineagesExist(s) ==
  \A r \in DOMAIN s.rateCards : s.rateCards[r].lineageId \in DOMAIN s.rateCardLineages
ClientsOwnSites(s) ==
  \A x \in DOMAIN s.sites : s.sites[x].clientName # Null =>
    s.organisations[s.sites[x].organisationId].types \notin SelfTypes
ProfilesRefined(s) ==
  HasFields(s.people, {"archivedAt"}) /\ Filled(s.driverProfiles, "workspaceId")
PlacementsAdded(s) ==
  Filled(s.engagements, "providerOrganisationId") /\ Filled(s.assignments, "placementId")
TemplatesAdded(s) ==
  \A w \in DOMAIN s.workspaces :
    \E c \in DOMAIN s.checklistTemplates : s.checklistTemplates[c].workspaceId = w

ShapeOf(v, local, s) ==
  /\ v >= 1 => Initialised(local, s)
  /\ v >= 3 => Moved(local, s)
  /\ v >= 4 => CardsVersioned(s) /\ ShiftsPinned(s)
  /\ v >= 5 => MasterDataAdded(s) /\ LineagesExist(s)
  /\ v >= 6 => ClientsOwnSites(s)
  /\ v >= 7 => ProfilesRefined(s)
  /\ v >= 8 => PlacementsAdded(s)
  /\ v >= 9 => TemplatesAdded(s)
  /\ v >= 10 => HasFields(s.driverProfiles, {"preferredAssignmentId"})
  /\ v >= 11 => HasFields(s.rateCardLineages, {"payType"})
  /\ v >= 14 => HasFields(s.vehicles, {"motExpiryDate"})

\* The version never promises a shape that some row does not have yet, whatever
\* was interrupted: each migration's last write comes before the version's, and
\* a rerun leaves nothing out (runMigrations; the guards of every pass).
VersionTellsShape == ShapeOf(version, ls, db)

NamesOnce(s) ==
  \A o, p \in DOMAIN s.organisations :
    /\ s.organisations[o].workspaceId = s.organisations[p].workspaceId
    /\ s.organisations[o].tradingName = s.organisations[p].tradingName
    => o = p
TemplatesOnce(s) ==
  \A c, d \in DOMAIN s.checklistTemplates :
    s.checklistTemplates[c].workspaceId = s.checklistTemplates[d].workspaceId => c = d
PlacementsOnce(s) == \A p, q \in DOMAIN s.placements : s.placements[p] = s.placements[q] => p = q

Undoubled(s) == NamesOnce(s) /\ TemplatesOnce(s) /\ PlacementsOnce(s)

\* However often a migration is started again, it creates one client organisation
\* per name, one default template per workspace and one placement per
\* configuration, although their ids are new each time.
NothingDoubled == Undoubled(db)

\* What shift h may be pinned to: reviseRateCard leaves alone what is pinned.
Pins(s, h, lineage) ==
  IF h \in Revised THEN VersionsBy(s, lineage, s.shifts[h].date)
  ELSE EffectiveCards(s, lineage, s.shifts[h].date)

Pinned(s) == {h \in DOMAIN s.shifts : Get(s.shifts[h], "rateCardId") # Null}

\* History survives the move of an assignment's data into placements: what a
\* shift is pinned to is still a version that has begun by its date, the one in
\* effect unless the rates were revised since, of the lineage its assignment now
\* reaches through its placement, and the placement is one of the engagement's
\* provider (migrations 004, 006 and 008, with every rerun of them).
ChainsResolve ==
  /\ \A a \in DOMAIN db.assignments :
       LET row == db.assignments[a]
           placement == db.placements[row.placementId]
       IN Get(row, "placementId") # Null =>
            /\ row.placementId \in DOMAIN db.placements
            /\ placement.providerOrganisationId =
                 db.engagements[row.engagementId].providerOrganisationId
            /\ Get(row, "rateCardLineageId") \in {Null, placement.rateCardLineageId}
  /\ version >= 8 =>
       \A h \in Pinned(db) :
         LET row == db.shifts[h]
             placement == db.placements[db.assignments[row.assignmentId].placementId]
         IN row.rateCardId \in Pins(db, h, placement.rateCardLineageId)

\* A boot that has the demo rows behind it ends with the application running,
\* wherever earlier boots were cut short: no rerun ever fails.
UpgradesComplete ==
  \A t \in Tabs : tab[t].pc = "run" /\ tab[t].current >= 2 ~> tab[t].pc \in {"up", "closed"}

\* "Every migration here is written to tolerate that retry (upsert-by-id, not
\* strict insert)" (migrations/index.js): no boot fails.  NOT an invariant:
\* migration 002 inserts strictly.
RetryIsTolerated == \A t \in Tabs : tab[t].pc # "failed"

-------------------------------------------------------------------------------
(***************************************************************************)
(* What an earlier release may have left.  The code takes all of it for    *)
(* granted; the shapes are those its own releases wrote.                   *)
(***************************************************************************)

IsFunction(f) == f = [x \in DOMAIN f |-> f[x]]

\* Stores of rows with an id
IsStore(s) ==
  /\ DOMAIN s = Collections /\ IsFunction(s)
  /\ \A c \in Collections :
       /\ IsFunction(s[c]) /\ Null \notin DOMAIN s[c]
       /\ \A id \in DOMAIN s[c] :
            IsFunction(s[c][id]) /\ (c \in DOMAIN Always => Always[c] \subseteq DOMAIN s[c][id])

Empty == [c \in Collections |-> NoFields]

\* What the passes need to find in s, at version v, in order to fill a field: the
\* site's organisation, which no client has the name of,
SitesRelated(s) ==
  \A x \in DOMAIN s.sites :
    /\ s.sites[x].organisationId \in DOMAIN s.organisations
    /\ s.sites[x].clientName # Null => \A o \in DOMAIN s.organisations :
         /\ s.organisations[o].workspaceId = s.organisations[s.sites[x].organisationId].workspaceId
         /\ s.organisations[o].tradingName = s.sites[x].clientName
         => Get(s.organisations[o], "types") = "client"

\* the driver's personal workspace,
DriversRelated(s) ==
  \A d \in DOMAIN s.driverProfiles :
    \/ Get(s.driverProfiles[d], "workspaceId") # Null
    \/ \E w \in DOMAIN s.workspaces :
         /\ s.workspaces[w].kind = "personal"
         /\ s.workspaces[w].ownerPersonId = s.driverProfiles[d].personId

\* the provider under its name of the time,
EngagementsRelated(v, s) ==
  \A e \in DOMAIN s.engagements :
    \/ Get(s.engagements[e], "providerOrganisationId") # Null
    \/ Get(s.engagements[e], "employerOrganisationId") # Null
    \/ v < 6 /\ Get(s.engagements[e], "organisationId") # Null

\* and of an assignment without placement all that its placement is made of.
AssignmentsRelated(v, s) ==
  \A a \in DOMAIN s.assignments :
    \/ Get(s.assignments[a], "placementId") # Null
    \/ /\ s.assignments[a].engagementId \in DOMAIN s.engagements
       /\ Get(s.assignments[a], "siteId") # Null
       /\ \/ Get(s.assignments[a], "rateCardLineageId") # Null
          \/ v < 4 /\ Get(s.assignments[a], "rateCardId") \in DOMAIN s.rateCards

PlacementsDerived(s) ==
  \/ \A a \in DOMAIN s.assignments : Get(s.assignments[a], "placementId") # Null
  \/ \A p \in DOMAIN s.placements :
       p = derivePlacementId(s.placements[p].providerOrganisationId, s.placements[p].siteId,
                             s.placements[p].rateCardLineageId)

Related(v, s) ==
  /\ SitesRelated(s) /\ DriversRelated(s)
  /\ EngagementsRelated(v, s) /\ AssignmentsRelated(v, s) /\ PlacementsDerived(s)

\* History that can be moved: an assignment with a placement agrees with it, and
\* 004 does not find a line for it again,
AssignmentsPlaced(v, s) ==
  \A a \in DOMAIN s.assignments :
    LET row == s.assignments[a]
        placement == s.placements[row.placementId]
        line == Get(row, "rateCardLineageId")
    IN Get(row, "placementId") # Null =>
         /\ row.placementId \in DOMAIN s.placements /\ row.engagementId \in DOMAIN s.engagements
         /\ placement.providerOrganisationId # Null
         /\ Get(s.engagements[row.engagementId], "providerOrganisationId") =
              placement.providerOrganisationId
         /\ line \in {Null, placement.rateCardLineageId}
         /\ v < 4 => line # Null \/ Get(row, "rateCardId") = Null

\* and a shift is pinned only once the cards are versions, to one of the line its
\* assignment reaches, through its placement if it has one.
LineReached(s, a) ==
  LET row == s.assignments[a]
  IN IF Get(row, "placementId") # Null THEN s.placements[row.placementId].rateCardLineageId
     ELSE Get(row, "rateCardLineageId")

PinsResolve(s) ==
  \A h \in Pinned(s) :
    LET row == s.shifts[h]
    IN /\ row.assignmentId \in DOMAIN s.assignments /\ LineReached(s, row.assignmentId) # Null
       /\ row.rateCardId \in Pins(s, h, LineReached(s, row.assignmentId))

Chained(v, s) ==
  AssignmentsPlaced(v, s) /\ PinsResolve(s) /\ (Pinned(s) # {} => CardsVersioned(s))

\* Until 003 the rows were in localStorage; before 002 there were none but the
\* default of 001.
ASSUME InstallsAreSound ==
  /\ Null \notin LegacyShifts
  /\ \A i \in Installs :
       /\ i.version \in 0..LastVersion /\ IsStore(i.ls) /\ IsStore(i.db)
       /\ ShapeOf(i.version, i.ls, i.db)
       /\ i.version < 2 => \A c \in Collections \ {"complianceProfiles"} : i.ls[c] = NoFields
       /\ i.version < 3 => i.db = Empty
       /\ i.version = 2 => /\ \A c \in Collections \ Copied : i.ls[c] = NoFields
                          /\ Related(2, i.ls) /\ Undoubled(i.ls)
       /\ i.version > 2 => Related(i.version, i.db) /\ Undoubled(i.db)

\* The pins of those rows were right when they were made (rateCardService.js).
ASSUME InstallsAreChained ==
  \A i \in Installs : Chained(i.version, IF i.version < 3 THEN i.ls ELSE i.db)
===============================================================================
