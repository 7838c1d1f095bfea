------------------------- MODULE WorkStructureProofs -------------------------
(***************************************************************************)
(* Theorems about WorkStructure.  Type correctness and referential         *)
(* integrity hold for any number of overlapping calls; that providers stay *)
(* compatible, that closed assignments stay within their engagement and    *)
(* that an assignment's chain is frozen hold when calls with reads do not  *)
(* overlap, which the theorems assume as OneCaller.                        *)
(***************************************************************************)
EXTENDS WorkStructure, TLAPS

OneCaller == \A s, t \in Sessions : s = t

-------------------------------------------------------------------------------

\* A row inserted under a fresh or existing id leaves a table a table.
LEMMA InsertTable ==
  ASSUME NEW f, NEW Ids, NEW Rows, NEW id \in Ids, NEW row \in Rows, Table(f, Ids, Rows)
  PROVE  Table(Insert(f, id, row), Ids, Rows)
BY DEF Table, Insert

\* Every read step only changes the caller's own call, to another call.
LEMMA ReadKeepsTypes ==
  ASSUME TypeOK, NEW s \in Sessions, ReadStep(s)
  PROVE  /\ UNCHANGED <<sites, placements, engagements, assignments>>
         /\ \E c \in Calls : call' = [call EXCEPT ![s] = c]
<1> USE DEF ReadsOnly
<1>1. CASE CreateAssignment(s)
  <2>1. PICK e \in DOMAIN engagements, p \in DOMAIN placements, d \in Dates, end \in Ends :
          call' = [call EXCEPT ![s] =
            [fn |-> "createAssignment",
             row |-> [engagement |-> e, placement |-> p, start |-> d, end |-> end]]]
    BY <1>1 DEF CreateAssignment
  <2>2. [engagement |-> e, placement |-> p, start |-> d, end |-> end] \in AssignmentRows
    BY DEF TypeOK, Table, AssignmentRows
  <2> QED BY <1>1, <2>1, <2>2 DEF CreateAssignment, Calls
<1>2. CASE EndAssignment(s)
  <2>1. PICK a \in DOMAIN assignments, end \in Dates :
          call' = [call EXCEPT ![s] = [fn |-> "endAssignment", id |-> a, end |-> end]]
    BY <1>2 DEF EndAssignment
  <2> QED BY <1>2, <2>1 DEF EndAssignment, TypeOK, Table, Calls
<1>3. CASE EndEngagement(s)
  <2>1. PICK e \in DOMAIN engagements, end \in Dates :
          call' = [call EXCEPT ![s] = [fn |-> "endEngagement", id |-> e, end |-> end]]
    BY <1>3 DEF EndEngagement
  <2> QED BY <1>3, <2>1 DEF EndEngagement, TypeOK, Table, Calls
<1>4. CASE ArchivePlacement(s)
  <2>1. PICK p \in DOMAIN placements :
          call' = [call EXCEPT ![s] = [fn |-> "archivePlacement", id |-> p]]
    BY <1>4 DEF ArchivePlacement
  <2> QED BY <1>4, <2>1 DEF ArchivePlacement, TypeOK, Table, Calls
<1>5. CASE UpdatePlacement(s)
  <2>1. PICK p \in DOMAIN placements, o \in Orgs, t \in DOMAIN sites, l \in Lineages :
          call' = [call EXCEPT ![s] =
            [fn |-> "updatePlacement", id |-> p, provider |-> o, site |-> t, lineage |-> l]]
    BY <1>5 DEF UpdatePlacement
  <2> QED BY <1>5, <2>1 DEF UpdatePlacement, TypeOK, Table, Calls
<1>6. CASE UpdateSite(s)
  <2>1. PICK t \in DOMAIN sites, o \in Orgs :
          IF o = sites[t].org
            THEN call' = [call EXCEPT ![s] = [fn |-> "updateSite", id |-> t, org |-> o]]
            ELSE call' = [call EXCEPT ![s] =
                [fn |-> "siteHistory", id |-> t, org |-> o,
                 placements |-> {p \in DOMAIN placements : placements[p].site = t}]]
    BY <1>6 DEF UpdateSite
  <2>2. {p \in DOMAIN placements : placements[p].site = t} \in SUBSET PlacementIds
    BY DEF TypeOK, Table
  <2>3. t \in SiteIds
    BY DEF TypeOK, Table
  <2>4. [fn |-> "updateSite", id |-> t, org |-> o] \in Calls
    BY <2>3 DEF Calls
  <2>5. [fn |-> "siteHistory", id |-> t, org |-> o,
         placements |-> {p \in DOMAIN placements : placements[p].site = t}] \in Calls
    BY <2>2, <2>3 DEF Calls
  <2> QED BY <1>6, <2>1, <2>4, <2>5 DEF UpdateSite
<1>7. CASE SiteHistory(s)
  <2>1. call[s] \in [fn : {"siteHistory"}, id : SiteIds, org : Orgs, placements : SUBSET PlacementIds]
    BY <1>7 DEF SiteHistory, TypeOK, Calls, NoCall
  <2>2. [fn |-> "updateSite", id |-> call[s].id, org |-> call[s].org] \in Calls
    BY <2>1 DEF Calls
  <2>3. NoCall \in Calls
    BY DEF Calls
  <2> QED BY <1>7, <2>2, <2>3 DEF SiteHistory, Return
<1> QED BY <1>1, <1>2, <1>3, <1>4, <1>5, <1>6, <1>7 DEF ReadStep

\* What kind of record a pending write is, by the function that left it.
LEMMA PendingShape ==
  ASSUME TypeOK, NEW s \in Sessions
  PROVE  /\ call[s].fn = "createAssignment" => call[s].row \in AssignmentRows
         /\ call[s].fn = "endAssignment" =>
              call[s].id \in AssignmentIds /\ call[s].end \in Dates
         /\ call[s].fn = "endEngagement" =>
              call[s].id \in EngagementIds /\ call[s].end \in Dates
         /\ call[s].fn = "archivePlacement" => call[s].id \in PlacementIds
         /\ call[s].fn = "updatePlacement" =>
              /\ call[s].id \in PlacementIds /\ call[s].provider \in Orgs
              /\ call[s].site \in SiteIds /\ call[s].lineage \in Lineages
         /\ call[s].fn = "siteHistory" =>
              /\ call[s].id \in SiteIds /\ call[s].org \in Orgs
              /\ call[s].placements \in SUBSET PlacementIds
         /\ call[s].fn = "updateSite" => call[s].id \in SiteIds /\ call[s].org \in Orgs
BY DEF TypeOK, Calls, NoCall

\* A solo work context is four new rows that refer to each other.
LEMMA SoloRows ==
  ASSUME TypeOK, CreateSoloWorkContext
  PROVE  /\ Table(sites', SiteIds, SiteRows)
         /\ Table(placements', PlacementIds, PlacementRows)
         /\ Table(engagements', EngagementIds, EngagementRows)
         /\ Table(assignments', AssignmentIds, AssignmentRows)
         /\ UNCHANGED call
         /\ \E t \in SiteIds \ DOMAIN sites, p \in PlacementIds \ DOMAIN placements,
               e \in EngagementIds \ DOMAIN engagements, a \in AssignmentIds \ DOMAIN assignments :
              /\ DOMAIN sites' = DOMAIN sites \cup {t}
              /\ \A i \in DOMAIN sites : sites'[i] = sites[i]
              /\ DOMAIN placements' = DOMAIN placements \cup {p}
              /\ \A i \in DOMAIN placements : placements'[i] = placements[i]
              /\ DOMAIN engagements' = DOMAIN engagements \cup {e}
              /\ \A i \in DOMAIN engagements : engagements'[i] = engagements[i]
              /\ DOMAIN assignments' = DOMAIN assignments \cup {a}
              /\ \A i \in DOMAIN assignments : assignments'[i] = assignments[i]
              /\ assignments'[a].engagement = e /\ assignments'[a].placement = p
              /\ assignments'[a].end = Open
              /\ placements'[p].site = t
              /\ engagements'[e].provider = placements'[p].provider
<1>1. PICK t \in SiteIds \ DOMAIN sites, p \in PlacementIds \ DOMAIN placements,
           e \in EngagementIds \ DOMAIN engagements, a \in AssignmentIds \ DOMAIN assignments,
           provider \in Orgs, client \in Orgs, l \in Lineages, d \in Dates :
        /\ sites' = Insert(sites, t, [org |-> client])
        /\ placements' = Insert(placements, p,
             [provider |-> provider, site |-> t, lineage |-> l, from |-> d, to |-> Open,
              archived |-> FALSE])
        /\ engagements' = Insert(engagements, e,
             [provider |-> provider, start |-> d, end |-> Open])
        /\ assignments' = Insert(assignments, a,
             [engagement |-> e, placement |-> p, start |-> d, end |-> Open])
        /\ UNCHANGED call
  BY DEF CreateSoloWorkContext
<1>2. /\ [org |-> client] \in SiteRows
      /\ [provider |-> provider, site |-> t, lineage |-> l, from |-> d, to |-> Open,
          archived |-> FALSE] \in PlacementRows
      /\ [provider |-> provider, start |-> d, end |-> Open] \in EngagementRows
      /\ [engagement |-> e, placement |-> p, start |-> d, end |-> Open] \in AssignmentRows
  BY DEF SiteRows, PlacementRows, EngagementRows, AssignmentRows, Ends
<1>3. Table(sites', SiteIds, SiteRows)
  BY <1>1, <1>2, InsertTable DEF TypeOK
<1>4. Table(placements', PlacementIds, PlacementRows)
  BY <1>1, <1>2, InsertTable DEF TypeOK
<1>5. Table(engagements', EngagementIds, EngagementRows)
  BY <1>1, <1>2, InsertTable DEF TypeOK
<1>6. Table(assignments', AssignmentIds, AssignmentRows)
  BY <1>1, <1>2, InsertTable DEF TypeOK
<1>7. /\ DOMAIN sites' = DOMAIN sites \cup {t}
      /\ \A i \in DOMAIN sites : sites'[i] = sites[i]
  BY <1>1 DEF Insert
<1>8. /\ DOMAIN placements' = DOMAIN placements \cup {p}
      /\ \A i \in DOMAIN placements : placements'[i] = placements[i]
      /\ placements'[p].site = t /\ placements'[p].provider = provider
  BY <1>1 DEF Insert
<1>9. /\ DOMAIN engagements' = DOMAIN engagements \cup {e}
      /\ \A i \in DOMAIN engagements : engagements'[i] = engagements[i]
      /\ engagements'[e].provider = provider
  BY <1>1 DEF Insert
<1>10. /\ DOMAIN assignments' = DOMAIN assignments \cup {a}
       /\ \A i \in DOMAIN assignments : assignments'[i] = assignments[i]
       /\ assignments'[a].engagement = e /\ assignments'[a].placement = p
       /\ assignments'[a].end = Open
  BY <1>1 DEF Insert
<1> QED BY <1>1, <1>3, <1>4, <1>5, <1>6, <1>7, <1>8, <1>9, <1>10

\* Type correctness, for any number of overlapping calls: in particular no
\* write puts a null where a date belongs and no call leaves half a record.
THEOREM TypeCorrect == Spec => []TypeOK
<1>1. Init => TypeOK
  BY DEF Init, TypeOK, Table, EmptyTable, Calls
<1>2. ASSUME TypeOK, [Next]_vars PROVE TypeOK'
  <2>1. CASE UNCHANGED vars
    BY <1>2, <2>1 DEF TypeOK, vars, Table
  <2>2. CASE DirectWrite
    <3>1. CASE CreateSite
      <4>1. PICK id \in SiteIds, o \in Orgs : sites' = Insert(sites, id, [org |-> o])
        BY <3>1 DEF CreateSite
      <4>2. Table(sites', SiteIds, SiteRows)
        BY <1>2, <4>1, InsertTable DEF TypeOK, SiteRows
      <4> QED BY <1>2, <3>1, <4>2 DEF CreateSite, TypeOK
    <3>2. CASE CreatePlacement
      <4>1. PICK id \in PlacementIds, p \in Orgs, t \in DOMAIN sites, l \in Lineages, d \in Dates :
              placements' = Insert(placements, id,
                [provider |-> p, site |-> t, lineage |-> l, from |-> d, to |-> Open,
                 archived |-> FALSE])
        BY <3>2 DEF CreatePlacement
      <4>2. [provider |-> p, site |-> t, lineage |-> l, from |-> d, to |-> Open,
             archived |-> FALSE] \in PlacementRows
        BY <1>2 DEF TypeOK, Table, PlacementRows, Ends
      <4>3. Table(placements', PlacementIds, PlacementRows)
        BY <1>2, <4>1, <4>2, InsertTable DEF TypeOK
      <4> QED BY <1>2, <3>2, <4>3 DEF CreatePlacement, TypeOK
    <3>3. CASE UpdatePlacementDates
      BY <1>2, <3>3 DEF UpdatePlacementDates, TypeOK, Table, PlacementRows
    <3>4. CASE RestorePlacement
      BY <1>2, <3>4 DEF RestorePlacement, TypeOK, Table, PlacementRows
    <3>5. CASE CreateEngagement
      <4>1. PICK id \in EngagementIds, p \in Orgs, d \in Dates :
              engagements' = Insert(engagements, id, [provider |-> p, start |-> d, end |-> Open])
        BY <3>5 DEF CreateEngagement
      <4>2. Table(engagements', EngagementIds, EngagementRows)
        BY <1>2, <4>1, InsertTable DEF TypeOK, EngagementRows, Ends
      <4> QED BY <1>2, <3>5, <4>2 DEF CreateEngagement, TypeOK
    <3> QED BY <2>2, <3>1, <3>2, <3>3, <3>4, <3>5 DEF DirectWrite
  <2>5. CASE CreateSoloWorkContext
    BY <1>2, <2>5, SoloRows DEF TypeOK
  <2>3. ASSUME NEW s \in Sessions, ReadStep(s) PROVE TypeOK'
    BY <1>2, <2>3, ReadKeepsTypes DEF TypeOK, Table
  <2>4. ASSUME NEW s \in Sessions, WriteStep(s) PROVE TypeOK'
    <3>1. CASE InsertAssignment(s)
      <4>1. PICK id \in AssignmentIds : assignments' = Insert(assignments, id, call[s].row)
        BY <3>1 DEF InsertAssignment
      <4>2. Table(assignments', AssignmentIds, AssignmentRows)
        BY <1>2, <3>1, <4>1, InsertTable, PendingShape DEF TypeOK, InsertAssignment
      <4> QED BY <1>2, <3>1, <4>2 DEF InsertAssignment, TypeOK, Return, Calls
    <3>2. CASE WriteAssignmentEnd(s)
      <4>1. call[s].end \in Ends
        BY <1>2, <3>2, PendingShape DEF WriteAssignmentEnd, Ends
      <4>2. Table(assignments', AssignmentIds, AssignmentRows)
        BY <1>2, <3>2, <4>1 DEF WriteAssignmentEnd, TypeOK, Table, AssignmentRows
      <4> QED BY <1>2, <3>2, <4>2 DEF WriteAssignmentEnd, TypeOK, Return, Calls
    <3>3. CASE WriteEngagementEnd(s)
      <4>1. call[s].end \in Ends
        BY <1>2, <3>3, PendingShape DEF WriteEngagementEnd, Ends
      <4>2. Table(engagements', EngagementIds, EngagementRows)
        BY <1>2, <3>3, <4>1 DEF WriteEngagementEnd, TypeOK, Table, EngagementRows
      <4> QED BY <1>2, <3>3, <4>2 DEF WriteEngagementEnd, TypeOK, Return, Calls
    <3>4. CASE WritePlacementArchived(s)
      <4>1. Table(placements', PlacementIds, PlacementRows)
        BY <1>2, <3>4 DEF WritePlacementArchived, TypeOK, Table, PlacementRows
      <4> QED BY <1>2, <3>4, <4>1 DEF WritePlacementArchived, TypeOK, Return, Calls
    <3>5. CASE WritePlacement(s)
      <4>1. Table(placements', PlacementIds, PlacementRows)
        BY <1>2, <3>5, PendingShape DEF WritePlacement, TypeOK, Table, PlacementRows
      <4> QED BY <1>2, <3>5, <4>1 DEF WritePlacement, TypeOK, Return, Calls
    <3>6. CASE WriteSite(s)
      <4>1. Table(sites', SiteIds, SiteRows)
        BY <1>2, <3>6, PendingShape DEF WriteSite, TypeOK, Table, SiteRows
      <4> QED BY <1>2, <3>6, <4>1 DEF WriteSite, TypeOK, Return, Calls
    <3>7. CASE Abandon(s)
      BY <1>2, <3>7 DEF Abandon, ReadsOnly, TypeOK, Return, Calls, Table
    <3> QED BY <2>4, <3>1, <3>2, <3>3, <3>4, <3>5, <3>6, <3>7 DEF WriteStep
  <2> QED BY <1>2, <2>1, <2>2, <2>3, <2>4, <2>5 DEF Next
<1> QED BY <1>1, <1>2, PTL DEF Spec

-------------------------------------------------------------------------------
(***************************************************************************)
(* The inductive invariant.  The properties relate rows that were checked  *)
(* against each other before an await and written after it; the invariant  *)
(* adds what a pending call may still assume of the rows it has read.      *)
(***************************************************************************)

Linked ==
  /\ \A p \in DOMAIN placements : placements[p].site \in DOMAIN sites
  /\ \A a \in DOMAIN assignments :
       /\ assignments[a].engagement \in DOMAIN engagements
       /\ assignments[a].placement \in DOMAIN placements

\* An end date given under engagement e fits it.
EndFits(end, e) == end # Open /\ engagements[e].end # Open => end <= engagements[e].end

FreshAssignment(s) ==
  call[s].fn = "createAssignment" =>
    LET row == call[s].row
    IN /\ row.engagement \in DOMAIN engagements
       /\ row.placement \in DOMAIN placements
       /\ engagements[row.engagement].provider = placements[row.placement].provider
       /\ EndFits(row.end, row.engagement)

FreshEnds(s) ==
  /\ call[s].fn = "endAssignment" =>
       /\ call[s].id \in DOMAIN assignments
       /\ EndFits(call[s].end, assignments[call[s].id].engagement)
  /\ call[s].fn = "endEngagement" =>
       /\ call[s].id \in DOMAIN engagements
       /\ \A a \in DOMAIN assignments : assignments[a].engagement = call[s].id =>
            assignments[a].end # Open /\ assignments[a].end <= call[s].end

FreshLocks(s) ==
  /\ call[s].fn = "updatePlacement" =>
       /\ call[s].id \in DOMAIN placements
       /\ call[s].site \in DOMAIN sites /\ ~HasHistory(call[s].id)
  /\ call[s].fn = "siteHistory" =>
       /\ call[s].id \in DOMAIN sites
       /\ \A p \in DOMAIN placements \ call[s].placements :
            placements[p].site = call[s].id => ~HasHistory(p)
  /\ call[s].fn = "updateSite" =>
       /\ call[s].id \in DOMAIN sites
       /\ \/ sites[call[s].id].org = call[s].org
          \/ \A p \in DOMAIN placements : placements[p].site = call[s].id => ~HasHistory(p)

Fresh == \A s \in Sessions : FreshAssignment(s) /\ FreshEnds(s) /\ FreshLocks(s)

Data == Linked /\ ProviderCompatible /\ ClosedWithinEngagement

IInv == TypeOK /\ Data /\ Fresh

\* The direct writes add rows and change dates and flags; what the other rows
\* say about parents stays.
LEMMA DirectWritesExtend ==
  ASSUME TypeOK, Linked, DirectWrite
  PROVE  /\ UNCHANGED <<assignments, call>>
         /\ DOMAIN sites \subseteq DOMAIN sites'
         /\ \A t \in DOMAIN sites : sites'[t] = sites[t]
         /\ DOMAIN engagements \subseteq DOMAIN engagements'
         /\ \A e \in DOMAIN engagements : engagements'[e] = engagements[e]
         /\ DOMAIN placements \subseteq DOMAIN placements'
         /\ \A p \in DOMAIN placements :
              /\ placements'[p].provider = placements[p].provider
              /\ placements'[p].site = placements[p].site
              /\ placements'[p].lineage = placements[p].lineage
         /\ \A p \in DOMAIN placements' : placements'[p].site \in DOMAIN sites'
<1>1. CASE CreateSite
  BY <1>1 DEF CreateSite, Insert, Linked
<1>2. CASE CreatePlacement
  BY <1>2 DEF CreatePlacement, Insert, Linked
<1>3. CASE UpdatePlacementDates
  <2>1. PICK p \in DOMAIN placements, d \in Dates, e \in Ends :
          placements' = [placements EXCEPT ![p].from = d, ![p].to = e]
    BY <1>3 DEF UpdatePlacementDates
  <2>2. placements[p] \in PlacementRows
    BY DEF TypeOK, Table
  <2>3. /\ DOMAIN placements' = DOMAIN placements
        /\ \A q \in DOMAIN placements : q # p => placements'[q] = placements[q]
        /\ placements'[p].provider = placements[p].provider
        /\ placements'[p].site = placements[p].site
        /\ placements'[p].lineage = placements[p].lineage
    BY <2>1, <2>2 DEF PlacementRows, TypeOK, Table
  <2> QED BY <1>3, <2>3 DEF UpdatePlacementDates, Linked
<1>4. CASE RestorePlacement
  <2>1. PICK p \in DOMAIN placements : placements' = [placements EXCEPT ![p].archived = FALSE]
    BY <1>4 DEF RestorePlacement
  <2>2. placements[p] \in PlacementRows
    BY DEF TypeOK, Table
  <2>3. /\ DOMAIN placements' = DOMAIN placements
        /\ \A q \in DOMAIN placements : q # p => placements'[q] = placements[q]
        /\ placements'[p].provider = placements[p].provider
        /\ placements'[p].site = placements[p].site
        /\ placements'[p].lineage = placements[p].lineage
    BY <2>1, <2>2 DEF PlacementRows, TypeOK, Table
  <2> QED BY <1>4, <2>3 DEF RestorePlacement, Linked
<1>5. CASE CreateEngagement
  BY <1>5 DEF CreateEngagement, Insert, Linked
<1> QED BY <1>1, <1>2, <1>3, <1>4, <1>5 DEF DirectWrite

LEMMA DirectWriteKeepsData ==
  ASSUME TypeOK, Data, Fresh, DirectWrite
  PROVE  Data' /\ Fresh'
<1> USE DirectWritesExtend
<1>1. Linked'
  BY DEF Data, Linked
<1>2. ProviderCompatible'
  BY DEF Data, Linked, ProviderCompatible
<1>3. ClosedWithinEngagement'
  BY DEF Data, Linked, ClosedWithinEngagement
<1>4. \A p : HasHistory(p)' <=> HasHistory(p)
  BY DEF Data, HasHistory
<1>5. \A p : HasHistory(p) => p \in DOMAIN placements
  BY DEF Data, Linked, HasHistory
<1>6. ASSUME NEW s \in Sessions PROVE FreshAssignment(s)'
  BY <1>6 DEF Data, Fresh, FreshAssignment, EndFits
<1>7. ASSUME NEW s \in Sessions PROVE FreshEnds(s)'
  BY <1>7 DEF Data, Linked, Fresh, FreshEnds, EndFits
<1>8. ASSUME NEW s \in Sessions PROVE FreshLocks(s)'
  BY <1>4, <1>5, <1>8 DEF Data, Fresh, FreshLocks
<1> QED BY <1>1, <1>2, <1>3, <1>6, <1>7, <1>8 DEF Data, Fresh

LEMMA SoloKeepsData ==
  ASSUME TypeOK, Data, Fresh, CreateSoloWorkContext
  PROVE  Data' /\ Fresh'
<1>1. PICK t \in SiteIds \ DOMAIN sites, p \in PlacementIds \ DOMAIN placements,
           e \in EngagementIds \ DOMAIN engagements, a \in AssignmentIds \ DOMAIN assignments :
        /\ DOMAIN sites' = DOMAIN sites \cup {t}
        /\ \A i \in DOMAIN sites : sites'[i] = sites[i]
        /\ DOMAIN placements' = DOMAIN placements \cup {p}
        /\ \A i \in DOMAIN placements : placements'[i] = placements[i]
        /\ DOMAIN engagements' = DOMAIN engagements \cup {e}
        /\ \A i \in DOMAIN engagements : engagements'[i] = engagements[i]
        /\ DOMAIN assignments' = DOMAIN assignments \cup {a}
        /\ \A i \in DOMAIN assignments : assignments'[i] = assignments[i]
        /\ assignments'[a].engagement = e /\ assignments'[a].placement = p
        /\ assignments'[a].end = Open
        /\ placements'[p].site = t
        /\ engagements'[e].provider = placements'[p].provider
  BY SoloRows
<1>2. UNCHANGED call
  BY SoloRows
<1>3. Linked
  BY DEF Data
<1>4. Linked'
  BY <1>1, <1>3 DEF Linked
<1>5. ProviderCompatible'
  BY <1>1, <1>3 DEF Data, Linked, ProviderCompatible
<1>6. ClosedWithinEngagement'
  BY <1>1, <1>3 DEF Data, Linked, ClosedWithinEngagement
<1>7. \A i \in DOMAIN placements : HasHistory(i)' <=> HasHistory(i)
  BY <1>1 DEF HasHistory
<1>8. ASSUME NEW s \in Sessions PROVE FreshAssignment(s)'
  BY <1>1, <1>2, <1>8 DEF Fresh, FreshAssignment, EndFits
<1>9. ASSUME NEW s \in Sessions PROVE FreshEnds(s)'
  <2>1. FreshEnds(s)
    BY DEF Fresh
  <2>2. call[s].fn = "endAssignment" =>
          /\ call[s].id \in DOMAIN assignments'
          /\ assignments'[call[s].id].engagement \in DOMAIN engagements
          /\ EndFits(call[s].end, assignments[call[s].id].engagement)
          /\ assignments'[call[s].id].engagement = assignments[call[s].id].engagement
    BY <1>1, <1>3, <2>1 DEF FreshEnds, Linked
  <2>3. call[s].fn = "endEngagement" =>
          /\ call[s].id \in DOMAIN engagements'
          /\ \A i \in DOMAIN assignments' : assignments'[i].engagement = call[s].id =>
               assignments'[i].end # Open /\ assignments'[i].end <= call[s].end
    BY <1>1, <2>1 DEF FreshEnds
  <2> QED BY <1>1, <1>2, <2>2, <2>3 DEF FreshEnds, EndFits
<1>10. ASSUME NEW s \in Sessions PROVE FreshLocks(s)'
  <2>1. FreshLocks(s)
    BY DEF Fresh
  <2>2. \A i \in DOMAIN sites : ~ placements'[p].site = i
    BY <1>1
  <2> QED BY <1>1, <1>2, <1>7, <2>1, <2>2 DEF FreshLocks
<1> QED BY <1>4, <1>5, <1>6, <1>8, <1>9, <1>10 DEF Data, Fresh

\* What a read step finds is still true right after it.
LEMMA ReadIsFresh ==
  ASSUME TypeOK, Data, Fresh, NEW s \in Sessions, ReadStep(s)
  PROVE  FreshAssignment(s)' /\ FreshEnds(s)' /\ FreshLocks(s)'
<1>1. UNCHANGED <<sites, placements, engagements, assignments>>
  BY ReadKeepsTypes
<1> DEFINE c == call'[s]
<1>2. \A p : HasHistory(p)' <=> HasHistory(p)
  BY <1>1 DEF HasHistory
<1>3. s \in DOMAIN call
  BY DEF TypeOK
<1>4. CASE CreateAssignment(s)
  <2>1. PICK e \in DOMAIN engagements, p \in DOMAIN placements, d \in Dates, end \in Ends :
          /\ Assignable(e, p, d, end)
          /\ call' = [call EXCEPT ![s] =
               [fn |-> "createAssignment",
                row |-> [engagement |-> e, placement |-> p, start |-> d, end |-> end]]]
    BY <1>4 DEF CreateAssignment
  <2>2. /\ c.fn = "createAssignment"
        /\ c.row = [engagement |-> e, placement |-> p, start |-> d, end |-> end]
    BY <1>3, <2>1
  <2> QED BY <1>1, <2>1, <2>2
          DEF FreshAssignment, FreshEnds, FreshLocks, EndFits, Assignable, DatesFit
<1>5. CASE EndAssignment(s)
  <2>1. PICK a \in DOMAIN assignments, end \in Dates :
          /\ DatesFit(engagements[assignments[a].engagement],
                      placements[assignments[a].placement], assignments[a].start, end)
          /\ call' = [call EXCEPT ![s] = [fn |-> "endAssignment", id |-> a, end |-> end]]
    BY <1>5 DEF EndAssignment
  <2>2. c.fn = "endAssignment" /\ c.id = a /\ c.end = end
    BY <1>3, <2>1
  <2> QED BY <1>1, <2>1, <2>2 DEF FreshAssignment, FreshEnds, FreshLocks, EndFits, DatesFit
<1>6. CASE EndEngagement(s)
  <2>1. PICK e \in DOMAIN engagements, end \in Dates :
          /\ \A a \in DOMAIN assignments : assignments[a].engagement = e =>
               assignments[a].end # Open /\ assignments[a].end <= end
          /\ call' = [call EXCEPT ![s] = [fn |-> "endEngagement", id |-> e, end |-> end]]
    BY <1>6 DEF EndEngagement
  <2>2. c.fn = "endEngagement" /\ c.id = e /\ c.end = end
    BY <1>3, <2>1
  <2> QED BY <1>1, <2>1, <2>2 DEF FreshAssignment, FreshEnds, FreshLocks
<1>7. CASE ArchivePlacement(s)
  <2>1. c.fn = "archivePlacement"
    BY <1>3, <1>7 DEF ArchivePlacement
  <2> QED BY <2>1 DEF FreshAssignment, FreshEnds, FreshLocks
<1>8. CASE UpdatePlacement(s)
  <2>1. PICK p \in DOMAIN placements, o \in Orgs, t \in DOMAIN sites, l \in Lineages :
          /\ ~HasHistory(p)
          /\ call' = [call EXCEPT ![s] =
               [fn |-> "updatePlacement", id |-> p, provider |-> o, site |-> t, lineage |-> l]]
    BY <1>8 DEF UpdatePlacement
  <2>2. c.fn = "updatePlacement" /\ c.id = p /\ c.site = t
    BY <1>3, <2>1
  <2> QED BY <1>1, <1>2, <2>1, <2>2 DEF FreshAssignment, FreshEnds, FreshLocks
<1>9. CASE UpdateSite(s)
  <2>1. PICK t \in DOMAIN sites, o \in Orgs :
          IF o = sites[t].org
            THEN call' = [call EXCEPT ![s] = [fn |-> "updateSite", id |-> t, org |-> o]]
            ELSE call' = [call EXCEPT ![s] =
                [fn |-> "siteHistory", id |-> t, org |-> o,
                 placements |-> {p \in DOMAIN placements : placements[p].site = t}]]
    BY <1>9 DEF UpdateSite
  <2>2. CASE o = sites[t].org
    <3>1. c.fn = "updateSite" /\ c.id = t /\ c.org = o
      BY <1>3, <2>1, <2>2
    <3> QED BY <1>1, <2>2, <3>1 DEF FreshAssignment, FreshEnds, FreshLocks
  <2>3. CASE o # sites[t].org
    <3>1. /\ c.fn = "siteHistory" /\ c.id = t
          /\ c.placements = {p \in DOMAIN placements : placements[p].site = t}
      BY <1>3, <2>1, <2>3
    <3> QED BY <1>1, <3>1 DEF FreshAssignment, FreshEnds, FreshLocks
  <2> QED BY <2>2, <2>3
<1>10. CASE SiteHistory(s)
  <2>1. CASE \E p \in call[s].placements : HasHistory(p)
    BY <1>3, <1>10, <2>1
       DEF SiteHistory, Return, NoCall, FreshAssignment, FreshEnds, FreshLocks
  <2>2. CASE ~ \E p \in call[s].placements : HasHistory(p)
    <3>1. c.fn = "updateSite" /\ c.id = call[s].id
      BY <1>3, <1>10, <2>2 DEF SiteHistory
    <3>2. /\ call[s].id \in DOMAIN sites
          /\ \A p \in DOMAIN placements : placements[p].site = call[s].id => ~HasHistory(p)
      BY <1>10, <2>2 DEF SiteHistory, Fresh, FreshLocks
    <3> QED BY <1>1, <1>2, <3>1, <3>2 DEF FreshAssignment, FreshEnds, FreshLocks
  <2> QED BY <2>1, <2>2
<1> QED BY <1>4, <1>5, <1>6, <1>7, <1>8, <1>9, <1>10 DEF ReadStep

\* A write, made while what its call has read still holds, keeps the data right.
LEMMA WriteKeepsData ==
  ASSUME TypeOK, Data, Fresh, NEW s \in Sessions, WriteStep(s)
  PROVE  Data'
<1> USE DEF Data
<1>1. CASE InsertAssignment(s)
  <2>1. PICK id \in AssignmentIds \ DOMAIN assignments :
          assignments' = Insert(assignments, id, call[s].row)
    BY <1>1 DEF InsertAssignment
  <2>2. UNCHANGED <<sites, placements, engagements>> /\ call[s].fn = "createAssignment"
    BY <1>1 DEF InsertAssignment
  <2>3. /\ DOMAIN assignments' = DOMAIN assignments \cup {id}
        /\ assignments'[id] = call[s].row
        /\ \A a \in DOMAIN assignments : assignments'[a] = assignments[a]
    BY <2>1 DEF Insert
  <2>4. FreshAssignment(s)
    BY DEF Fresh
  <2>5. Linked'
    BY <2>2, <2>3, <2>4 DEF Linked, FreshAssignment
  <2>6. ProviderCompatible'
    BY <2>2, <2>3, <2>4 DEF ProviderCompatible, FreshAssignment
  <2>7. ClosedWithinEngagement'
    BY <2>2, <2>3, <2>4 DEF ClosedWithinEngagement, FreshAssignment, EndFits
  <2> QED BY <2>5, <2>6, <2>7
<1>2. CASE WriteAssignmentEnd(s)
  <2> DEFINE id == call[s].id
  <2>1. /\ assignments' = [assignments EXCEPT ![id].end = call[s].end]
        /\ UNCHANGED <<sites, placements, engagements>> /\ call[s].fn = "endAssignment"
    BY <1>2 DEF WriteAssignmentEnd
  <2>2. id \in DOMAIN assignments /\ EndFits(call[s].end, assignments[id].engagement)
    BY <2>1 DEF Fresh, FreshEnds
  <2>3. assignments[id] \in AssignmentRows
    BY <2>2 DEF TypeOK, Table
  <2>4. /\ DOMAIN assignments' = DOMAIN assignments
        /\ \A a \in DOMAIN assignments : a # id => assignments'[a] = assignments[a]
        /\ assignments'[id].end = call[s].end
        /\ assignments'[id].engagement = assignments[id].engagement
        /\ assignments'[id].placement = assignments[id].placement
    BY <2>1, <2>2, <2>3 DEF AssignmentRows, TypeOK, Table
  <2>5. Linked'
    BY <2>1, <2>4 DEF Linked
  <2>6. ProviderCompatible'
    BY <2>1, <2>4 DEF ProviderCompatible
  <2>7. ClosedWithinEngagement'
    BY <2>1, <2>2, <2>4 DEF ClosedWithinEngagement, EndFits
  <2> QED BY <2>5, <2>6, <2>7
<1>3. CASE WriteEngagementEnd(s)
  <2> DEFINE id == call[s].id
  <2>1. /\ engagements' = [engagements EXCEPT ![id].end = call[s].end]
        /\ UNCHANGED <<sites, placements, assignments>> /\ call[s].fn = "endEngagement"
    BY <1>3 DEF WriteEngagementEnd
  <2>2. /\ id \in DOMAIN engagements
        /\ \A a \in DOMAIN assignments : assignments[a].engagement = id =>
             assignments[a].end # Open /\ assignments[a].end <= call[s].end
    BY <2>1 DEF Fresh, FreshEnds
  <2>3. engagements[id] \in EngagementRows
    BY <2>2 DEF TypeOK, Table
  <2>4. /\ DOMAIN engagements' = DOMAIN engagements
        /\ \A e \in DOMAIN engagements : e # id => engagements'[e] = engagements[e]
        /\ engagements'[id].end = call[s].end
        /\ engagements'[id].provider = engagements[id].provider
    BY <2>1, <2>2, <2>3 DEF EngagementRows, TypeOK, Table
  <2>5. Linked'
    BY <2>1, <2>4 DEF Linked
  <2>6. ProviderCompatible'
    BY <2>1, <2>4 DEF ProviderCompatible, Linked
  <2>7. ClosedWithinEngagement'
    BY <2>1, <2>2, <2>4 DEF ClosedWithinEngagement, Linked
  <2> QED BY <2>5, <2>6, <2>7
<1>4. CASE WritePlacementArchived(s)
  <2>1. /\ UNCHANGED <<sites, engagements, assignments>>
        /\ DOMAIN placements' = DOMAIN placements
        /\ \A p \in DOMAIN placements :
             /\ placements'[p].site = placements[p].site
             /\ placements'[p].provider = placements[p].provider
    BY <1>4 DEF WritePlacementArchived, TypeOK, Table, PlacementRows
  <2> QED BY <2>1 DEF Linked, ProviderCompatible, ClosedWithinEngagement
<1>5. CASE WritePlacement(s)
  <2> DEFINE id == call[s].id
  <2>1. /\ UNCHANGED <<sites, engagements, assignments>> /\ call[s].fn = "updatePlacement"
        /\ placements' = [placements EXCEPT ![id] =
             [@ EXCEPT !.provider = call[s].provider, !.site = call[s].site,
                       !.lineage = call[s].lineage]]
    BY <1>5 DEF WritePlacement
  <2>2. /\ DOMAIN placements' = DOMAIN placements
        /\ \A p \in DOMAIN placements : p # id => placements'[p] = placements[p]
        /\ id \in DOMAIN placements => placements'[id].site = call[s].site
    BY <2>1 DEF TypeOK, Table, PlacementRows
  <2>3. call[s].site \in DOMAIN sites /\ ~HasHistory(id)
    BY <2>1 DEF Fresh, FreshLocks
  <2>4. Linked'
    BY <2>1, <2>2, <2>3 DEF Linked
  <2>5. ProviderCompatible'
    BY <2>1, <2>2, <2>3 DEF ProviderCompatible, HasHistory, Linked
  <2>6. ClosedWithinEngagement'
    BY <2>1 DEF ClosedWithinEngagement
  <2> QED BY <2>4, <2>5, <2>6
<1>6. CASE WriteSite(s)
  <2>1. /\ UNCHANGED <<placements, engagements, assignments>>
        /\ DOMAIN sites' = DOMAIN sites
    BY <1>6 DEF WriteSite
  <2> QED BY <2>1 DEF Linked, ProviderCompatible, ClosedWithinEngagement
<1>7. CASE Abandon(s)
  BY <1>7 DEF Abandon, ReadsOnly, Linked, ProviderCompatible, ClosedWithinEngagement
<1> QED BY <1>1, <1>2, <1>3, <1>4, <1>5, <1>6, <1>7 DEF WriteStep

\* A write ends its call.
LEMMA WriteReturns ==
  ASSUME TypeOK, NEW s \in Sessions, WriteStep(s)
  PROVE  FreshAssignment(s)' /\ FreshEnds(s)' /\ FreshLocks(s)'
<1>1. Return(s)
  BY DEF WriteStep, InsertAssignment, WriteAssignmentEnd, WriteEngagementEnd,
         WritePlacementArchived, WritePlacement, WriteSite, Abandon
<1>2. call'[s].fn = "none"
  BY <1>1 DEF Return, NoCall, TypeOK
<1> QED BY <1>2 DEF FreshAssignment, FreshEnds, FreshLocks

\* With one caller at a time the invariant is inductive.
THEOREM Inductive == ASSUME OneCaller PROVE Spec => [](Data /\ Fresh)
<1>1. Init => Data /\ Fresh
  BY DEF Init, Data, Fresh, EmptyTable, NoCall, Linked, ProviderCompatible,
         ClosedWithinEngagement, FreshAssignment, FreshEnds, FreshLocks
<1>2. ASSUME TypeOK, Data /\ Fresh, [Next]_vars PROVE (Data /\ Fresh)'
  <2>1. CASE UNCHANGED vars
    BY <1>2, <2>1
       DEF vars, Data, Fresh, Linked, ProviderCompatible, ClosedWithinEngagement,
           FreshAssignment, FreshEnds, FreshLocks, EndFits, HasHistory
  <2>2. CASE DirectWrite
    BY <1>2, <2>2, DirectWriteKeepsData
  <2>5. CASE CreateSoloWorkContext
    BY <1>2, <2>5, SoloKeepsData
  <2>3. ASSUME NEW s \in Sessions, ReadStep(s) PROVE (Data /\ Fresh)'
    <3>1. UNCHANGED <<sites, placements, engagements, assignments>>
      BY <1>2, <2>3, ReadKeepsTypes
    <3>2. Data'
      BY <1>2, <3>1 DEF Data, Linked, ProviderCompatible, ClosedWithinEngagement
    <3>3. Fresh'
      BY <1>2, <2>3, ReadIsFresh DEF Fresh, OneCaller
    <3> QED BY <3>2, <3>3
  <2>4. ASSUME NEW s \in Sessions, WriteStep(s) PROVE (Data /\ Fresh)'
    <3>1. Data'
      BY <1>2, <2>4, WriteKeepsData
    <3>2. Fresh'
      BY <1>2, <2>4, WriteReturns DEF Fresh, OneCaller
    <3> QED BY <3>1, <3>2
  <2> QED BY <1>2, <2>1, <2>2, <2>3, <2>4, <2>5 DEF Next
<1> QED BY <1>1, <1>2, TypeCorrect, PTL DEF Spec

\* An engagement and a placement that an assignment joins always have the same
\* provider (createAssignment, updatePlacement).
THEOREM ProvidersStayCompatible ==
  ASSUME OneCaller PROVE Spec => []ProviderCompatible
<1>1. Data /\ Fresh => ProviderCompatible
  BY DEF Data
<1> QED BY <1>1, Inductive, PTL

\* Closed assignments never outlive their engagement (createAssignment,
\* endAssignment, endEngagement).
THEOREM ClosedStayWithin ==
  ASSUME OneCaller PROVE Spec => []ClosedWithinEngagement
<1>1. Data /\ Fresh => ClosedWithinEngagement
  BY DEF Data
<1> QED BY <1>1, Inductive, PTL

-------------------------------------------------------------------------------
(***************************************************************************)
(* The refinement: every step either creates one assignment's chain or     *)
(* leaves all chains alone.                                                *)
(***************************************************************************)

ChainTable == [a \in DOMAIN assignments |-> ChainOf(a)]

\* Steps that insert no assignment keep the chain of every assignment.
LEMMA ChainsKept ==
  ASSUME DOMAIN assignments' = DOMAIN assignments,
         \A a \in DOMAIN assignments : ChainOf(a)' = ChainOf(a)
  PROVE  UNCHANGED ChainTable
<1>1. \A a \in DOMAIN assignments' : ChainOf(a)' = ChainOf(a)
  OBVIOUS
<1>2. ChainTable' = [a \in DOMAIN assignments' |-> ChainOf(a)']
  BY DEF ChainTable
<1> QED BY <1>1, <1>2 DEF ChainTable

\* A direct write changes no chain.
LEMMA DirectWriteKeepsChains ==
  ASSUME TypeOK, Data, DirectWrite
  PROVE  UNCHANGED ChainTable
<1> USE DirectWritesExtend
<1>1. Linked
  BY DEF Data
<1>2. ASSUME NEW a \in DOMAIN assignments PROVE ChainOf(a)' = ChainOf(a)
  BY <1>1, <1>2 DEF ChainOf, Linked
<1> QED BY <1>1, <1>2, ChainsKept

\* A new assignment with rows to refer to, next to chains that stay, is what the
\* contract calls a creation.
LEMMA ChainCreated ==
  ASSUME TypeOK', Linked', NEW id \in AssignmentIds \ DOMAIN assignments,
         DOMAIN assignments' = DOMAIN assignments \cup {id},
         \A a \in DOMAIN assignments : ChainOf(a)' = ChainOf(a)
  PROVE  Contract!Create
<1> DEFINE e == assignments'[id].engagement
           p == assignments'[id].placement
<1>1. e \in DOMAIN engagements' /\ p \in DOMAIN placements'
  BY DEF Linked
<1>2. engagements'[e] \in EngagementRows /\ placements'[p] \in PlacementRows
  BY <1>1 DEF TypeOK, Table
<1>3. sites'[placements'[p].site] \in SiteRows
  BY <1>1 DEF TypeOK, Table, Linked
<1>4. ChainOf(id)' = [provider |-> engagements'[e].provider, site |-> placements'[p].site,
                      client |-> sites'[placements'[p].site].org,
                      lineage |-> placements'[p].lineage]
  BY DEF ChainOf
<1>5. ChainOf(id)' \in [provider : Orgs, site : SiteIds, client : Orgs, lineage : Lineages]
  BY <1>2, <1>3, <1>4 DEF EngagementRows, PlacementRows, SiteRows
<1> DEFINE before == [a \in DOMAIN assignments |-> ChainOf(a)]
           after  == [a \in DOMAIN assignments' |-> ChainOf(a)']
<1>6. after = [b \in DOMAIN before \cup {id} |-> IF b = id THEN ChainOf(id)' ELSE before[b]]
  OBVIOUS
<1>7. id \in AssignmentIds \ DOMAIN before
  OBVIOUS
<1> QED BY <1>5, <1>6, <1>7 DEF Contract!Create, Contract!Chains

\* A write either creates an assignment, with a chain of the contract's kind, or
\* changes no chain.
LEMMA WriteCreatesOrKeeps ==
  ASSUME TypeOK, Data, Fresh, TypeOK', Data', NEW s \in Sessions, WriteStep(s)
  PROVE  Contract!Create \/ UNCHANGED ChainTable
<1>1. Linked /\ Linked'
  BY DEF Data
<1>2. CASE InsertAssignment(s)
  <2>1. PICK id \in AssignmentIds \ DOMAIN assignments :
          assignments' = Insert(assignments, id, call[s].row)
    BY <1>2 DEF InsertAssignment
  <2>2. UNCHANGED <<sites, placements, engagements>> /\ call[s].fn = "createAssignment"
    BY <1>2 DEF InsertAssignment
  <2>3. /\ DOMAIN assignments' = DOMAIN assignments \cup {id}
        /\ assignments'[id] = call[s].row
        /\ \A a \in DOMAIN assignments : assignments'[a] = assignments[a]
    BY <2>1 DEF Insert
  <2>4. \A a \in DOMAIN assignments : ChainOf(a)' = ChainOf(a)
    BY <2>2, <2>3 DEF ChainOf
  <2> QED BY <1>1, <2>1, <2>3, <2>4, ChainCreated
<1>3. CASE WriteAssignmentEnd(s)
  <2>1. /\ UNCHANGED <<sites, placements, engagements>>
        /\ DOMAIN assignments' = DOMAIN assignments
        /\ \A a \in DOMAIN assignments :
             /\ assignments'[a].engagement = assignments[a].engagement
             /\ assignments'[a].placement = assignments[a].placement
    BY <1>3 DEF WriteAssignmentEnd, TypeOK, Table, AssignmentRows
  <2> QED BY <2>1, ChainsKept DEF ChainOf
<1>4. CASE WriteEngagementEnd(s)
  <2>1. /\ UNCHANGED <<sites, placements, assignments>>
        /\ \A e \in DOMAIN engagements : engagements'[e].provider = engagements[e].provider
    BY <1>4 DEF WriteEngagementEnd, TypeOK, Table, EngagementRows
  <2> QED BY <1>1, <2>1, ChainsKept DEF ChainOf, Linked
<1>5. CASE WritePlacementArchived(s)
  <2>1. /\ UNCHANGED <<sites, engagements, assignments>>
        /\ \A p \in DOMAIN placements :
             /\ placements'[p].site = placements[p].site
             /\ placements'[p].lineage = placements[p].lineage
    BY <1>5 DEF WritePlacementArchived, TypeOK, Table, PlacementRows
  <2> QED BY <1>1, <2>1, ChainsKept DEF ChainOf, Linked
<1>6. CASE WritePlacement(s)
  <2>1. /\ UNCHANGED <<sites, engagements, assignments>>
        /\ \A p \in DOMAIN placements : p # call[s].id => placements'[p] = placements[p]
    BY <1>6 DEF WritePlacement
  <2>2. ~HasHistory(call[s].id)
    BY <1>6 DEF WritePlacement, Fresh, FreshLocks
  <2> QED BY <1>1, <2>1, <2>2, ChainsKept DEF ChainOf, Linked, HasHistory
<1>7. CASE WriteSite(s)
  <2>1. /\ UNCHANGED <<placements, engagements, assignments>>
        /\ sites' = [sites EXCEPT ![call[s].id].org = call[s].org]
        /\ call[s].fn = "updateSite"
    BY <1>7 DEF WriteSite
  <2>2. /\ call[s].id \in DOMAIN sites
        /\ \/ sites[call[s].id].org = call[s].org
           \/ \A p \in DOMAIN placements : placements[p].site = call[s].id => ~HasHistory(p)
    BY <2>1 DEF Fresh, FreshLocks
  <2>3. /\ \A t \in DOMAIN sites : t # call[s].id => sites'[t].org = sites[t].org
        /\ sites'[call[s].id].org = call[s].org
    BY <2>1, <2>2 DEF TypeOK, Table, SiteRows
  <2>4. ASSUME NEW a \in DOMAIN assignments
        PROVE  sites'[placements[assignments[a].placement].site].org
                 = sites[placements[assignments[a].placement].site].org
    BY <1>1, <2>2, <2>3, <2>4 DEF Linked, HasHistory
  <2> QED BY <2>1, <2>4, ChainsKept DEF ChainOf
<1>8. CASE Abandon(s)
  BY <1>8, ChainsKept DEF Abandon, ReadsOnly, ChainOf
<1> QED BY <1>2, <1>3, <1>4, <1>5, <1>6, <1>7, <1>8 DEF WriteStep

LEMMA SoloCreates ==
  ASSUME TypeOK, Data, TypeOK', Data', CreateSoloWorkContext
  PROVE  Contract!Create
<1>1. PICK t \in SiteIds \ DOMAIN sites, p \in PlacementIds \ DOMAIN placements,
           e \in EngagementIds \ DOMAIN engagements, a \in AssignmentIds \ DOMAIN assignments :
        /\ \A i \in DOMAIN sites : sites'[i] = sites[i]
        /\ \A i \in DOMAIN placements : placements'[i] = placements[i]
        /\ \A i \in DOMAIN engagements : engagements'[i] = engagements[i]
        /\ DOMAIN assignments' = DOMAIN assignments \cup {a}
        /\ \A i \in DOMAIN assignments : assignments'[i] = assignments[i]
  BY SoloRows
<1>2. Linked /\ Linked'
  BY DEF Data
<1>3. ASSUME NEW b \in DOMAIN assignments PROVE ChainOf(b)' = ChainOf(b)
  BY <1>1, <1>2 DEF ChainOf, Linked
<1> QED BY <1>1, <1>2, <1>3, ChainCreated

\* An assignment's chain is frozen from its creation on: WorkStructure implements
\* AssignmentContract (updatePlacement's and updateSite's locks).
THEOREM ChainsAreFrozen == ASSUME OneCaller PROVE Spec => ChainsFrozen
<1>1. Init => Contract!Init
  BY DEF Init, EmptyTable, Contract!Init
<1>2. ASSUME TypeOK, TypeOK', Data /\ Fresh, (Data /\ Fresh)', [Next]_vars
      PROVE  Contract!Create \/ UNCHANGED ChainTable
  <2>1. CASE UNCHANGED vars
    BY <2>1, ChainsKept DEF vars, ChainOf
  <2>2. CASE DirectWrite
    BY <1>2, <2>2, DirectWriteKeepsChains
  <2>5. CASE CreateSoloWorkContext
    BY <1>2, <2>5, SoloCreates
  <2>3. ASSUME NEW s \in Sessions, ReadStep(s) PROVE UNCHANGED ChainTable
    BY <1>2, <2>3, ReadKeepsTypes, ChainsKept DEF ChainOf
  <2>4. ASSUME NEW s \in Sessions, WriteStep(s) PROVE Contract!Create \/ UNCHANGED ChainTable
    BY <1>2, <2>4, WriteCreatesOrKeeps
  <2> QED BY <1>2, <2>1, <2>2, <2>3, <2>4, <2>5 DEF Next
<1>3. TypeOK /\ TypeOK' /\ Data /\ Fresh /\ (Data /\ Fresh)' /\ [Next]_vars
        => [Contract!Create]_[a \in DOMAIN assignments |-> ChainOf(a)]
  BY <1>2 DEF ChainTable
<1> QED BY <1>1, <1>3, TypeCorrect, Inductive, PTL DEF Spec, ChainsFrozen, Contract!Spec
===============================================================================
