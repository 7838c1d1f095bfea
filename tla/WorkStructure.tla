---------------------------- MODULE WorkStructure ----------------------------
(***************************************************************************)
(* Who works where, for whom and at which rates: sites, placements,        *)
(* engagements and assignments (services/siteService.js,                   *)
(* placementService.js, engagementService.js, assignmentService.js, and    *)
(* createSoloWorkContext of driverService.js).  The                        *)
(* rules that relate the four collections live in these services only: the *)
(* repositories know no foreign keys.  A service function reads some rows, *)
(* decides, and then writes one row; each read and the write is a request  *)
(* of its own, so the calls of different sessions (tabs, devices, users)   *)
(* interleave, and a session may go away between the two.                  *)
(*                                                                         *)
(* Dates are days 1..MaxDate.  Text fields, the driver of an engagement    *)
(* and the site's own archive flag are read by no rule and left out.       *)
(* engagement.status is "ended" exactly when its endDate is set.           *)
(***************************************************************************)
EXTENDS Integers

CONSTANTS
  Sessions,       \* callers of the services; one at a time each
  Orgs,           \* organisations, providers and clients alike
  SiteIds, PlacementIds, EngagementIds, AssignmentIds,  \* ids newId may return
  Lineages,       \* rate card lineages
  MaxDate         \* bound: the last day considered

ASSUME DatesAssumption == MaxDate \in Nat

Dates == 1..MaxDate
Open  == 0                       \* endDate, effectiveTo: null
Ends  == Dates \cup {Open}

VARIABLES
  sites,        \* sites[id].org: Site.organisationId
  placements,   \* placements[id]: provider, site, lineage, from, to, archived
  engagements,  \* engagements[id]: provider, start, end
  assignments,  \* assignments[id]: engagement, placement, start, end
  call          \* call[s]: the service call session s is in the middle of

vars == <<sites, placements, engagements, assignments, call>>

SiteRows       == [org : Orgs]
PlacementRows  == [provider : Orgs, site : SiteIds, lineage : Lineages,
                   from : Dates, to : Ends, archived : BOOLEAN]
EngagementRows == [provider : Orgs, start : Dates, end : Ends]
AssignmentRows == [engagement : EngagementIds, placement : PlacementIds,
                   start : Dates, end : Ends]

NoCall == [fn |-> "none"]
Calls ==
  {NoCall}
  \cup [fn : {"createAssignment"}, row : AssignmentRows]
  \cup [fn : {"endAssignment"}, id : AssignmentIds, end : Dates]
  \cup [fn : {"endEngagement"}, id : EngagementIds, end : Dates]
  \cup [fn : {"archivePlacement"}, id : PlacementIds]
  \cup [fn : {"updatePlacement"}, id : PlacementIds,
        provider : Orgs, site : SiteIds, lineage : Lineages]
  \cup [fn : {"siteHistory"}, id : SiteIds, org : Orgs, placements : SUBSET PlacementIds]
  \cup [fn : {"updateSite"}, id : SiteIds, org : Orgs]

Table(f, Ids, Rows) == DOMAIN f \subseteq Ids /\ f \in [DOMAIN f -> Rows]

TypeOK ==
  /\ Table(sites, SiteIds, SiteRows)
  /\ Table(placements, PlacementIds, PlacementRows)
  /\ Table(engagements, EngagementIds, EngagementRows)
  /\ Table(assignments, AssignmentIds, AssignmentRows)
  /\ call \in [Sessions -> Calls]

\* Repository.insert under a fresh id
Insert(f, id, row) == [i \in DOMAIN f \cup {id} |-> IF i = id THEN row ELSE f[i]]

EmptyTable == [i \in {} |-> i]

Init ==
  /\ sites = EmptyTable /\ placements = EmptyTable
  /\ engagements = EmptyTable /\ assignments = EmptyTable
  /\ call = [s \in Sessions |-> NoCall]

Idle(s) == call[s].fn = "none"
Return(s) == call' = [call EXCEPT ![s] = NoCall]

-------------------------------------------------------------------------------
(***************************************************************************)
(* Functions that write without reading first.  They are tied to no        *)
(* session: any number of callers may run them, between the steps of any   *)
(* other call.                                                             *)
(***************************************************************************)

CreateSite ==
  \E id \in SiteIds \ DOMAIN sites, o \in Orgs :
    /\ sites' = Insert(sites, id, [org |-> o])
    /\ UNCHANGED <<placements, engagements, assignments, call>>

CreatePlacement ==
  \E id \in PlacementIds \ DOMAIN placements, p \in Orgs, t \in DOMAIN sites,
     l \in Lineages, d \in Dates :
    /\ placements' = Insert(placements, id,
         [provider |-> p, site |-> t, lineage |-> l, from |-> d, to |-> Open,
          archived |-> FALSE])
    /\ UNCHANGED <<sites, engagements, assignments, call>>

\* updatePlacement with a patch of effectiveFrom and effectiveTo only
UpdatePlacementDates ==
  \E p \in DOMAIN placements, d \in Dates, e \in Ends :
    /\ placements' = [placements EXCEPT ![p].from = d, ![p].to = e]
    /\ UNCHANGED <<sites, engagements, assignments, call>>

RestorePlacement ==
  \E p \in DOMAIN placements :
    /\ placements' = [placements EXCEPT ![p].archived = FALSE]
    /\ UNCHANGED <<sites, engagements, assignments, call>>

CreateEngagement ==
  \E id \in EngagementIds \ DOMAIN engagements, p \in Orgs, d \in Dates :
    /\ engagements' = Insert(engagements, id, [provider |-> p, start |-> d, end |-> Open])
    /\ UNCHANGED <<sites, placements, assignments, call>>

\* driverService createSoloWorkContext: a driver without any work context gets a
\* whole one - site, placement, engagement, assignment - in one db.insertAtomic.
CreateSoloWorkContext ==
  \E t \in SiteIds \ DOMAIN sites, p \in PlacementIds \ DOMAIN placements,
     e \in EngagementIds \ DOMAIN engagements, a \in AssignmentIds \ DOMAIN assignments,
     provider \in Orgs, client \in Orgs, l \in Lineages, d \in Dates :
    /\ sites' = Insert(sites, t, [org |-> client])
    /\ placements' = Insert(placements, p,
         [provider |-> provider, site |-> t, lineage |-> l, from |-> d, to |-> Open,
          archived |-> FALSE])
    /\ engagements' = Insert(engagements, e, [provider |-> provider, start |-> d, end |-> Open])
    /\ assignments' = Insert(assignments, a,
         [engagement |-> e, placement |-> p, start |-> d, end |-> Open])
    /\ UNCHANGED call

-------------------------------------------------------------------------------
(***************************************************************************)
(* Functions that read and decide; what they will write is in call[s].     *)
(***************************************************************************)

\* validateAssignmentDates
DatesFit(engagement, placement, start, end) ==
  /\ start >= engagement.start
  /\ engagement.end # Open => start <= engagement.end
  /\ end # Open /\ engagement.end # Open => end <= engagement.end
  /\ start >= placement.from
  /\ placement.to # Open => start <= placement.to
  /\ end # Open /\ placement.to # Open => end <= placement.to

\* Mutant: the provider is not compared.
AssignableMut(e, p, start, end) == DatesFit(engagements[e], placements[p], start, end)

\* createAssignment's two checks
Assignable(e, p, start, end) ==
  /\ engagements[e].provider = placements[p].provider
  /\ DatesFit(engagements[e], placements[p], start, end)

ReadsOnly == UNCHANGED <<sites, placements, engagements, assignments>>

CreateAssignment(s) ==
  /\ Idle(s)
  /\ \E e \in DOMAIN engagements, p \in DOMAIN placements, d \in Dates, end \in Ends :
       /\ Assignable(e, p, d, end)
       /\ call' = [call EXCEPT ![s] =
            [fn |-> "createAssignment",
             row |-> [engagement |-> e, placement |-> p, start |-> d, end |-> end]]]
  /\ ReadsOnly

\* Mutant: the new end is not checked.
EndAssignmentMut(s) ==
  /\ Idle(s)
  /\ \E a \in DOMAIN assignments, end \in Dates :
       call' = [call EXCEPT ![s] = [fn |-> "endAssignment", id |-> a, end |-> end]]
  /\ ReadsOnly

\* Mutant: an assignment can be ended with endDate null, which reactivates it.
EndAssignmentReopensMut(s) ==
  /\ Idle(s)
  /\ \E a \in DOMAIN assignments, end \in Ends :
       LET row == assignments[a]
       IN /\ DatesFit(engagements[row.engagement], placements[row.placement], row.start, end)
          /\ call' = [call EXCEPT ![s] = [fn |-> "endAssignment", id |-> a, end |-> end]]
  /\ ReadsOnly

EndAssignment(s) ==
  /\ Idle(s)
  /\ \E a \in DOMAIN assignments, end \in Dates :
       LET row == assignments[a]
       IN /\ DatesFit(engagements[row.engagement], placements[row.placement], row.start, end)
          /\ call' = [call EXCEPT ![s] = [fn |-> "endAssignment", id |-> a, end |-> end]]
  /\ ReadsOnly

EndEngagement(s) ==
  /\ Idle(s)
  /\ \E e \in DOMAIN engagements, end \in Dates :
       /\ \A a \in DOMAIN assignments : assignments[a].engagement = e =>
            assignments[a].end # Open /\ assignments[a].end <= end
       /\ call' = [call EXCEPT ![s] = [fn |-> "endEngagement", id |-> e, end |-> end]]
  /\ ReadsOnly

ArchivePlacement(s) ==
  /\ Idle(s)
  /\ \E p \in DOMAIN placements :
       /\ \A a \in DOMAIN assignments :
            assignments[a].placement = p => assignments[a].end # Open
       /\ call' = [call EXCEPT ![s] = [fn |-> "archivePlacement", id |-> p]]
  /\ ReadsOnly

\* Mutant: only assignments still active count as history.
HasHistoryMut(p) ==
  \E a \in DOMAIN assignments : assignments[a].placement = p /\ assignments[a].end = Open

\* placementHasAssignmentHistory
HasHistory(p) == \E a \in DOMAIN assignments : assignments[a].placement = p

\* updatePlacement with a patch of the locked fields
UpdatePlacement(s) ==
  /\ Idle(s)
  /\ \E p \in DOMAIN placements, o \in Orgs, t \in DOMAIN sites, l \in Lineages :
       /\ ~HasHistory(p)
       /\ call' = [call EXCEPT ![s] =
            [fn |-> "updatePlacement", id |-> p, provider |-> o, site |-> t, lineage |-> l]]
  /\ ReadsOnly

\* updateSite, up to siteHasAssignmentHistory's query of the site's placements.
\* A patch that leaves organisationId as it is asks no further.
UpdateSite(s) ==
  /\ Idle(s)
  /\ \E t \in DOMAIN sites, o \in Orgs :
       IF o = sites[t].org
         THEN call' = [call EXCEPT ![s] = [fn |-> "updateSite", id |-> t, org |-> o]]
         ELSE call' = [call EXCEPT ![s] =
                [fn |-> "siteHistory", id |-> t, org |-> o,
                 placements |-> {p \in DOMAIN placements : placements[p].site = t}]]
  /\ ReadsOnly

\* siteHasAssignmentHistory, second query
SiteHistory(s) ==
  /\ call[s].fn = "siteHistory"
  /\ IF \E p \in call[s].placements : HasHistory(p)
       THEN Return(s)
       ELSE call' = [call EXCEPT ![s] =
              [fn |-> "updateSite", id |-> call[s].id, org |-> call[s].org]]
  /\ ReadsOnly

-------------------------------------------------------------------------------
(***************************************************************************)
(* The write that ends such a call, or the session going away before it.   *)
(***************************************************************************)

InsertAssignment(s) ==
  /\ call[s].fn = "createAssignment"
  /\ \E id \in AssignmentIds \ DOMAIN assignments :
       assignments' = Insert(assignments, id, call[s].row)
  /\ Return(s) /\ UNCHANGED <<sites, placements, engagements>>

WriteAssignmentEnd(s) ==
  /\ call[s].fn = "endAssignment"
  /\ assignments' = [assignments EXCEPT ![call[s].id].end = call[s].end]
  /\ Return(s) /\ UNCHANGED <<sites, placements, engagements>>

WriteEngagementEnd(s) ==
  /\ call[s].fn = "endEngagement"
  /\ engagements' = [engagements EXCEPT ![call[s].id].end = call[s].end]
  /\ Return(s) /\ UNCHANGED <<sites, placements, assignments>>

WritePlacementArchived(s) ==
  /\ call[s].fn = "archivePlacement"
  /\ placements' = [placements EXCEPT ![call[s].id].archived = TRUE]
  /\ Return(s) /\ UNCHANGED <<sites, engagements, assignments>>

WritePlacement(s) ==
  /\ call[s].fn = "updatePlacement"
  /\ placements' = [placements EXCEPT ![call[s].id] =
       [@ EXCEPT !.provider = call[s].provider, !.site = call[s].site,
                 !.lineage = call[s].lineage]]
  /\ Return(s) /\ UNCHANGED <<sites, engagements, assignments>>

WriteSite(s) ==
  /\ call[s].fn = "updateSite"
  /\ sites' = [sites EXCEPT ![call[s].id].org = call[s].org]
  /\ Return(s) /\ UNCHANGED <<placements, engagements, assignments>>

\* The tab is closed or a request fails before the write.
Abandon(s) ==
  /\ ~Idle(s)
  /\ Return(s) /\ ReadsOnly

-------------------------------------------------------------------------------
ReadStep(s) ==
  \/ CreateAssignment(s) \/ EndAssignment(s) \/ EndEngagement(s)
  \/ ArchivePlacement(s) \/ UpdatePlacement(s) \/ UpdateSite(s) \/ SiteHistory(s)

WriteStep(s) ==
  \/ InsertAssignment(s) \/ WriteAssignmentEnd(s) \/ WriteEngagementEnd(s)
  \/ WritePlacementArchived(s) \/ WritePlacement(s) \/ WriteSite(s) \/ Abandon(s)

DirectWrite ==
  CreateSite \/ CreatePlacement \/ UpdatePlacementDates \/ RestorePlacement \/ CreateEngagement

Next ==
  \/ DirectWrite \/ CreateSoloWorkContext
  \/ \E s \in Sessions : ReadStep(s) \/ WriteStep(s)

Spec == Init /\ [][Next]_vars

-------------------------------------------------------------------------------
(***************************************************************************)
(* Properties.  Those of the first group hold when no two calls overlap    *)
(* (Sessions has one element); nothing in the services makes them hold     *)
(* otherwise.                                                              *)
(***************************************************************************)

\* An agency's engagement is never attached to another agency's placement, not
\* even by changing the placement afterwards (createAssignment's first check,
\* updatePlacement's lock).
ProviderCompatible ==
  \A a \in DOMAIN assignments :
    LET row == assignments[a]
    IN engagements[row.engagement].provider = placements[row.placement].provider

\* An assignment that has been given an end never outlives its engagement,
\* whichever of the two was ended, re-ended or created last (endEngagement's
\* block, validateAssignmentDates).
ClosedWithinEngagement ==
  \A a \in DOMAIN assignments :
    LET row == assignments[a]
        e   == engagements[row.engagement]
    IN row.end # Open /\ e.end # Open => row.end <= e.end

\* What assignment a stands for
ChainOf(a) ==
  LET p == placements[assignments[a].placement]
  IN [provider |-> engagements[assignments[a].engagement].provider, site |-> p.site,
      client |-> sites[p.site].org, lineage |-> p.lineage]

Contract ==
  INSTANCE AssignmentContract WITH chain <- [a \in DOMAIN assignments |-> ChainOf(a)]

\* The chain Assignment -> Placement -> Site -> Organisation of an assignment is
\* never rewritten: what updatePlacement's and updateSite's locks, which look at
\* three collections, are for.
ChainsFrozen == Contract!Spec

\* The no-cascade rule and the both-boundary containment as the comments on
\* endEngagement and validateAssignmentDates state them: nothing is left active,
\* or extends, beyond the end of an ended engagement.  NOT an invariant: an
\* assignment with endDate null passes validateAssignmentDates under an
\* engagement that has ended.
NothingOutlivesEngagement ==
  \A a \in DOMAIN assignments :
    LET row == assignments[a]
        e   == engagements[row.engagement]
    IN e.end # Open => row.end # Open /\ row.end <= e.end
===============================================================================
