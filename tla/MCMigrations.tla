----------------------------- MODULE MCMigrations -----------------------------
(***************************************************************************)
(* Databases that earlier releases left behind, for model checking         *)
(* Migrations: none, two of localStorage-only releases (closed after 001;  *)
(* with rows in their old shapes), and those of the releases whose schema  *)
(* versions were 5 and 9.                                                  *)
(***************************************************************************)
EXTENDS Migrations

\* Collections given by what is not empty
Store(rows) == [c \in Collections |-> IF c \in DOMAIN rows THEN rows[c] ELSE NoFields]

Fresh == [version |-> 0, ls |-> Store(NoFields), db |-> Store(NoFields)]

\* Closed after 001, in a release that kept its rows in localStorage
FirstRelease == [version |-> 1, db |-> Store(NoFields), ls |-> Store([
  complianceProfiles |-> [id \in {"compliance-default"} |-> NoFields]])]

\* Two sites of one client, and three assignments of which two share their
\* configuration; one shift before its rate card is in effect, one unassigned.
LocalStorageRelease == [version |-> 2, db |-> Store(NoFields), ls |-> Store([
  complianceProfiles |-> [id \in {"compliance-default"} |-> NoFields],
  people |-> [p |-> NoFields],
  workspaces |-> [wp |-> [kind |-> "personal", ownerPersonId |-> "p"],
                  wa |-> [kind |-> "agency", ownerPersonId |-> Null]],
  organisations |-> [o |-> [workspaceId |-> "wa", tradingName |-> "agency"]],
  sites |-> [s1 |-> [organisationId |-> "o", clientName |-> "client"],
             s2 |-> [organisationId |-> "o", clientName |-> "client"]],
  driverProfiles |-> [d |-> [personId |-> "p"]],
  rateCards |-> [r1 |-> [workspaceId |-> "wa", effectiveFrom |-> 1],
                 r2 |-> [workspaceId |-> "wa", effectiveFrom |-> 2]],
  engagements |-> [e |-> [organisationId |-> "o", workspaceId |-> "wa", role |-> "agency_worker"]],
  assignments |-> [a1 |-> [engagementId |-> "e", siteId |-> "s1", rateCardId |-> "r1"],
                   a2 |-> [engagementId |-> "e", siteId |-> "s1", rateCardId |-> "r2"],
                   a3 |-> [engagementId |-> "e", siteId |-> "s1", rateCardId |-> "r1"]],
  shifts |-> [h1 |-> [assignmentId |-> "a1", date |-> 2],
              h2 |-> [assignmentId |-> "a2", date |-> 2],
              h3 |-> [assignmentId |-> "a2", date |-> 1],
              h4 |-> [assignmentId |-> Null, date |-> 1]]])]

\* Before placements: shifts are pinned, and the rates of h5 were revised since.
LinesRelease == [version |-> 5, ls |-> Store(NoFields), db |-> Store([
  complianceProfiles |-> [id \in {"compliance-default"} |-> NoFields],
  workspaces |-> [wa |-> [kind |-> "agency", ownerPersonId |-> Null]],
  organisations |-> [o |-> [workspaceId |-> "wa", tradingName |-> "agency", types |-> "agency"]],
  sites |-> [s1 |-> [organisationId |-> "o", clientName |-> "client", archivedAt |-> Null]],
  rateCards |-> [r1 |-> [workspaceId |-> "wa", lineageId |-> "r1", effectiveFrom |-> 1],
                 r2 |-> [workspaceId |-> "wa", lineageId |-> "r1", effectiveFrom |-> 2]],
  rateCardLineages |-> [r1 |-> NoFields],
  engagements |-> [e |-> [organisationId |-> "o", workspaceId |-> "wa", role |-> "agency_worker"]],
  assignments |-> [a1 |-> [engagementId |-> "e", siteId |-> "s1", rateCardLineageId |-> "r1"]],
  shifts |-> [h4 |-> [assignmentId |-> "a1", date |-> 2, rateCardId |-> "r2"],
              h5 |-> [assignmentId |-> "a1", date |-> 2, rateCardId |-> "r1"]]])]

IndexedDbRelease == [version |-> 9, ls |-> Store(NoFields), db |-> Store([
  complianceProfiles |-> [id \in {"compliance-default"} |-> NoFields],
  people |-> [p |-> [archivedAt |-> Null]],
  workspaces |-> [wp |-> [kind |-> "personal", ownerPersonId |-> "p"]],
  driverProfiles |-> [d |-> [personId |-> "p", workspaceId |-> "wp",
                             lastUsedAssignmentId |-> Null]],
  rateCards |-> [r |-> [workspaceId |-> "wp", lineageId |-> "l", effectiveFrom |-> 1]],
  rateCardLineages |-> [l |-> NoFields],
  checklistTemplates |-> [c |-> [workspaceId |-> "wp"]],
  vehicles |-> [v1 |-> NoFields, v2 |-> [motExpiryDate |-> Null]]])]

AllInstalls  == {Fresh, FirstRelease, LocalStorageRelease, LinesRelease, IndexedDbRelease}
FreshInstall == {Fresh}
MCNewIds == <<"n1", "n2", "n3", "n4", "n5", "n6", "n7", "n8">>
===============================================================================
