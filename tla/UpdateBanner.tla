----------------------------- MODULE UpdateBanner -----------------------------
(***************************************************************************)
(* The administrators' browsers (src/views/shell/UpdateBanner.jsx) and the *)
(* server route between them and the sidecar (server/src/routes/updates.js *)
(* and services/updateService.js), composed with SelfUpdate.               *)
(*                                                                         *)
(* Requests that fail on the way are stutters (a failed poll is retried)   *)
(* or the error branches below.  requireServerManager is a precondition:   *)
(* every client here is an owner or admin.                                 *)
(***************************************************************************)
EXTENDS SelfUpdate

CONSTANT Clients            \* browsers of owners and admins

NoCache == -1

VARIABLES
  ui,         \* ui[c]: applyState, "closed" before the mount and "ready" for null
  watched,    \* history, watched[c]: runs accepted when c's click was answered
  cache       \* updateService's cache: latestVersion, valid for a day

clientVars == <<ui, watched, cache>>
allVars    == <<vars, clientVars>>

BannerTypeOK ==
  /\ ui \in [Clients -> {"closed", "ready", "posting", "watching", "success", "failed"}]
  /\ watched \in [Clients -> 0..MaxRuns]
  /\ cache \in Versions \cup {NoCache}

BannerInit ==
  /\ Init
  /\ ui = [c \in Clients |-> "closed"]
  /\ watched = [c \in Clients |-> 0]
  /\ cache = NoCache

\* checkForUpdate: the cached answer, or the newest release now.
Latest == IF cache = NoCache THEN released ELSE cache

UpdateAvailable == Latest > running[Server]

\* The banner mounts: GET /api/updates/status.
Mount(c) ==
  /\ ui[c] = "closed" /\ UpdateAvailable
  /\ cache' = Latest
  /\ ui' = [ui EXCEPT ![c] = "ready"]
  /\ UNCHANGED <<vars, watched>>

\* handleApply; the button is disabled while an update is being watched.
Click(c) ==
  /\ ui[c] \in {"ready", "failed"}
  /\ ui' = [ui EXCEPT ![c] = "posting"]
  /\ UNCHANGED <<vars, watched, cache>>

\* POST /api/updates/apply reaches the sidecar; 409 makes the banner watch the
\* update that is under way.
PostReachesSidecar(c) ==
  /\ ui[c] = "posting" /\ UpdateAvailable
  /\ cache' = Latest
  /\ Apply \/ (Refuses /\ UNCHANGED vars)
  /\ ui' = [ui EXCEPT ![c] = "watching"]
  /\ watched' = [watched EXCEPT ![c] = lastRun']

\* 400 "No update available": the banner shows the error and forgets applyState.
PostFindsNoUpdate(c) ==
  /\ ui[c] = "posting" /\ ~UpdateAvailable
  /\ cache' = Latest
  /\ ui' = [ui EXCEPT ![c] = "ready"]
  /\ UNCHANGED <<vars, watched>>

\* The request or its answer is lost: what the sidecar did, it did all the same.
PostFails(c) ==
  /\ ui[c] = "posting"
  /\ cache' \in {cache, Latest}
  /\ ui' = [ui EXCEPT ![c] = "ready"]
  /\ UNCHANGED watched
  /\ UNCHANGED vars \/ (UpdateAvailable /\ cache' = Latest /\ Apply)

\* pollApplyStatus gets an answer with a terminal status; others are polled again.
Poll(c) ==
  /\ ui[c] = "watching" /\ Status.status \in {"success", "failed"}
  /\ ui' = [ui EXCEPT ![c] = Status.status]
  /\ UNCHANGED <<vars, watched, cache>>

\* The page is reloaded or left, at any time.
Unmount(c) ==
  /\ ui[c] # "closed"
  /\ ui' = [ui EXCEPT ![c] = "closed"]
  /\ UNCHANGED <<vars, watched, cache>>

\* A day passes, or the server's process restarts.
CacheExpires ==
  /\ cache # NoCache
  /\ cache' = NoCache
  /\ UNCHANGED <<vars, ui, watched>>

\* Steps of the sidecar, the host and the surroundings; recreating the server's
\* container starts a server without a cache.
BackgroundStep ==
  /\ \/ SidecarStep
     \/ \E r \in Runs : TriggerStep(r) \/ WorkerStep(r) \/ WorkerCrash(r) \/ JobRuns(r)
     \/ PublishRelease \/ SidecarCrash
  /\ cache' = IF running'[Server] # running[Server] THEN NoCache ELSE cache
  /\ UNCHANGED <<ui, watched>>

BannerNext ==
  \/ \E c \in Clients :
       \/ Mount(c) \/ Click(c) \/ Poll(c) \/ Unmount(c)
       \/ PostReachesSidecar(c) \/ PostFindsNoUpdate(c) \/ PostFails(c)
  \/ CacheExpires \/ BackgroundStep

BannerSpec == BannerInit /\ [][BannerNext]_allVars

BannerFairness ==
  /\ WF_allVars(SidecarStep /\ BackgroundStep)
  /\ \A r \in Runs : WF_allVars(WorkerStep(r) /\ BackgroundStep)
                     /\ WF_allVars(JobRuns(r) /\ BackgroundStep)
  /\ \A c \in Clients : WF_allVars(Poll(c))

FairBannerSpec == BannerSpec /\ BannerFairness

-------------------------------------------------------------------------------

\* A banner never shows the outcome of an update older than the one it watches,
\* though the sidecar that answers it may have been recreated in between.
NoStaleOutcome ==
  [][\A c \in Clients : ui[c] = "watching" /\ ui'[c] \in {"success", "failed"} =>
       Status.run >= watched[c]]_ui

\* In any environment: as long as the sidecar that accepted an update lives, its memory
\* masks what state.json still says of an earlier one (mergeStatus).  An old outcome is
\* shown only by a sidecar that has been recreated or restarted since the click.
MemoryMasksOldOutcomes ==
  [][\A c \in Clients : ui[c] = "watching" /\ ui'[c] \in {"success", "failed"} =>
       mem.run = NoRun \/ Status.run >= watched[c]]_ui

\* On TrueNAS an update that is being watched gets an outcome.
WatchingEnds ==
  \A c \in Clients : mode = "truenas" /\ ui[c] = "watching" ~> ui[c] # "watching"

===============================================================================
