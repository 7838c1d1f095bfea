------------------------------ MODULE SelfUpdate ------------------------------
(***************************************************************************)
(* The self-update of a deployment: the updater sidecar                    *)
(* (updater/src/index.js, lib.js), which checks a release out and builds   *)
(* its images (Phase A), and the host-side worker                          *)
(* (deploy/truenas/bin/hgv_hub_update_trigger.py), which redeploys the     *)
(* app and checks its health (Phase B).  The redeploy recreates every      *)
(* container, the sidecar included, so the two phases share nothing but    *)
(* one SSH command, a flock on the host and a status file.                 *)
(*                                                                         *)
(* One action is what the code does between two awaits (sidecar) or        *)
(* between two blocking calls (worker).  Image identifiers and git refs    *)
(* are abstracted to the number of the release they were made from, a run  *)
(* id (randomUUID) to the order in which runs are accepted.                *)
(***************************************************************************)
EXTENDS Integers

CONSTANTS
  MaxRuns,      \* bound: how many POST /apply are ever accepted
  MaxVersion,   \* bound: the newest release ever published
  Services,     \* LOCALLY_BUILT_SERVICES
  Server,       \* the service whose version the health check reads
  Updater,      \* the sidecar's own service
  Unparsable,   \* releases whose tag is not of REQUEST_PATTERN's form vX.Y.Z
  Modes,        \* kinds of deployment considered: TRUENAS_SSH_HOST set or not
  Faults        \* what the environment may do beyond ordinary failures

FaultKinds == {
  "inspect",      \* docker image inspect fails on an image that exists
  "retag",        \* docker tag fails while images are being restored
  "ackLost",      \* ssh is killed after 20 s although its request got through
  "slowWorker",   \* the acknowledgement overtakes the worker's first write
  "callTimeout",  \* midclt gives up although the redeploy job was created
  "pollLost",     \* the worker stops polling a job that is still to run
  "workerCrash",  \* the worker dies
  "sidecarCrash"  \* the updater container restarts on its own
}

ASSUME BoundsAssumption == MaxRuns \in Nat /\ MaxVersion \in Nat
ASSUME ServicesAssumption == Server \in Services /\ Updater \in Services
ASSUME ModesAssumption == Modes \subseteq {"truenas", "generic"}
ASSUME FaultsAssumption == Faults \subseteq FaultKinds

Runs     == 1..MaxRuns
NoRun    == 0               \* runId: null
Versions == 0..MaxVersion
NoImage  == -1              \* getImageId's null

VARIABLES
  mode,       \* the kind of this deployment, fixed
  released,   \* the newest release tag in the upstream repository
  head,       \* the release the bind-mounted checkout is at
  images,     \* images[s]: the release that service's :latest image was built from
  running,    \* running[s]: the release that service's container runs
  pc,         \* where runUpdate is; "idle" iff phaseARunning is false
  todo,       \* services the build or the restore has still to do
  mem,        \* inMemoryState
  lastRun,    \* runs accepted so far
  plan,       \* plan[r]: the locals targetTag, previousRef, previousImageIds of run r
  chan,       \* chan[r]: the SSH command of run r
  lock,       \* the run whose worker holds the flock on update.lock
  worker,     \* worker[r]: where run_worker is for run r
  file,       \* state.json
  job,        \* job[r]: the middleware's app.redeploy job of run r
  origin      \* history: head and images when the last run was accepted

deploymentVars == <<mode, released, head, images, running>>
sidecarVars    == <<pc, todo, mem, lastRun, plan, origin>>
hostVars       == <<lock, worker, file, job>>
vars == <<deploymentVars, sidecarVars, chan, hostVars>>

Statuses == {"idle", "updating", "success", "failed"}
Stages   == {"none", "checkout", "build", "handoff", "redeploy", "up", "health-check"}
Errors   == {"none", "reason", "unverified", "unexpected"}
PCs      == {"idle", "refs", "checkout", "snapshot", "build", "await", "up", "restore"}

IdleState == [run |-> NoRun, status |-> "idle", stage |-> "none", error |-> "none"]
NoFile    == IdleState      \* state.json does not exist: reads the same as IDLE_STATE
NoPlan    == [target |-> 0, prevRef |-> 0, snap |-> [s \in Services |-> NoImage]]

\* Worker states in which the process exists and so holds the flock: it still
\* exists for a moment after its last write.
Working  == {"spawned", "calling", "polling", "checking"}
Finished == {"succeeded", "failed"}

Reports == [run : Runs \cup {NoRun}, status : Statuses, stage : Stages, error : Errors]
Plans   == [target : Versions, prevRef : Versions, snap : [Services -> Versions \cup {NoImage}]]

DeploymentTypeOK ==
  /\ mode \in Modes
  /\ released \in Versions /\ head \in Versions
  /\ images \in [Services -> Versions]
  /\ running \in [Services -> Versions]

SidecarTypeOK ==
  /\ pc \in PCs
  /\ todo \subseteq Services
  /\ mem \in Reports
  /\ lastRun \in 0..MaxRuns
  /\ plan \in [Runs -> Plans]
  /\ origin \in [head : Versions, images : [Services -> Versions]]

HostTypeOK ==
  /\ chan \in [Runs -> {"none", "sent", "started", "rejected", "dropped"}]
  /\ lock \in Runs \cup {NoRun}
  /\ worker \in [Runs -> {"none", "crashed"} \cup Working \cup Finished]
  /\ file \in Reports
  /\ job \in [Runs -> {"none", "queued", "SUCCESS", "FAILED"}]

TypeOK == DeploymentTypeOK /\ SidecarTypeOK /\ HostTypeOK

Init ==
  /\ mode \in Modes
  /\ released = 0 /\ head = 0
  /\ images = [s \in Services |-> 0] /\ running = images
  /\ pc = "idle" /\ todo = {} /\ mem = IdleState /\ lastRun = 0
  /\ plan = [r \in Runs |-> NoPlan]
  /\ chan = [r \in Runs |-> "none"]
  /\ lock = NoRun /\ worker = [r \in Runs |-> "none"]
  /\ file = NoFile /\ job = [r \in Runs |-> "none"]
  /\ origin = [head |-> head, images |-> images]

-------------------------------------------------------------------------------
(***************************************************************************)
(* The sidecar's HTTP server: POST /apply and GET /status.                 *)
(***************************************************************************)

phaseARunning == pc # "idle"

\* Mutant: the host-side worker's status is not looked at.
RefusesMut == phaseARunning

\* POST /apply answers 409.
Refuses == phaseARunning \/ file.status = "updating"

\* Mutant: state.json wins whenever it exists.
MergeStatusFileMut(memory, host) == IF host.run = NoRun THEN memory ELSE host

\* Mutant: state.json is not read.
MergeStatusMemoryMut(memory, host) == memory

\* lib.js mergeStatus.  In-memory startedAt is in milliseconds and the file's
\* in seconds, so that of a state with a run always exceeds the file's, and
\* IDLE_STATE's 0 never does.
MergeStatus(memory, host) ==
  IF host.run = NoRun \/ (memory.run # NoRun /\ memory.run # host.run)
    THEN memory
    ELSE host

\* GET /status
Status == MergeStatus(mem, file)

\* POST /apply answers 202; runUpdate runs up to its first await.
Apply ==
  /\ ~Refuses
  /\ lastRun < MaxRuns
  /\ lastRun' = lastRun + 1
  /\ pc' = "refs"
  /\ mem' = [IdleState EXCEPT !.run = lastRun', !.status = "updating", !.stage = "checkout"]
  /\ origin' = [head |-> head, images |-> images]
  /\ UNCHANGED <<deploymentVars, todo, plan, chan, hostVars>>

-------------------------------------------------------------------------------
(***************************************************************************)
(* Phase A: runUpdate, one action per await.                               *)
(***************************************************************************)

\* rev-parse HEAD, fetch --tags, newest tag
ReadRefs ==
  /\ pc = "refs"
  /\ plan' = [plan EXCEPT ![mem.run].target = released, ![mem.run].prevRef = head]
  /\ pc' = "checkout"
  /\ UNCHANGED <<deploymentVars, todo, mem, lastRun, origin, chan, hostVars>>

Checkout ==
  /\ pc = "checkout"
  /\ head' = plan[mem.run].target
  /\ mem' = [mem EXCEPT !.stage = "build"]
  /\ pc' = "snapshot"
  /\ UNCHANGED <<mode, released, images, running, todo, lastRun, plan, origin, chan, hostVars>>

\* Every failure of docker image inspect is taken for "no such image".
SnapshotImages ==
  /\ pc = "snapshot"
  /\ \E unread \in IF "inspect" \in Faults THEN SUBSET Services ELSE {{}} :
       plan' = [plan EXCEPT ![mem.run].snap =
                  [s \in Services |-> IF s \in unread THEN NoImage ELSE images[s]]]
  /\ pc' = "build" /\ todo' = Services
  /\ UNCHANGED <<deploymentVars, mem, lastRun, origin, chan, hostVars>>

\* docker compose build finishes one service and retags its image.
BuildService(s) ==
  /\ pc = "build" /\ s \in todo
  /\ images' = [images EXCEPT ![s] = head]
  /\ todo' = todo \ {s}
  /\ UNCHANGED <<mode, released, head, running, pc, mem, lastRun, plan, origin, chan, hostVars>>

\* Mutant: the build is not awaited.
BuildDoneMut ==
  /\ pc = "build"
  /\ IF mode = "truenas"
       THEN pc' = "await" /\ chan' = [chan EXCEPT ![mem.run] = "sent"]
       ELSE pc' = "up" /\ UNCHANGED chan
  /\ UNCHANGED <<deploymentVars, todo, mem, lastRun, plan, origin, hostVars>>

\* The build succeeded: ssh is spawned, or `up -d` is.
BuildDone ==
  /\ pc = "build" /\ todo = {}
  /\ IF mode = "truenas"
       THEN pc' = "await" /\ chan' = [chan EXCEPT ![mem.run] = "sent"]
       ELSE pc' = "up" /\ UNCHANGED chan
  /\ UNCHANGED <<deploymentVars, todo, mem, lastRun, plan, origin, hostVars>>

\* failPhaseA begins: after a failed build, or an unconfirmed handoff.
FailPhaseA ==
  /\ pc' = "restore" /\ todo' = Services
  /\ UNCHANGED <<deploymentVars, mem, lastRun, plan, origin, hostVars>>

BuildFails ==
  /\ pc = "build"
  /\ FailPhaseA /\ UNCHANGED chan

RestoreImage(s) ==
  LET prevId == plan[mem.run].snap[s]
  IN /\ pc = "restore" /\ s \in todo
     /\ todo' = todo \ {s}
     /\ \/ prevId # NoImage /\ images' = [images EXCEPT ![s] = prevId]
        \/ (prevId = NoImage \/ "retag" \in Faults) /\ UNCHANGED images
     /\ UNCHANGED <<mode, released, head, running, pc, mem, lastRun, plan, origin, chan, hostVars>>

\* restoreImages' verdict on what it left behind
Restored(r) == \A s \in Services : plan[r].snap[s] \in {NoImage, images[s]}

\* Mutant: failPhaseA restores the images but not the checkout.
RevertMut ==
  /\ pc = "restore" /\ todo = {} /\ Restored(mem.run)
  /\ mem' = [mem EXCEPT !.status = "failed", !.error = "reason"]
  /\ pc' = "idle"
  /\ UNCHANGED <<deploymentVars, todo, lastRun, plan, origin, chan, hostVars>>

\* failPhaseA ends: git checkout of previousRef, then the verdict.  Reading an
\* image back may itself fail, so a good restore may be reported unverified.
Revert ==
  /\ pc = "restore" /\ todo = {}
  /\ head' = plan[mem.run].prevRef
  /\ \E e \in {"reason", "unverified"} :
       /\ e = "reason" => Restored(mem.run)
       /\ e = "unverified" => ~Restored(mem.run) \/ Faults \cap {"inspect", "retag"} # {}
       /\ mem' = [mem EXCEPT !.status = "failed", !.error = e,
                             !.stage = IF chan[mem.run] = "none" THEN "build" ELSE "handoff"]
  /\ pc' = "idle"
  /\ UNCHANGED <<mode, released, images, running, todo, lastRun, plan, origin, chan, hostVars>>

\* Mutant: phaseARunning is not reset in a finally.
UnexpectedErrorMut ==
  /\ pc \in {"refs", "checkout"} \/ (pc = "restore" /\ todo = {})
  /\ mem' = [mem EXCEPT !.status = "failed", !.error = "unexpected"]
  /\ pc' = "hung"
  /\ UNCHANGED <<deploymentVars, todo, lastRun, plan, origin, chan, hostVars>>

\* A git command throws: runUpdate's outer catch, which restores nothing.
UnexpectedError ==
  /\ pc \in {"refs", "checkout"} \/ (pc = "restore" /\ todo = {})
  /\ mem' = [mem EXCEPT !.status = "failed", !.error = "unexpected"]
  /\ pc' = "idle"
  /\ UNCHANGED <<deploymentVars, todo, lastRun, plan, origin, chan, hostVars>>

\* The sidecar's container is recreated or restarts: its memory is gone.
SidecarReset == pc' = "idle" /\ todo' = {} /\ mem' = IdleState

\* Containers of the services in S are recreated from the current images.
Recreate(S) == running' = [s \in Services |-> IF s \in S THEN images[s] ELSE running[s]]

\* Generic deployment, `docker compose up -d`: recreates the containers whose
\* image changed.  Recreating the updater's own one cuts runUpdate short.
GenericUp ==
  LET changed == {s \in Services : images[s] # running[s]}
  IN /\ pc = "up"
     /\ \/ /\ Updater \notin changed /\ Recreate(changed)
           /\ pc' = "idle" /\ UNCHANGED todo
           /\ mem' = [mem EXCEPT !.status = "success", !.stage = "up"]
        \/ /\ Updater \in changed
           /\ \E S \in SUBSET changed : Updater \in S /\ Recreate(S)
           /\ SidecarReset
     /\ UNCHANGED <<mode, released, head, images, lastRun, plan, origin, chan, hostVars>>

\* `up -d` fails part of the way: the outer catch.
GenericUpFails ==
  /\ pc = "up"
  /\ \E S \in SUBSET (Services \ {Updater}) : Recreate(S)
  /\ mem' = [mem EXCEPT !.status = "failed", !.error = "unexpected"]
  /\ pc' = "idle"
  /\ UNCHANGED <<mode, released, head, images, todo, lastRun, plan, origin, chan, hostVars>>

-------------------------------------------------------------------------------
(***************************************************************************)
(* The handoff: runSshTrigger and parseTriggerResponse on one side, the    *)
(* forced command's main() on the other.                                   *)
(***************************************************************************)

\* "started runId=<own id>" and exit code 0 came back in time.
HandoffAccepted ==
  /\ pc = "await" /\ chan[mem.run] = "started"
  /\ "slowWorker" \in Faults \/ worker[mem.run] # "spawned"
  /\ mem' = [mem EXCEPT !.stage = "redeploy"]
  /\ pc' = "idle"
  /\ UNCHANGED <<deploymentVars, todo, lastRun, plan, origin, chan, hostVars>>

HandoffRejected ==
  /\ pc = "await" /\ chan[mem.run] = "rejected"
  /\ FailPhaseA /\ UNCHANGED chan

\* The host was never reached.
HandoffUnreachable ==
  /\ pc = "await" /\ chan[mem.run] = "sent"
  /\ chan' = [chan EXCEPT ![mem.run] = "dropped"]
  /\ FailPhaseA

\* ssh is killed after timeoutMs; what it had sent is still out there.
HandoffTimeout ==
  /\ "ackLost" \in Faults
  /\ pc = "await"
  /\ FailPhaseA /\ UNCHANGED chan

\* Mutant: the worker starts without taking the flock's verdict into account.
TriggerAcceptsMut(r) ==
  /\ chan[r] = "sent" /\ plan[r].target \notin Unparsable
  /\ lock' = r
  /\ worker' = [worker EXCEPT ![r] = "spawned"]
  /\ chan' = [chan EXCEPT ![r] = "started"]
  /\ UNCHANGED <<deploymentVars, sidecarVars, file, job>>

\* The forced command takes the flock and forks the worker before it answers.
TriggerAccepts(r) ==
  /\ chan[r] = "sent" /\ lock = NoRun /\ plan[r].target \notin Unparsable
  /\ lock' = r
  /\ worker' = [worker EXCEPT ![r] = "spawned"]
  /\ chan' = [chan EXCEPT ![r] = "started"]
  /\ UNCHANGED <<deploymentVars, sidecarVars, file, job>>

\* The lock is held (LOCK_NB), or the request does not match REQUEST_PATTERN.
TriggerRejects(r) ==
  /\ chan[r] = "sent"
  /\ lock # NoRun \/ plan[r].target \in Unparsable
  /\ chan' = [chan EXCEPT ![r] = "rejected"]
  /\ UNCHANGED <<deploymentVars, sidecarVars, hostVars>>

-------------------------------------------------------------------------------
(***************************************************************************)
(* Phase B: run_worker, a process of the host.                             *)
(***************************************************************************)

\* Mutant: a status the rest of the system does not know.
WriteStateMut(r, status, stage) ==
  file' = [run |-> r, stage |-> stage, error |-> "none",
           status |-> IF status = "success" THEN "done" ELSE status]

WriteState(r, status, stage) ==
  file' = [run |-> r, status |-> status, stage |-> stage,
           error |-> IF status = "failed" THEN "reason" ELSE "none"]

\* The worker reports `status` and moves on to `next`.
Report(r, next, status, stage) ==
  /\ WriteState(r, status, stage)
  /\ worker' = [worker EXCEPT ![r] = next]
  /\ UNCHANGED <<deploymentVars, sidecarVars, chan, lock>>

WorkerBegins(r) ==
  /\ worker[r] = "spawned"
  /\ Report(r, "calling", "updating", "redeploy")
  /\ UNCHANGED job

\* midclt call app.redeploy returned a job id: nothing is written until it ends.
WorkerCallsRedeploy(r) ==
  /\ worker[r] = "calling"
  /\ job' = [job EXCEPT ![r] = "queued"]
  /\ worker' = [worker EXCEPT ![r] = "polling"]
  /\ UNCHANGED <<deploymentVars, sidecarVars, chan, lock, file>>

\* midclt failed; if it only timed out, the job exists all the same.
WorkerCallFails(r) ==
  /\ worker[r] = "calling"
  /\ Report(r, "failed", "failed", "redeploy")
  /\ \/ UNCHANGED job
     \/ "callTimeout" \in Faults /\ job' = [job EXCEPT ![r] = "queued"]

\* Mutant: a job that ended is taken for one that succeeded.
WorkerSeesJobEndMut(r) ==
  /\ worker[r] = "polling" /\ job[r] \in {"SUCCESS", "FAILED"}
  /\ Report(r, "checking", "updating", "health-check")
  /\ UNCHANGED job

\* core.get_jobs shows the job in a final state.
WorkerSeesJobEnd(r) ==
  /\ worker[r] = "polling"
  /\ \/ job[r] = "SUCCESS" /\ Report(r, "checking", "updating", "health-check")
     \/ job[r] = "FAILED" /\ Report(r, "failed", "failed", "redeploy")
  /\ UNCHANGED job

\* Mutant: the failure is reported, but the worker does not return.
WorkerLosesJobMut(r) ==
  /\ "pollLost" \in Faults
  /\ worker[r] = "polling" /\ job[r] = "queued"
  /\ Report(r, "polling", "failed", "redeploy")
  /\ UNCHANGED job

\* A poll raised, or JOB_POLL_TIMEOUT_SECONDS passed, with the job still to run.
WorkerLosesJob(r) ==
  /\ "pollLost" \in Faults
  /\ worker[r] = "polling" /\ job[r] = "queued"
  /\ Report(r, "failed", "failed", "redeploy")
  /\ UNCHANGED job

WorkerSeesHealth(r) ==
  /\ worker[r] = "checking" /\ running[Server] = plan[r].target
  /\ Report(r, "succeeded", "success", "health-check")
  /\ UNCHANGED job

\* Mutant: the worker gives up without a last report.
WorkerHealthTimeoutMut(r) ==
  /\ worker[r] = "checking"
  /\ worker' = [worker EXCEPT ![r] = "failed"]
  /\ UNCHANGED <<deploymentVars, sidecarVars, chan, lock, file, job>>

\* HEALTH_TIMEOUT_SECONDS passed without the server answering with its version.
WorkerHealthTimeout(r) ==
  /\ worker[r] = "checking"
  /\ Report(r, "failed", "failed", "health-check")
  /\ UNCHANGED job

\* os._exit(0): the kernel releases the flock.
WorkerExits(r) ==
  /\ worker[r] \in Finished /\ lock = r
  /\ lock' = NoRun
  /\ UNCHANGED <<deploymentVars, sidecarVars, chan, worker, file, job>>

\* The worker dies at any point before its last write; the flock goes with it.
WorkerCrash(r) ==
  /\ "workerCrash" \in Faults
  /\ worker[r] \in Working
  /\ worker' = [worker EXCEPT ![r] = "crashed"]
  /\ lock' = NoRun
  /\ UNCHANGED <<deploymentVars, sidecarVars, chan, file, job>>

-------------------------------------------------------------------------------
(***************************************************************************)
(* The surroundings: TrueNAS's middleware, the release repository, and     *)
(* restarts of the sidecar that no update asked for.                       *)
(***************************************************************************)

\* The app.redeploy job runs; one that fails may have recreated some containers.
JobRuns(r) ==
  /\ job[r] = "queued"
  /\ \E S \in SUBSET Services :
       /\ Recreate(S)
       /\ \/ S = Services /\ job' = [job EXCEPT ![r] = "SUCCESS"]
          \/ job' = [job EXCEPT ![r] = "FAILED"]
       /\ IF Updater \in S THEN SidecarReset ELSE UNCHANGED <<pc, todo, mem>>
  /\ UNCHANGED <<mode, released, head, images, lastRun, plan, origin, chan, lock, worker, file>>

PublishRelease ==
  /\ released < MaxVersion
  /\ released' = released + 1
  /\ UNCHANGED <<mode, head, images, running, sidecarVars, chan, hostVars>>

SidecarCrash ==
  /\ "sidecarCrash" \in Faults
  /\ SidecarReset
  /\ UNCHANGED <<deploymentVars, lastRun, plan, origin, chan, hostVars>>

SidecarStep ==
  \/ ReadRefs \/ Checkout \/ SnapshotImages
  \/ \E s \in Services : BuildService(s) \/ RestoreImage(s)
  \/ BuildDone \/ BuildFails \/ Revert \/ UnexpectedError
  \/ GenericUp \/ GenericUpFails
  \/ HandoffAccepted \/ HandoffRejected \/ HandoffUnreachable \/ HandoffTimeout

TriggerStep(r) == TriggerAccepts(r) \/ TriggerRejects(r)

WorkerStep(r) ==
  \/ WorkerBegins(r) \/ WorkerCallsRedeploy(r) \/ WorkerCallFails(r)
  \/ WorkerSeesJobEnd(r) \/ WorkerLosesJob(r)
  \/ WorkerSeesHealth(r) \/ WorkerHealthTimeout(r) \/ WorkerExits(r)

Next ==
  \/ Apply \/ SidecarStep
  \/ \E r \in Runs : TriggerStep(r) \/ WorkerStep(r) \/ WorkerCrash(r) \/ JobRuns(r)
  \/ PublishRelease \/ SidecarCrash

Spec == Init /\ [][Next]_vars

-------------------------------------------------------------------------------
(***************************************************************************)
(* What holds whatever the environment does (any Faults).                  *)
(***************************************************************************)

\* A live worker holds the flock, so there is never more than one, however
\* requests are delayed and whichever processes die.
LockHeld == \A r \in Runs : worker[r] \in Working => lock = r

\* state.json says "updating" only for a worker that is at work or was killed
\* at it: no worker leaves "updating" behind by finishing.
ReportedByWorker ==
  file.status = "updating" => worker[file.run] \in (Working \ {"spawned"}) \cup {"crashed"}

\* Once a run's outcome is in state.json it is never rewritten: another run
\* may replace it, nothing changes it.
OutcomeIsFinal ==
  [][file.status \in {"success", "failed"} => (file'.run = file.run => file' = file)]_file

\* "success" is reported only for a run whose own redeploy job succeeded.
SuccessEarned == file.status = "success" => job[file.run] = "SUCCESS"

\* When Phase A reports a failed run without its warning, the checkout and
\* every image it had an id for are what they were when the run was accepted.
FailureRestored ==
  mem.status = "failed" /\ mem.error = "reason" =>
    /\ head = origin.head
    /\ \A s \in Services : plan[mem.run].snap[s] # NoImage => images[s] = origin.images[s]

-------------------------------------------------------------------------------
(***************************************************************************)
(* What holds in an environment without the faults named above.            *)
(***************************************************************************)

\* The update contract, as this system realises it.
ContractPhase ==
  [r \in Runs |->
     CASE r > lastRun -> "new"
       [] r <= lastRun /\ worker[r] \in Working -> "redeploying"
       [] r <= lastRun /\ worker[r] = "none" /\ phaseARunning /\ mem.run = r -> "preparing"
       [] OTHER -> "ended"]

Contract == INSTANCE UpdateContract WITH phase <- ContractPhase

\* One update at a time, from the 202 to the outcome, and none that ended ever
\* redeploys: the two guards and the flock together implement the contract.
ImplementsContract == Contract!Spec

\* Containers are only ever recreated from images of one and the same release,
\* never from a build or a restore that is half done.
RedeploysWhole ==
  [][running' # running => \A s, t \in Services : images[s] = images[t]]_running

\* When a worker reports success, every service runs the run's target, although
\* the health check asks one of them only.
SuccessMeansDeployed ==
  [][\A r \in Runs : worker[r] # "succeeded" /\ worker'[r] = "succeeded" =>
       \A s \in Services : running[s] = plan[r].target]_worker

\* A run that Phase A has failed and rolled back is never redeployed.
FailedNeverRedeploys ==
  mem.status = "failed" /\ mem.stage \in {"build", "handoff"} => job[mem.run] = "none"

Fairness ==
  /\ WF_vars(SidecarStep)
  /\ \A r \in Runs : WF_vars(WorkerStep(r)) /\ WF_vars(JobRuns(r))

FairSpec == Spec /\ Fairness

\* POST /apply never answers 409 for ever.
LockoutEnds == Refuses ~> ~Refuses

===============================================================================
