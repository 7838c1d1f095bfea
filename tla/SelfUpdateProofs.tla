--------------------------- MODULE SelfUpdateProofs ---------------------------
(***************************************************************************)
(* Proofs about SelfUpdate and UpdateBanner, for any number of runs,       *)
(* releases, services and banners: what holds whatever goes wrong; and of  *)
(* a deployment where nothing is lost or late between the sidecar, the     *)
(* worker and the middleware, that SelfUpdate implements UpdateContract    *)
(* and that no banner shows the outcome of an update older than its own.   *)
(***************************************************************************)
EXTENDS UpdateBanner, TLAPS


\* The few facts about numbers the proofs need; Runs and Versions stay opaque.
LEMMA NumberFacts ==
  /\ 0 \in Versions /\ 0 \in 0..MaxRuns
  /\ \A v \in Versions : v < MaxVersion => v + 1 \in Versions
  /\ NoRun \notin Runs
  /\ \A n \in 0..MaxRuns : n < MaxRuns => n + 1 \in Runs /\ n + 1 \in 0..MaxRuns
BY BoundsAssumption DEF Versions, Runs, NoRun

-------------------------------------------------------------------------------
(***************************************************************************)
(* Types.  The locals of Phase A exist while it runs, so TypeOK needs to   *)
(* know that a running Phase A has a run.                                  *)
(***************************************************************************)

PhaseAHasRun == phaseARunning => mem.run \in Runs

TypeInv == TypeOK /\ PhaseAHasRun

LEMMA TypeInit == Init => TypeInv
<1> SUFFICES ASSUME Init PROVE TypeInv
  OBVIOUS
<1>1. DeploymentTypeOK
  BY NumberFacts DEF Init, DeploymentTypeOK
<1>2. SidecarTypeOK
  BY NumberFacts, <1>1 DEF Init, SidecarTypeOK, DeploymentTypeOK, IdleState, NoPlan, Reports,
                          Plans, PCs, Statuses, Stages, Errors
<1>3. HostTypeOK
  BY DEF Init, HostTypeOK, NoFile, IdleState, Reports, Statuses, Stages, Errors
<1>4. PhaseAHasRun
  BY DEF Init, PhaseAHasRun, phaseARunning
<1>5. QED
  BY <1>1, <1>2, <1>3, <1>4 DEF TypeInv, TypeOK

\* A step of the sidecar leaves the host alone and keeps the types.
LEMMA SidecarTypes ==
  ASSUME TypeInv, SidecarStep
  PROVE  DeploymentTypeOK' /\ SidecarTypeOK' /\ PhaseAHasRun'
<1> USE DEF TypeInv, TypeOK, PhaseAHasRun, phaseARunning, PCs, Statuses, Stages, Errors,
            deploymentVars, sidecarVars, DeploymentTypeOK, SidecarTypeOK, Reports, Plans
<1>1. CASE ReadRefs
  BY <1>1 DEF ReadRefs
<1>2. CASE Checkout
  BY <1>2 DEF Checkout
<1>3. CASE SnapshotImages
  BY <1>3 DEF SnapshotImages
<1>4. ASSUME NEW s \in Services, BuildService(s) \/ RestoreImage(s)
      PROVE  DeploymentTypeOK' /\ SidecarTypeOK' /\ PhaseAHasRun'
  BY <1>4 DEF BuildService, RestoreImage
<1>5. CASE BuildDone \/ BuildFails \/ HandoffRejected \/ HandoffUnreachable \/ HandoffTimeout
  BY <1>5 DEF BuildDone, BuildFails, HandoffRejected, HandoffUnreachable, HandoffTimeout,
              FailPhaseA
<1>6. CASE Revert
  BY <1>6 DEF Revert
<1>7. CASE UnexpectedError \/ HandoffAccepted
  BY <1>7 DEF UnexpectedError, HandoffAccepted
<1>8. CASE GenericUp
  <2>1. running' \in [Services -> Versions]
    BY <1>8 DEF GenericUp, Recreate
  <2>2. CASE SidecarReset
    BY <1>8, <2>1, <2>2 DEF GenericUp, SidecarReset, IdleState
  <2>3. CASE ~SidecarReset
    BY <1>8, <2>1, <2>3 DEF GenericUp
  <2>4. QED
    BY <2>2, <2>3
<1>9. CASE GenericUpFails
  BY <1>9 DEF GenericUpFails, Recreate
<1>10. QED
  BY <1>1, <1>2, <1>3, <1>4, <1>5, <1>6, <1>7, <1>8, <1>9 DEF SidecarStep


LEMMA HostTypes ==
  ASSUME TypeInv, NEW r \in Runs, TriggerStep(r) \/ WorkerStep(r) \/ WorkerCrash(r)
  PROVE  TypeInv'
<1> USE DEF TypeInv, TypeOK, PhaseAHasRun, phaseARunning
<1>1. UNCHANGED <<deploymentVars, sidecarVars>>
  BY DEF TriggerStep, TriggerAccepts, TriggerRejects, WorkerStep, WorkerBegins,
         WorkerCallsRedeploy, WorkerCallFails, WorkerSeesJobEnd, WorkerLosesJob,
         WorkerSeesHealth, WorkerHealthTimeout, WorkerExits, WorkerCrash, Report
<1>2. DeploymentTypeOK' /\ SidecarTypeOK' /\ PhaseAHasRun'
  BY <1>1 DEF deploymentVars, sidecarVars, DeploymentTypeOK, SidecarTypeOK
<1>3. HostTypeOK'
  <2> USE DEF HostTypeOK, Working, Finished
  <2>1. CASE TriggerStep(r)
    BY <2>1 DEF TriggerStep, TriggerAccepts, TriggerRejects, hostVars
  <2>2. CASE WorkerCallsRedeploy(r) \/ WorkerExits(r) \/ WorkerCrash(r)
    BY <2>2 DEF WorkerCallsRedeploy, WorkerExits, WorkerCrash
  <2>3. ASSUME NEW next \in Working \cup Finished, NEW status \in Statuses, NEW stage \in Stages,
               Report(r, next, status, stage),
               UNCHANGED job \/ job' = [job EXCEPT ![r] = "queued"]
        PROVE  HostTypeOK'
    BY <2>3 DEF Report, WriteState, Reports, Errors
  <2>4. CASE \/ WorkerBegins(r) \/ WorkerCallFails(r) \/ WorkerSeesJobEnd(r) \/ WorkerLosesJob(r)
             \/ WorkerSeesHealth(r) \/ WorkerHealthTimeout(r)
    BY <2>3, <2>4 DEF WorkerBegins, WorkerCallFails, WorkerSeesJobEnd, WorkerLosesJob,
                      WorkerSeesHealth, WorkerHealthTimeout, Statuses, Stages
  <2>5. QED
    BY <2>1, <2>2, <2>4 DEF WorkerStep
<1>4. QED
  BY <1>2, <1>3

\* No step of the system leaves the types.
LEMMA TypeStep == TypeInv /\ [Next]_vars => TypeInv'
<1> SUFFICES ASSUME TypeInv, [Next]_vars PROVE TypeInv'
  OBVIOUS
<1> USE DEF deploymentVars, sidecarVars, hostVars
<1>1. CASE Apply
  <2>1. lastRun' \in 0..MaxRuns /\ lastRun' \in Runs
    BY <1>1, NumberFacts DEF Apply, TypeInv, TypeOK, SidecarTypeOK
  <2>2. SidecarTypeOK' /\ PhaseAHasRun'
    BY <1>1, <2>1 DEF Apply, TypeInv, TypeOK, SidecarTypeOK, DeploymentTypeOK, PhaseAHasRun,
                      PCs, Reports, IdleState, Statuses, Stages, Errors
  <2>3. DeploymentTypeOK' /\ HostTypeOK'
    BY <1>1 DEF Apply, TypeInv, TypeOK, DeploymentTypeOK, HostTypeOK
  <2>4. QED
    BY <2>2, <2>3 DEF TypeInv, TypeOK
<1>2. CASE SidecarStep
  <2>1. DeploymentTypeOK' /\ SidecarTypeOK' /\ PhaseAHasRun'
    BY <1>2, SidecarTypes
  <2>2. UNCHANGED hostVars /\ (UNCHANGED chan \/ \E q \in Runs, c \in {"sent", "dropped"} :
                                 chan' = [chan EXCEPT ![q] = c])
    BY <1>2 DEF SidecarStep, TypeInv, PhaseAHasRun, phaseARunning,
       ReadRefs, Checkout, SnapshotImages, BuildService, RestoreImage, BuildDone, BuildFails,
       HandoffRejected, HandoffUnreachable, HandoffTimeout, FailPhaseA, Revert,
       UnexpectedError, HandoffAccepted, GenericUp, GenericUpFails
  <2>3. HostTypeOK'
    BY <2>2 DEF TypeInv, TypeOK, HostTypeOK
  <2>4. QED
    BY <2>1, <2>3 DEF TypeInv, TypeOK
<1>3. ASSUME NEW r \in Runs, JobRuns(r) PROVE TypeInv'
  <2>1. running' \in [Services -> Versions]
    BY <1>3 DEF JobRuns, Recreate, TypeInv, TypeOK, DeploymentTypeOK
  <2>2. pc' \in PCs /\ todo' \subseteq Services /\ mem' \in Reports /\ PhaseAHasRun'
    BY <1>3 DEF JobRuns, SidecarReset, TypeInv, TypeOK, SidecarTypeOK, PhaseAHasRun,
                phaseARunning, PCs, Reports, IdleState, Statuses, Stages, Errors
  <2>3. HostTypeOK'
    BY <1>3 DEF JobRuns, TypeInv, TypeOK, HostTypeOK
  <2>4. QED
    BY <1>3, <2>1, <2>2, <2>3 DEF JobRuns, TypeInv, TypeOK, DeploymentTypeOK, SidecarTypeOK
<1>4. CASE PublishRelease
  BY <1>4, NumberFacts DEF PublishRelease, TypeInv, TypeOK, DeploymentTypeOK, SidecarTypeOK,
                           HostTypeOK, PhaseAHasRun, phaseARunning
<1>5. CASE SidecarCrash
  BY <1>5 DEF SidecarCrash, SidecarReset, TypeInv, TypeOK, DeploymentTypeOK, SidecarTypeOK,
              HostTypeOK, PhaseAHasRun, phaseARunning, PCs, Reports, IdleState, Statuses,
              Stages, Errors
<1>6. CASE UNCHANGED vars
  BY <1>6 DEF vars, TypeInv, TypeOK, DeploymentTypeOK, SidecarTypeOK, HostTypeOK, PhaseAHasRun,
              phaseARunning
<1>7. QED
  BY <1>1, <1>2, <1>3, <1>4, <1>5, <1>6, HostTypes DEF Next

\* Every variable keeps its type.
THEOREM TypeCorrect == Spec => []TypeOK
<1>1. Spec => []TypeInv
  BY TypeInit, TypeStep, PTL DEF Spec
<1>2. QED
  BY <1>1, PTL DEF TypeInv

-------------------------------------------------------------------------------
(***************************************************************************)
(* The host.  What the flock and state.json say about the workers follows  *)
(* from the life of one run's SSH command: it is sent once, by the Phase A *)
(* of that run, and a worker exists only once it has been accepted.        *)
(***************************************************************************)

\* The run of a running Phase A is the newest one.
CurrentRun == phaseARunning => mem.run = lastRun

\* No command is sent before the build is done.
SentOnce ==
  \A r \in Runs :
    (r > lastRun \/ (mem.run = r /\ pc \in {"refs", "checkout", "snapshot", "build"})) =>
      chan[r] = "none"

\* No worker and no redeploy job without an accepted command.
NoWorkerUnasked ==
  \A r \in Runs : chan[r] # "started" => worker[r] = "none" /\ job[r] = "none"

JobOfWorker ==
  \A r \in Runs :
    /\ worker[r] \in {"spawned", "calling"} => job[r] = "none"
    /\ worker[r] \in {"checking", "succeeded"} => job[r] = "SUCCESS"

\* What state.json says of a run is where its worker is.
FileOfWorker ==
  /\ file.run = NoRun => file.status = "idle"
  /\ file.status = "idle" => file.run = NoRun
  /\ file.status = "updating" =>
       worker[file.run] \in {"calling", "polling", "checking", "crashed"}
  /\ file.status = "success" => worker[file.run] = "succeeded"
  /\ file.status = "failed" => worker[file.run] = "failed"

HostInv ==
  /\ CurrentRun /\ SentOnce /\ NoWorkerUnasked /\ LockHeld /\ JobOfWorker /\ FileOfWorker

\* The host's part of HostInv depends on the host and the SSH commands only.
LEMMA HostInvInit == Init => HostInv
BY NumberFacts DEF Init, HostInv, CurrentRun, phaseARunning, SentOnce, NoWorkerUnasked, LockHeld,
   JobOfWorker, FileOfWorker, Working, NoFile, IdleState, NoRun

LEMMA HostInvApply == ASSUME TypeInv, HostInv, Apply PROVE HostInv'
<1>1. lastRun \in Nat /\ lastRun' = lastRun + 1 /\ \A r \in Runs : r \in Nat
  BY DEF Apply, TypeInv, TypeOK, SidecarTypeOK, Runs
<1>2. CurrentRun' /\ SentOnce'
  BY <1>1 DEF Apply, HostInv, CurrentRun, SentOnce, IdleState
<1>3. QED
  BY <1>2 DEF Apply, HostInv, NoWorkerUnasked, LockHeld, JobOfWorker, FileOfWorker, hostVars

LEMMA HostInvSidecar == ASSUME TypeInv, HostInv, SidecarStep PROVE HostInv'
<1> USE DEF TypeInv, TypeOK, SidecarTypeOK, HostTypeOK, PhaseAHasRun, HostInv, CurrentRun,
            phaseARunning, SentOnce, NoWorkerUnasked, PCs, hostVars, sidecarVars
<1>1. UNCHANGED hostVars /\ lastRun' = lastRun
  BY DEF SidecarStep, ReadRefs, Checkout, SnapshotImages, BuildService, RestoreImage, BuildDone,
         BuildFails, HandoffRejected, HandoffUnreachable, HandoffTimeout, FailPhaseA, Revert,
         UnexpectedError, HandoffAccepted, GenericUp, GenericUpFails
<1>2. LockHeld' /\ JobOfWorker' /\ FileOfWorker'
  BY <1>1 DEF LockHeld, JobOfWorker, FileOfWorker
<1>3. CASE UNCHANGED chan /\ (pc' = "idle" \/ (mem'.run = mem.run /\ pc # "idle"))
           /\ (pc' \in {"refs", "checkout", "snapshot", "build"} =>
                  pc \in {"refs", "checkout", "snapshot", "build"})
           /\ (pc' = "idle" \/ pc' \in PCs)
  BY <1>1, <1>2, <1>3
<1>4. CASE BuildDone \/ HandoffUnreachable
  BY <1>1, <1>2, <1>4 DEF BuildDone, HandoffUnreachable, FailPhaseA
<1>5. CASE ~(BuildDone \/ HandoffUnreachable)
  <2>1. CASE \/ ReadRefs \/ Checkout \/ SnapshotImages \/ BuildFails \/ HandoffRejected
             \/ HandoffTimeout \/ \E s \in Services : BuildService(s) \/ RestoreImage(s)
    BY <1>3, <2>1 DEF ReadRefs, Checkout, SnapshotImages, BuildService, RestoreImage, BuildFails,
                      HandoffRejected, HandoffTimeout, FailPhaseA, Reports
  <2>2. CASE Revert \/ UnexpectedError \/ GenericUp \/ GenericUpFails \/ HandoffAccepted
    BY <1>3, <2>2 DEF Revert, UnexpectedError, GenericUp, GenericUpFails, HandoffAccepted,
                      SidecarReset
  <2>3. QED
    BY <1>5, <2>1, <2>2 DEF SidecarStep
<1>6. QED
  BY <1>4, <1>5

LEMMA HostInvHost ==
  ASSUME TypeInv, HostInv, NEW r \in Runs,
         TriggerStep(r) \/ WorkerStep(r) \/ WorkerCrash(r) \/ JobRuns(r)
  PROVE  HostInv'
<1> USE DEF HostInv, Working, Finished
<1>1. CASE TriggerStep(r)
  <2>1. UNCHANGED sidecarVars /\ UNCHANGED <<file, job>>
    BY <1>1 DEF TriggerStep, TriggerAccepts, TriggerRejects, hostVars
  <2>2. worker[r] = "none" /\ job[r] = "none" /\ chan[r] = "sent"
    BY <1>1 DEF TriggerStep, TriggerAccepts, TriggerRejects, NoWorkerUnasked
  <2>3. CASE TriggerAccepts(r)
    <3>1. CurrentRun' /\ SentOnce'
      BY <2>1, <2>2, <2>3 DEF TriggerAccepts, sidecarVars, CurrentRun, SentOnce, phaseARunning
    <3>2. NoWorkerUnasked' /\ JobOfWorker'
      BY <2>1, <2>2, <2>3 DEF TriggerAccepts, NoWorkerUnasked, JobOfWorker, TypeInv, TypeOK,
                              HostTypeOK
    <3>3. LockHeld'
      BY <2>3, NumberFacts DEF TriggerAccepts, LockHeld, TypeInv, TypeOK, HostTypeOK
    <3>4. FileOfWorker'
      BY <2>1, <2>2, <2>3 DEF TriggerAccepts, FileOfWorker, TypeInv, TypeOK, HostTypeOK, Reports
    <3>5. QED
      BY <3>1, <3>2, <3>3, <3>4
  <2>4. CASE TriggerRejects(r)
    BY <2>1, <2>2, <2>4 DEF TriggerRejects, sidecarVars, hostVars, CurrentRun, SentOnce,
       phaseARunning, NoWorkerUnasked, JobOfWorker, LockHeld, FileOfWorker, TypeInv, TypeOK,
       HostTypeOK
  <2>5. QED
    BY <1>1, <2>3, <2>4 DEF TriggerStep
<1>2. CASE WorkerStep(r) \/ WorkerCrash(r)
  <2>1. UNCHANGED <<sidecarVars, chan>> /\ worker[r] # "none" /\ chan[r] = "started"
    BY <1>2 DEF WorkerStep, WorkerBegins, WorkerCallsRedeploy, WorkerCallFails,
       WorkerSeesJobEnd, WorkerLosesJob, WorkerSeesHealth, WorkerHealthTimeout, WorkerExits,
       Report, WorkerCrash, NoWorkerUnasked
  <2>2. CurrentRun' /\ SentOnce'
    BY <2>1 DEF sidecarVars, CurrentRun, SentOnce, phaseARunning
  <2>3. NoWorkerUnasked'
    BY <1>2, <2>1 DEF WorkerStep, WorkerBegins, WorkerCallsRedeploy, WorkerCallFails,
       WorkerSeesJobEnd, WorkerLosesJob, WorkerSeesHealth, WorkerHealthTimeout, WorkerExits,
       Report, WorkerCrash, NoWorkerUnasked, TypeInv, TypeOK, HostTypeOK
  <2>4. LockHeld' /\ JobOfWorker'
    BY <1>2 DEF WorkerStep, WorkerBegins, WorkerCallsRedeploy, WorkerCallFails,
       WorkerSeesJobEnd, WorkerLosesJob, WorkerSeesHealth, WorkerHealthTimeout, WorkerExits,
       Report, WorkerCrash, LockHeld, JobOfWorker, TypeInv, TypeOK, HostTypeOK
  <2>5. FileOfWorker'
    <3>1. CASE WorkerCallsRedeploy(r) \/ WorkerCrash(r) \/ WorkerExits(r)
      BY <3>1 DEF WorkerCallsRedeploy, WorkerCrash, WorkerExits, FileOfWorker, TypeInv, TypeOK,
         HostTypeOK, Reports
    <3>2. CASE \/ WorkerBegins(r) \/ WorkerCallFails(r) \/ WorkerSeesJobEnd(r)
               \/ WorkerLosesJob(r) \/ WorkerSeesHealth(r) \/ WorkerHealthTimeout(r)
      BY <3>2, NumberFacts DEF WorkerBegins, WorkerCallFails, WorkerSeesJobEnd, WorkerLosesJob,
         WorkerSeesHealth, WorkerHealthTimeout, Report, WriteState, FileOfWorker, TypeInv, TypeOK,
         HostTypeOK
    <3>3. QED
      BY <1>2, <3>1, <3>2 DEF WorkerStep
  <2>6. QED
    BY <2>2, <2>3, <2>4, <2>5
<1>3. CASE JobRuns(r)
  <2>1. job[r] = "queued" /\ chan[r] = "started" /\ worker[r] \notin {"spawned", "calling"}
    BY <1>3 DEF JobRuns, NoWorkerUnasked, JobOfWorker
  <2>2. CurrentRun' /\ SentOnce'
    BY <1>3 DEF JobRuns, SidecarReset, CurrentRun, SentOnce, phaseARunning, IdleState
  <2>3. NoWorkerUnasked' /\ JobOfWorker'
    BY <1>3, <2>1 DEF JobRuns, NoWorkerUnasked, JobOfWorker, TypeInv, TypeOK, HostTypeOK
  <2>4. LockHeld' /\ FileOfWorker'
    BY <1>3 DEF JobRuns, LockHeld, FileOfWorker
  <2>5. QED
    BY <2>2, <2>3, <2>4
<1>4. QED
  BY <1>1, <1>2, <1>3

LEMMA HostInvStep == TypeInv /\ HostInv /\ [Next]_vars => HostInv'
<1> SUFFICES ASSUME TypeInv, HostInv, [Next]_vars PROVE HostInv'
  OBVIOUS
<1>1. CASE PublishRelease
  BY <1>1 DEF PublishRelease, sidecarVars, hostVars, HostInv, CurrentRun, SentOnce, phaseARunning,
     NoWorkerUnasked, LockHeld, JobOfWorker, FileOfWorker
<1>2. CASE SidecarCrash
  BY <1>2 DEF SidecarCrash, SidecarReset, IdleState, hostVars, HostInv, CurrentRun, SentOnce,
     phaseARunning, NoWorkerUnasked, LockHeld, JobOfWorker, FileOfWorker
<1>3. CASE UNCHANGED vars
  BY <1>3 DEF vars, sidecarVars, hostVars, HostInv, CurrentRun, SentOnce, phaseARunning,
     NoWorkerUnasked, LockHeld, JobOfWorker, FileOfWorker
<1>4. QED
  BY <1>1, <1>2, <1>3, HostInvApply, HostInvSidecar, HostInvHost DEF Next

LEMMA HostInvariant == Spec => [](TypeInv /\ HostInv)
BY TypeInit, TypeStep, HostInvInit, HostInvStep, PTL DEF Spec

\* At most one worker is ever alive and it holds the flock, whatever is delayed
\* or dies.
THEOREM OneWorker == Spec => []LockHeld
BY HostInvariant, PTL DEF HostInv

\* An "updating" state.json belongs to a worker at work or killed at it.
THEOREM UpdatingIsReported == Spec => []ReportedByWorker
<1>1. HostInv => ReportedByWorker
  BY DEF HostInv, FileOfWorker, ReportedByWorker, Working
<1>2. QED
  BY <1>1, HostInvariant, PTL

\* "success" is only ever reported for a run whose own job succeeded.
THEOREM SuccessIsEarned == Spec => []SuccessEarned
<1>1. TypeInv /\ HostInv => SuccessEarned
  BY NumberFacts DEF TypeInv, TypeOK, HostTypeOK, Reports, HostInv, FileOfWorker, JobOfWorker,
                     SuccessEarned
<1>2. QED
  BY <1>1, HostInvariant, PTL

\* An outcome recorded in state.json is never rewritten.
THEOREM OutcomeFinality == Spec => OutcomeIsFinal
<1>1. TypeInv /\ HostInv /\ [Next]_vars =>
        [file.status \in {"success", "failed"} => (file'.run = file.run => file' = file)]_file
  <2> SUFFICES ASSUME TypeInv, HostInv, [Next]_vars, file' # file,
                      file.status \in {"success", "failed"}
               PROVE  file'.run # file.run
    OBVIOUS
  <2>1. PICK r \in Runs : TriggerStep(r) \/ WorkerStep(r) \/ WorkerCrash(r) \/ JobRuns(r)
    <3>1. CASE SidecarStep
      BY <3>1 DEF SidecarStep, ReadRefs, Checkout, SnapshotImages, BuildService, RestoreImage,
         BuildDone, BuildFails, HandoffRejected, HandoffUnreachable, HandoffTimeout, FailPhaseA,
         Revert, UnexpectedError, HandoffAccepted, GenericUp, GenericUpFails, hostVars
    <3>2. QED
      BY <3>1 DEF Next, Apply, PublishRelease, SidecarCrash, vars, hostVars
  <2>2. worker[file.run] \in Finished
    BY DEF HostInv, FileOfWorker, Finished
  <2>3. worker[r] \in Working /\ file'.run = r
    BY <2>1 DEF TriggerStep, TriggerAccepts, TriggerRejects, WorkerStep, WorkerBegins,
       WorkerCallsRedeploy, WorkerCallFails, WorkerSeesJobEnd, WorkerLosesJob, WorkerSeesHealth,
       WorkerHealthTimeout, WorkerExits, WorkerCrash, JobRuns, Report, WriteState, hostVars, Working
  <2>4. QED
    BY <2>2, <2>3 DEF Working, Finished
<1>2. QED
  BY <1>1, HostInvariant, PTL DEF Spec, OutcomeIsFinal

-------------------------------------------------------------------------------
(***************************************************************************)
(* Phase A's rollback.  Only a running Phase A touches the checkout and    *)
(* the images, so what it records before the build is what was there when  *)
(* its run was accepted.                                                   *)
(***************************************************************************)

Building == {"build", "await", "up", "restore"}

RollbackInv ==
  /\ phaseARunning => mem.status = "updating"
  /\ pc \in {"refs", "checkout"} => head = origin.head
  /\ pc \in {"refs", "checkout", "snapshot"} => images = origin.images
  /\ pc \in {"checkout", "snapshot"} \cup Building => plan[mem.run].prevRef = origin.head
  /\ pc \in Building =>
       \A s \in Services : plan[mem.run].snap[s] \in {NoImage, origin.images[s]}
  /\ FailureRestored

LEMMA RollbackInvInit == Init => RollbackInv
BY DEF Init, RollbackInv, phaseARunning, Building, FailureRestored, IdleState

LEMMA RollbackInvSidecar == ASSUME TypeInv, RollbackInv, SidecarStep PROVE RollbackInv'
<1> USE DEF RollbackInv, TypeInv, TypeOK, SidecarTypeOK, DeploymentTypeOK, PhaseAHasRun,
            phaseARunning, Building, FailureRestored, Plans, Reports
<1>1. CASE ReadRefs
  BY <1>1 DEF ReadRefs, deploymentVars
<1>2. CASE Checkout
  BY <1>2 DEF Checkout
<1>3. CASE SnapshotImages
  BY <1>3 DEF SnapshotImages, deploymentVars
<1>4. ASSUME NEW s \in Services, BuildService(s) \/ RestoreImage(s) PROVE RollbackInv'
  BY <1>4 DEF BuildService, RestoreImage
<1>5. CASE BuildDone \/ BuildFails \/ HandoffRejected \/ HandoffUnreachable \/ HandoffTimeout
  BY <1>5 DEF BuildDone, BuildFails, HandoffRejected, HandoffUnreachable, HandoffTimeout,
              FailPhaseA, deploymentVars
<1>6. CASE Revert
  <2>1. mem'.error = "reason" =>
          \A s \in Services : plan[mem.run].snap[s] # NoImage => images[s] = origin.images[s]
    BY <1>6 DEF Revert, Restored
  <2>2. head' = origin.head /\ images' = images /\ UNCHANGED <<plan, origin>> /\ pc' = "idle"
        /\ mem'.run = mem.run
    BY <1>6 DEF Revert
  <2>3. QED
    BY <2>1, <2>2
<1>7. CASE UnexpectedError \/ HandoffAccepted \/ GenericUpFails
  BY <1>7 DEF UnexpectedError, HandoffAccepted, GenericUpFails, deploymentVars
<1>8. CASE GenericUp
  <2>1. pc = "up" /\ pc' = "idle" /\ (mem' = IdleState \/ mem'.status = "success")
    BY <1>8 DEF GenericUp, SidecarReset
  <2>2. QED
    BY <2>1 DEF IdleState
<1>9. QED
  BY <1>1, <1>2, <1>3, <1>4, <1>5, <1>6, <1>7, <1>8 DEF SidecarStep

LEMMA RollbackInvStep == TypeInv /\ RollbackInv /\ [Next]_vars => RollbackInv'
<1> SUFFICES ASSUME TypeInv, RollbackInv, [Next]_vars PROVE RollbackInv'
  OBVIOUS
<1> USE DEF RollbackInv, phaseARunning, Building, FailureRestored
<1>1. CASE Apply
  BY <1>1 DEF Apply, Refuses, deploymentVars, IdleState
<1>2. ASSUME NEW r \in Runs, TriggerStep(r) \/ WorkerStep(r) \/ WorkerCrash(r)
      PROVE  RollbackInv'
  <2>1. UNCHANGED <<deploymentVars, sidecarVars>>
    BY <1>2 DEF TriggerStep, TriggerAccepts, TriggerRejects, WorkerStep, WorkerBegins,
         WorkerCallsRedeploy, WorkerCallFails, WorkerSeesJobEnd, WorkerLosesJob,
         WorkerSeesHealth, WorkerHealthTimeout, WorkerExits, WorkerCrash, Report
  <2>2. QED
    BY <2>1 DEF deploymentVars, sidecarVars
<1>3. ASSUME NEW r \in Runs, JobRuns(r) PROVE RollbackInv'
  BY <1>3 DEF JobRuns, SidecarReset, IdleState
<1>4. CASE PublishRelease
  BY <1>4 DEF PublishRelease, sidecarVars
<1>5. CASE SidecarCrash
  BY <1>5 DEF SidecarCrash, SidecarReset, IdleState, deploymentVars
<1>6. CASE UNCHANGED vars
  BY <1>6 DEF vars, deploymentVars, sidecarVars
<1>7. QED
  BY <1>1, <1>2, <1>3, <1>4, <1>5, <1>6, RollbackInvSidecar DEF Next

\* A failed Phase A that reports no warning has put everything back.
THEOREM RollbackIsComplete == Spec => []FailureRestored
<1>1. RollbackInv => FailureRestored
  BY DEF RollbackInv
<1>2. QED
  BY <1>1, TypeInit, TypeStep, RollbackInvInit, RollbackInvStep, PTL DEF Spec

-------------------------------------------------------------------------------
(***************************************************************************)
(* A run that Phase A has failed: the acknowledgement is the only thing    *)
(* whose loss can have it deployed all the same.                           *)
(***************************************************************************)

\* Once Phase A is past the handoff, or has given its run up, the host has not taken
\* the run's command and never will: none is under way.
GivenUpInv ==
  /\ pc \notin {"idle", "await"} => chan[mem.run] \notin {"sent", "started"}
  /\ mem.status = "failed" => pc = "idle" /\ mem.run \in Runs /\ chan[mem.run] \notin {"sent", "started"}

LEMMA GivenUpSidecar ==
  ASSUME TypeInv, HostInv, GivenUpInv, SidecarStep, "ackLost" \notin Faults
  PROVE  GivenUpInv'
<1>1. /\ pc # "idle"
  BY DEF SidecarStep, ReadRefs, Checkout, SnapshotImages, BuildService, RestoreImage, BuildDone,
         BuildFails, HandoffRejected, HandoffUnreachable, HandoffTimeout, Revert, UnexpectedError,
         HandoffAccepted, GenericUp, GenericUpFails
<1>2. /\ mem.run \in Runs /\ mem.status # "failed" /\ mem \in Reports
      /\ chan \in [Runs -> {"none", "sent", "started", "rejected", "dropped"}]
  BY <1>1 DEF GivenUpInv, TypeInv, TypeOK, SidecarTypeOK, HostTypeOK, PhaseAHasRun, phaseARunning
<1>3. CASE UNCHANGED <<chan, mem>> /\ pc \notin {"idle", "await"}
  BY <1>2, <1>3 DEF GivenUpInv
<1>4. CASE Checkout \/ Revert \/ UnexpectedError \/ GenericUpFails
  <2>1. /\ chan' = chan /\ mem'.run = mem.run /\ pc \notin {"idle", "await"}
        /\ pc' = "idle" \/ mem'.status = mem.status
    BY <1>2, <1>4 DEF Checkout, Revert, UnexpectedError, GenericUpFails, Reports
  <2> QED  BY <1>2, <2>1 DEF GivenUpInv
<1>5. CASE BuildDone
  <2>1. mem' = mem /\ (pc' = "await" \/ UNCHANGED chan) /\ pc = "build"
    BY <1>5 DEF BuildDone
  <2> QED  BY <1>2, <2>1 DEF GivenUpInv
<1>6. CASE HandoffAccepted
  BY <1>2, <1>6 DEF HandoffAccepted, GivenUpInv, Reports
<1>7. CASE HandoffRejected \/ HandoffUnreachable
  <2>1. mem' = mem /\ chan'[mem.run] \in {"rejected", "dropped"}
    BY <1>2, <1>7 DEF HandoffRejected, HandoffUnreachable, FailPhaseA
  <2> QED  BY <1>2, <2>1 DEF GivenUpInv
<1>8. CASE GenericUp
  <2>1. chan' = chan /\ pc' = "idle"
    BY <1>8 DEF GenericUp, SidecarReset
  <2>2. \/ mem' = [mem EXCEPT !.status = "success", !.stage = "up"]
        \/ mem' = IdleState
    BY <1>8 DEF GenericUp, SidecarReset
  <2>3. mem'.status # "failed"
    <3>1. CASE mem' = [mem EXCEPT !.status = "success", !.stage = "up"]
      BY <1>2, <3>1 DEF Reports
    <3>2. CASE mem' = IdleState
      BY <3>2 DEF IdleState
    <3> QED  BY <2>2, <3>1, <3>2
  <2> QED  BY <2>1, <2>3 DEF GivenUpInv
<1> QED
  BY <1>3, <1>4, <1>5, <1>6, <1>7, <1>8
     DEF SidecarStep, ReadRefs, SnapshotImages, BuildService, RestoreImage, BuildFails, FailPhaseA,
         HandoffTimeout

LEMMA GivenUpStep ==
  ASSUME TypeInv, HostInv, GivenUpInv, [Next]_vars, "ackLost" \notin Faults
  PROVE  GivenUpInv'
<1>1. CASE Apply
  <2>1. lastRun + 1 \in Runs /\ chan[lastRun + 1] = "none"
    BY <1>1, NumberFacts DEF Apply, HostInv, SentOnce, TypeInv, TypeOK, SidecarTypeOK
  <2>2. mem'.run = lastRun + 1 /\ mem'.status = "updating" /\ chan' = chan
    BY <1>1 DEF Apply, IdleState
  <2> QED  BY <2>1, <2>2 DEF GivenUpInv
<1>2. ASSUME NEW r \in Runs, TriggerStep(r) \/ WorkerStep(r) \/ WorkerCrash(r) PROVE GivenUpInv'
  <2>1. UNCHANGED <<pc, mem>>
    BY <1>2 DEF TriggerStep, TriggerAccepts, TriggerRejects, WorkerStep, WorkerBegins,
       WorkerCallsRedeploy, WorkerCallFails, WorkerSeesJobEnd, WorkerLosesJob, WorkerSeesHealth,
       WorkerHealthTimeout, WorkerExits, WorkerCrash, Report, sidecarVars
  <2>2. \A q \in Runs : chan[q] \notin {"sent", "started"} => chan'[q] = chan[q]
    BY <1>2 DEF TriggerStep, TriggerAccepts, TriggerRejects, WorkerStep, WorkerBegins,
       WorkerCallsRedeploy, WorkerCallFails, WorkerSeesJobEnd, WorkerLosesJob, WorkerSeesHealth,
       WorkerHealthTimeout, WorkerExits, WorkerCrash, Report, TypeInv, TypeOK, HostTypeOK
  <2> QED  BY <2>1, <2>2 DEF GivenUpInv, TypeInv, PhaseAHasRun, phaseARunning
<1>3. CASE SidecarCrash \/ \E r \in Runs : JobRuns(r)
  <2>1. chan' = chan /\ (UNCHANGED <<pc, mem>> \/ (pc' = "idle" /\ mem' = IdleState))
    BY <1>3 DEF SidecarCrash, JobRuns, SidecarReset
  <2> QED  BY <2>1 DEF GivenUpInv, IdleState
<1>4. CASE PublishRelease \/ UNCHANGED vars
  BY <1>4 DEF PublishRelease, vars, sidecarVars, GivenUpInv
<1> QED  BY <1>1, <1>2, <1>3, <1>4, GivenUpSidecar DEF Next

\* What failPhaseA reports as failed is never redeployed, although the worker may be
\* slow, calls and polls may time out and processes may die at any moment: only the
\* acknowledgement's loss (runSshTrigger's time-out) can have it deployed all the same,
\* which it does (UpdateLostAck.cfg).
THEOREM FailedStaysUndeployed ==
  ASSUME "ackLost" \notin Faults PROVE Spec => []FailedNeverRedeploys
<1>1. Init => GivenUpInv
  BY DEF Init, GivenUpInv, IdleState
<1>2. TypeInv /\ HostInv /\ GivenUpInv /\ [Next]_vars => GivenUpInv'
  BY GivenUpStep
<1>3. HostInv /\ GivenUpInv => FailedNeverRedeploys
  BY DEF GivenUpInv, HostInv, NoWorkerUnasked, FailedNeverRedeploys
<1> QED  BY <1>1, <1>2, <1>3, HostInvariant, PTL DEF Spec

-------------------------------------------------------------------------------
(***************************************************************************)
(* The contract and the banners, with nothing lost or late                 *)
(***************************************************************************)


\* What may fail without breaking the contract: docker inspect and docker tag, and
\* the worker's process.
Tolerated == {"inspect", "retag", "workerCrash"}

\* Phase B is of the run accepted last.
OneRun ==
  \A r \in Runs :
    /\ worker[r] \in Working \/ job[r] = "queued" => r = lastRun
    /\ worker[r] # "none" /\ r = lastRun => pc \in {"idle", "await"}

\* Phase B begins while the sidecar waits for it, and the sidecar stops waiting only
\* once state.json says that it has begun.
Handover ==
  \A r \in Runs :
    /\ chan[r] = "sent" => pc = "await" /\ mem.run = r
    /\ worker[r] = "spawned" => pc = "await"
    /\ worker[r] \in Working \ {"spawned"} => file.status = "updating" /\ file.run = r
    /\ job[r] = "queued" =>
         worker[r] \in {"polling", "crashed"} /\ file.status = "updating" /\ file.run = r

ContractInv == OneRun /\ Handover

\* What all proofs here start from.
Known == TypeInv /\ HostInv /\ ContractInv

LEMMA RunsAreNumbers ==
  ASSUME TypeInv
  PROVE  /\ Runs \subseteq Nat /\ lastRun \in Nat
         /\ lastRun < MaxRuns => lastRun + 1 \in Runs
         /\ lastRun # 0 => lastRun \in Runs
  BY BoundsAssumption DEF Runs, TypeInv, TypeOK, SidecarTypeOK

\* The steps of the worker, of the trigger and of the middleware leave the sidecar's
\* run and the images alone, and the sidecar's steps leave the host alone.
LEMMA HostFrame ==
  ASSUME NEW r \in Runs, TriggerStep(r) \/ WorkerStep(r) \/ WorkerCrash(r)
  PROVE  UNCHANGED <<mode, released, head, images, running, pc, todo, mem, lastRun, plan, origin>>
  BY DEF TriggerStep, TriggerAccepts, TriggerRejects, WorkerStep, WorkerBegins, WorkerCallsRedeploy,
         WorkerCallFails, WorkerSeesJobEnd, WorkerLosesJob, WorkerSeesHealth, WorkerHealthTimeout,
         WorkerExits, WorkerCrash, Report, deploymentVars, sidecarVars

LEMMA SidecarFrame ==
  ASSUME SidecarStep
  PROVE  UNCHANGED <<mode, released, lastRun, origin, lock, worker, file, job>>
  BY DEF SidecarStep, ReadRefs, Checkout, SnapshotImages, BuildService, RestoreImage, BuildDone,
         BuildFails, HandoffRejected, HandoffUnreachable, HandoffTimeout, FailPhaseA, Revert,
         UnexpectedError, HandoffAccepted, GenericUp, GenericUpFails, hostVars, deploymentVars,
         sidecarVars

\* While no run is accepted, the one accepted last has no worker, and none that works.
LEMMA NobodyWorks ==
  ASSUME Known, ~Refuses
  PROVE  \A r \in Runs : worker[r] \notin Working /\ job[r] # "queued" /\ chan[r] # "sent"
  BY DEF Known, ContractInv, Handover, Refuses, phaseARunning, Working

LEMMA ContractInvInit == Init => ContractInv
  BY DEF Init, ContractInv, OneRun, Handover, Working

LEMMA ContractInvApply ==
  ASSUME Known, Apply
  PROVE  ContractInv'
<1>1. \A r \in Runs : worker[r] \notin Working /\ job[r] # "queued" /\ chan[r] # "sent"
  BY NobodyWorks DEF Apply
<1>2. /\ UNCHANGED <<chan, lock, worker, file, job>> /\ lastRun' = lastRun + 1
  BY DEF Apply, hostVars
<1>3. \A r \in Runs : worker[r] # "none" => r # lastRun'
  BY <1>2, RunsAreNumbers DEF Known, HostInv, SentOnce, NoWorkerUnasked
<1> QED  BY <1>1, <1>2, <1>3 DEF ContractInv, OneRun, Handover, Working

LEMMA ContractInvSidecar ==
  ASSUME Known, SidecarStep, Faults \subseteq Tolerated
  PROVE  ContractInv'
<1>1. UNCHANGED <<lastRun, worker, file, job>>
  BY SidecarFrame
<1>2. phaseARunning => mem.run = lastRun /\ mem.run \in Runs
  BY DEF Known, HostInv, CurrentRun, TypeInv, PhaseAHasRun
<1>3. /\ "ackLost" \notin Faults /\ "slowWorker" \notin Faults
      /\ chan \in [Runs -> {"none", "sent", "started", "rejected", "dropped"}]
  BY DEF Tolerated, Known, TypeInv, TypeOK, HostTypeOK
\* Before the handoff and after a failed one, nothing is under way.
<1>4. ASSUME pc \notin {"idle", "await"} PROVE \A r \in Runs : worker[r] \notin Working /\ chan[r] # "sent"
  BY <1>2, <1>4 DEF Known, ContractInv, OneRun, Handover, Working, phaseARunning
<1>5. CASE pc \notin {"idle", "await"} /\ UNCHANGED chan
  BY <1>1, <1>2, <1>4, <1>5 DEF Known, ContractInv, OneRun, Handover, Working, phaseARunning
<1>6. CASE BuildDone /\ ~UNCHANGED chan
  <2>1. pc = "build" /\ pc' = "await" /\ chan' = [chan EXCEPT ![mem.run] = "sent"] /\ mem' = mem
    BY <1>6 DEF BuildDone
  <2> QED
    BY <1>1, <1>2, <1>3, <1>4, <2>1 DEF Known, ContractInv, OneRun, Handover, Working, phaseARunning
<1>7. CASE HandoffAccepted
  BY <1>1, <1>2, <1>3, <1>7 DEF HandoffAccepted, Known, ContractInv, OneRun, Handover, Working, phaseARunning
<1>8. CASE HandoffRejected \/ HandoffUnreachable
  <2>1. /\ pc = "await" /\ pc' = "restore" /\ mem' = mem /\ chan[mem.run] # "started" /\ chan'[mem.run] # "sent"
        /\ \A r \in Runs : r # mem.run => chan'[r] = chan[r]
    BY <1>2, <1>3, <1>8 DEF HandoffRejected, HandoffUnreachable, FailPhaseA, phaseARunning
  <2>2. worker[mem.run] = "none" /\ mem.run = lastRun
    BY <1>2, <2>1 DEF Known, HostInv, NoWorkerUnasked, phaseARunning
  <2>3. \A r \in Runs : worker[r] \notin Working /\ chan'[r] # "sent" /\ job[r] # "queued"
    BY <2>1, <2>2 DEF Known, ContractInv, OneRun, Handover, Working, HostInv, NoWorkerUnasked
  <2> QED  BY <1>1, <2>1, <2>2, <2>3 DEF Known, ContractInv, OneRun, Handover, Working
<1>9. HandoffTimeout => FALSE
  BY <1>3 DEF HandoffTimeout
<1> QED
  BY <1>5, <1>6, <1>7, <1>8, <1>9
     DEF SidecarStep, ReadRefs, Checkout, SnapshotImages, BuildService, RestoreImage, BuildDone,
         BuildFails, FailPhaseA, Revert, UnexpectedError, GenericUp, GenericUpFails

LEMMA ContractInvHost ==
  ASSUME Known, Faults \subseteq Tolerated, NEW r \in Runs, TriggerStep(r) \/ WorkerStep(r) \/ WorkerCrash(r)
  PROVE  ContractInv'
<1>1. UNCHANGED <<pc, mem, lastRun>>
  BY HostFrame
<1>2. phaseARunning => mem.run = lastRun
  BY DEF Known, HostInv, CurrentRun
<1>3. /\ "callTimeout" \notin Faults /\ "pollLost" \notin Faults
      /\ chan \in [Runs -> {"none", "sent", "started", "rejected", "dropped"}]
      /\ worker \in [Runs -> {"none", "crashed"} \cup Working \cup Finished]
      /\ job \in [Runs -> {"none", "queued", "SUCCESS", "FAILED"}]
  BY DEF Tolerated, Known, TypeInv, TypeOK, HostTypeOK
\* Only one worker is at work.
<1>4. \A q \in Runs : (worker[q] \in Working \/ job[q] = "queued") /\ (worker[r] \in Working \/ job[r] = "queued") => q = r
  BY DEF Known, ContractInv, OneRun
<1>5. CASE TriggerAccepts(r)
  <2>1. /\ chan[r] = "sent" /\ worker' = [worker EXCEPT ![r] = "spawned"] /\ chan' = [chan EXCEPT ![r] = "started"]
        /\ UNCHANGED <<file, job>>
    BY <1>5 DEF TriggerAccepts
  <2>2. worker[r] = "none" /\ job[r] = "none" /\ pc = "await" /\ r = lastRun
    BY <1>2, <2>1 DEF Known, HostInv, NoWorkerUnasked, ContractInv, Handover, phaseARunning
  <2> QED  BY <1>1, <1>3, <2>1, <2>2 DEF Known, ContractInv, OneRun, Handover, Working
<1>6. CASE TriggerRejects(r)
  BY <1>1, <1>3, <1>6 DEF TriggerRejects, hostVars, Known, ContractInv, OneRun, Handover, Working
\* A report: of a worker at work that goes on, or that is finished.
<1>7. ASSUME NEW next, NEW status, NEW stage, Report(r, next, status, stage), UNCHANGED job,
             worker[r] \in Working,
             \/ next \in Working \ {"spawned"} /\ status = "updating" /\ job[r] # "queued"
             \/ next \in Finished /\ job[r] # "queued"
      PROVE  ContractInv'
  <2>1. /\ worker' = [worker EXCEPT ![r] = next] /\ chan' = chan /\ job' = job
        /\ file'.run = r /\ file'.status = status
    BY <1>7 DEF Report, WriteState
  <2>2. \A q \in Runs : q # r => worker[q] \notin Working /\ job[q] # "queued"
    BY <1>4, <1>7
  <2>3. r = lastRun /\ pc \in {"idle", "await"}
    BY <1>7 DEF Known, ContractInv, OneRun, Working
  <2> QED
    BY <1>1, <1>3, <1>7, <2>1, <2>2, <2>3 DEF Known, ContractInv, OneRun, Handover, Working, Finished
<1>8. \/ worker[r] \in {"spawned", "calling", "checking"} => job[r] # "queued"
  BY DEF Known, ContractInv, Handover
<1>9. CASE \/ WorkerBegins(r) \/ WorkerCallFails(r) \/ WorkerSeesHealth(r) \/ WorkerHealthTimeout(r)
           \/ WorkerSeesJobEnd(r)
  BY <1>3, <1>7, <1>8, <1>9 DEF WorkerBegins, WorkerCallFails, WorkerSeesHealth, WorkerHealthTimeout,
                               WorkerSeesJobEnd, Working, Finished
<1>10. CASE WorkerCallsRedeploy(r)
  BY <1>1, <1>3, <1>4, <1>10 DEF WorkerCallsRedeploy, Known, ContractInv, OneRun, Handover, Working
<1>11. CASE WorkerExits(r)
  BY <1>1, <1>11 DEF WorkerExits, Known, ContractInv, OneRun, Handover, Working
<1>12. CASE WorkerCrash(r)
  BY <1>1, <1>3, <1>4, <1>12 DEF WorkerCrash, Known, ContractInv, OneRun, Handover, Working
<1> QED
  BY <1>3, <1>5, <1>6, <1>9, <1>10, <1>11, <1>12 DEF TriggerStep, WorkerStep, WorkerLosesJob

LEMMA ContractInvJob ==
  ASSUME Known, NEW r \in Runs, JobRuns(r)
  PROVE  ContractInv'
<1>1. /\ job[r] = "queued" /\ UNCHANGED <<lastRun, chan, lock, worker, file>>
      /\ job' \in {[job EXCEPT ![r] = "SUCCESS"], [job EXCEPT ![r] = "FAILED"]}
      /\ (pc' = "idle" \/ UNCHANGED <<pc, mem>>)
  BY DEF JobRuns, SidecarReset
<1>2. /\ r = lastRun /\ worker[r] \in {"polling", "crashed"}
      /\ \A q \in Runs : worker[q] \in Working => q = r
  BY <1>1 DEF Known, ContractInv, OneRun, Handover
<1>3. \A q \in Runs : chan[q] # "sent"
  BY <1>2 DEF Known, HostInv, CurrentRun, NoWorkerUnasked, ContractInv, Handover, phaseARunning
<1>4. \A q \in Runs : job'[q] = "queued" => job[q] = "queued"
  BY <1>1 DEF Known, TypeInv, TypeOK, HostTypeOK
<1> QED  BY <1>1, <1>2, <1>3, <1>4 DEF Known, ContractInv, OneRun, Handover, Working

LEMMA ContractInvStep ==
  ASSUME Faults \subseteq Tolerated, Known, [Next]_vars
  PROVE  ContractInv'
<1>1. CASE PublishRelease
  BY <1>1 DEF PublishRelease, sidecarVars, hostVars, Known, ContractInv, OneRun, Handover
<1>2. SidecarCrash => FALSE
  BY DEF SidecarCrash, Tolerated
<1>3. CASE UNCHANGED vars
  BY <1>3 DEF vars, sidecarVars, hostVars, Known, ContractInv, OneRun, Handover
<1> QED
  BY <1>1, <1>2, <1>3, ContractInvApply, ContractInvSidecar, ContractInvHost, ContractInvJob DEF Next

LEMMA ContractInvariant == ASSUME Faults \subseteq Tolerated PROVE Spec => []Known
<1>1. Init => Known
  BY TypeInit, HostInvInit, ContractInvInit DEF Known
<1>2. Known /\ [Next]_vars => Known'
  BY TypeStep, HostInvStep, ContractInvStep DEF Known
<1> QED  BY <1>1, <1>2, PTL DEF Spec

-------------------------------------------------------------------------------
(***************************************************************************)
(* The update contract: every step is one of UpdateContract, or a stutter. *)
(***************************************************************************)

LEMMA PhaseIs ==
  ASSUME TypeInv, NEW r \in Runs
  PROVE  /\ ContractPhase[r] \in {"new", "preparing", "redeploying", "ended"}
         /\ ContractPhase[r] = "new" <=> r > lastRun
         /\ ContractPhase[r] = "redeploying" <=> r <= lastRun /\ worker[r] \in Working
         /\ ContractPhase[r] = "preparing" <=> r <= lastRun /\ worker[r] = "none" /\ phaseARunning /\ mem.run = r
<1>1. r \in Nat /\ lastRun \in Nat
  BY RunsAreNumbers
<1>2. "none" \notin Working
  BY DEF Working
<1>3. ContractPhase[r] = CASE r > lastRun -> "new"
                          [] r <= lastRun /\ worker[r] \in Working -> "redeploying"
                          [] r <= lastRun /\ worker[r] = "none" /\ phaseARunning /\ mem.run = r -> "preparing"
                          [] OTHER -> "ended"
  BY DEF ContractPhase
<1> QED  BY <1>1, <1>2, <1>3

\* A run that is under way goes on, is handed over, or ends.
AdvancesOf(r, s, t) ==
  \/ s = t
  \/ s = "preparing" /\ t = "redeploying"
  \/ s \in {"preparing", "redeploying"} /\ t = "ended"

\* A step that accepts nothing, and after which one run at most is further, is a step
\* of the contract.
LEMMA OneAdvances ==
  ASSUME NEW r \in Runs,
         AdvancesOf(r, ContractPhase[r], ContractPhase'[r]),
         \A q \in Runs : q # r => ContractPhase'[q] = ContractPhase[q]
  PROVE  [Contract!Next]_ContractPhase
<1>1. /\ ContractPhase = [q \in Runs |-> ContractPhase[q]] /\ ContractPhase' = [q \in Runs |-> ContractPhase'[q]]
  BY DEF ContractPhase
<1>2. ContractPhase' = [ContractPhase EXCEPT ![r] = ContractPhase'[r]]
  BY <1>1
<1>3. CASE ContractPhase'[r] = ContractPhase[r]
  BY <1>1, <1>3
<1>4. CASE ContractPhase[r] = "preparing" /\ ContractPhase'[r] = "redeploying"
  BY <1>2, <1>4 DEF Contract!Next, Contract!HandOver, Contract!Runs, Runs
<1>5. CASE ContractPhase[r] \in {"preparing", "redeploying"} /\ ContractPhase'[r] = "ended"
  BY <1>2, <1>5 DEF Contract!Next, Contract!End, Contract!Busy, Contract!Runs, Runs
<1> QED  BY <1>3, <1>4, <1>5 DEF AdvancesOf

LEMMA ContractInit == ASSUME Init PROVE Contract!Init
<1>1. TypeInv /\ \A r \in Runs : r > lastRun
  BY TypeInit DEF Init, Runs
<1>2. \A r \in Runs : ContractPhase[r] = "new"
  BY <1>1, PhaseIs
<1>3. ContractPhase = [r \in Runs |-> ContractPhase[r]]
  BY DEF ContractPhase
<1>4. ContractPhase = [r \in Runs |-> "new"]
  BY <1>2, <1>3
<1> QED  BY <1>4 DEF Contract!Init, Contract!Runs, Runs

\* A run is accepted only when all before it have ended.
LEMMA ApplyAccepts ==
  ASSUME Known, Apply
  PROVE  Contract!Next
<1> DEFINE n == lastRun + 1
<1>1. /\ n \in Runs /\ Runs \subseteq Nat /\ lastRun \in Nat
      /\ lastRun' = n /\ pc' = "refs" /\ mem'.run = n /\ UNCHANGED <<worker, chan, file, job>>
      /\ pc = "idle"
  BY RunsAreNumbers DEF Known, Apply, IdleState, hostVars, Refuses, phaseARunning
<1>2. \A r \in Runs : worker[r] \notin Working
  BY NobodyWorks DEF Apply
<1>3. worker[n] = "none"
  BY <1>1 DEF Known, HostInv, SentOnce, NoWorkerUnasked
<1>4. \A r \in Runs : ContractPhase[r] = IF r > lastRun THEN "new" ELSE "ended"
  BY <1>1, <1>2, PhaseIs DEF Known, phaseARunning
<1>5. TypeInv'
  BY TypeStep DEF Known, Next
<1>6. \A r \in Runs : ContractPhase'[r] = IF r = n THEN "preparing" ELSE ContractPhase[r]
  <2> DEFINE p == ContractPhase'
  <2>1. \A r \in Runs :
          p[r] = CASE r > n -> "new"
                   [] r <= n /\ worker[r] \in Working -> "redeploying"
                   [] r <= n /\ worker[r] = "none" /\ r = n -> "preparing"
                   [] OTHER -> "ended"
    BY <1>1 DEF ContractPhase, phaseARunning
  <2> HIDE DEF p
  <2>2. \A r \in Runs : p[r] = IF r = n THEN "preparing" ELSE ContractPhase[r]
    BY <1>1, <1>2, <1>3, <1>4, <2>1
  <2> QED  BY <2>2 DEF p
<1>7. ContractPhase' = [ContractPhase EXCEPT ![n] = "preparing"]
  <2>1. /\ ContractPhase = [q \in Runs |-> ContractPhase[q]] /\ ContractPhase' = [q \in Runs |-> ContractPhase'[q]]
    BY DEF ContractPhase
  <2> HIDE DEF n
  <2> QED  BY <1>1, <1>6, <2>1
<1>8. ContractPhase[n] = "new" /\ \A q \in Runs : ContractPhase[q] \notin {"preparing", "redeploying"}
                                                 /\ (q < n => ContractPhase[q] = "ended")
  BY <1>1, <1>4
<1> HIDE DEF n
<1>9. Contract!Accept(n)
  BY <1>7, <1>8 DEF Contract!Accept, Contract!Busy, Contract!Runs, Runs
<1> QED  BY <1>1, <1>9 DEF Contract!Next, Contract!Runs, Runs

\* The phases depend on little of the state.
LEMMA PhaseKept ==
  ASSUME TypeInv, TypeInv', NEW r \in Runs, lastRun' = lastRun,
         worker'[r] \in Working <=> worker[r] \in Working, worker'[r] = "none" <=> worker[r] = "none",
         worker[r] = "none" => ((phaseARunning /\ mem.run = r) <=> (pc' # "idle" /\ mem'.run = r))
  PROVE  ContractPhase'[r] = ContractPhase[r]
<1> DEFINE p == ContractPhase'
<1>1. p[r] = CASE r > lastRun -> "new"
               [] r <= lastRun /\ worker[r] \in Working -> "redeploying"
               [] r <= lastRun /\ worker[r] = "none" /\ phaseARunning /\ mem.run = r -> "preparing"
               [] OTHER -> "ended"
  BY DEF ContractPhase, phaseARunning
<1> HIDE DEF p
<1>2. ContractPhase[r] = p[r]
  BY <1>1 DEF ContractPhase
<1> QED  BY <1>2 DEF p

\* Phase A prepares, or ends.
LEMMA SidecarAdvances ==
  ASSUME Known, TypeInv', SidecarStep \/ (\E r \in Runs : JobRuns(r))
  PROVE  [Contract!Next]_ContractPhase
<1>1. UNCHANGED <<lastRun, worker>>
  BY SidecarFrame DEF JobRuns
<1>2. pc' = "idle" \/ (phaseARunning /\ mem'.run = mem.run) \/ UNCHANGED <<pc, mem>>
  <2>1. CASE \E r \in Runs : JobRuns(r)
    BY <2>1 DEF JobRuns, SidecarReset
  <2>2. CASE SidecarStep
    BY <2>2 DEF Known, TypeInv, TypeOK, SidecarTypeOK, Reports, phaseARunning, SidecarStep, ReadRefs, Checkout,
       SnapshotImages, BuildService, RestoreImage, BuildDone, BuildFails, HandoffRejected,
       HandoffUnreachable, HandoffTimeout, FailPhaseA, Revert, UnexpectedError, HandoffAccepted,
       GenericUp, GenericUpFails, SidecarReset
  <2> QED  BY <2>1, <2>2
<1>3. CASE ~phaseARunning
  <2>1. pc' = "idle"
    <3>1. pc = "idle"
      BY <1>3 DEF phaseARunning
    <3>2. SidecarStep => FALSE
      BY <3>1 DEF SidecarStep, ReadRefs, Checkout, SnapshotImages, BuildService, RestoreImage, BuildDone, BuildFails,
         HandoffRejected, HandoffUnreachable, HandoffTimeout, Revert, UnexpectedError, HandoffAccepted,
         GenericUp, GenericUpFails
    <3> QED  BY <3>1, <3>2 DEF JobRuns, SidecarReset
  <2>2. \A q \in Runs : ContractPhase'[q] = ContractPhase[q]
    BY <1>1, <1>3, <2>1, PhaseKept DEF Known
  <2>3. ContractPhase' = ContractPhase
    <3>1. /\ ContractPhase = [q \in Runs |-> ContractPhase[q]] /\ ContractPhase' = [q \in Runs |-> ContractPhase'[q]]
      BY DEF ContractPhase
    <3> QED  BY <2>2, <3>1
  <2> QED  BY <2>3
<1>4. CASE phaseARunning
  <2> DEFINE r == mem.run
  <2>1. r \in Runs /\ r <= lastRun /\ lastRun \in Nat /\ r \in Nat
    BY <1>4, RunsAreNumbers DEF Known, TypeInv, PhaseAHasRun, HostInv, CurrentRun
  <2>2. \A q \in Runs : q # r => ContractPhase'[q] = ContractPhase[q]
    BY <1>1, <1>2, <1>4, PhaseKept DEF Known, phaseARunning
  <2>3. AdvancesOf(r, ContractPhase[r], ContractPhase'[r])
    <3>1. CASE pc' # "idle"
      <4>1. ContractPhase'[r] = ContractPhase[r]
        BY <1>1, <1>2, <1>4, <2>1, <3>1, PhaseKept DEF Known, phaseARunning
      <4> QED  BY <4>1 DEF AdvancesOf
    <3>2. CASE pc' = "idle" /\ worker[r] = "none"
      <4> DEFINE p == ContractPhase'
      <4>1. p[r] = "ended"
        BY <1>1, <2>1, <3>2 DEF ContractPhase, phaseARunning, Working
      <4>2. ContractPhase[r] = "preparing"
        BY <1>4, <2>1, <3>2, PhaseIs DEF Known
      <4> QED  BY <4>1, <4>2 DEF AdvancesOf
    <3>3. CASE worker[r] # "none"
      <4>1. ContractPhase'[r] = ContractPhase[r]
        BY <1>1, <2>1, <3>3, PhaseKept DEF Known
      <4> QED  BY <4>1 DEF AdvancesOf
    <3> QED  BY <3>1, <3>2, <3>3
  <2> HIDE DEF r
  <2> QED  BY <2>1, <2>2, <2>3, OneAdvances
<1> QED  BY <1>3, <1>4

\* The trigger hands over, the worker goes on or ends.
LEMMA HostAdvances ==
  ASSUME Known, TypeInv', NEW r \in Runs, TriggerStep(r) \/ WorkerStep(r) \/ WorkerCrash(r)
  PROVE  [Contract!Next]_ContractPhase
<1>1. UNCHANGED <<pc, mem, lastRun>> /\ worker \in [Runs -> {"none", "crashed"} \cup Working \cup Finished]
  BY HostFrame DEF Known, TypeInv, TypeOK, HostTypeOK
<1>2. CASE UNCHANGED worker
  <2>1. \A q \in Runs : ContractPhase'[q] = ContractPhase[q]
    BY <1>1, <1>2, PhaseKept DEF Known, phaseARunning
  <2> QED  BY <2>1, OneAdvances DEF AdvancesOf
<1>3. ASSUME NEW next, worker' = [worker EXCEPT ![r] = next],
             \/ worker[r] \in Working /\ next \in Working \cup Finished \cup {"crashed"}
             \/ worker[r] = "none" /\ pc = "await" /\ mem.run = r /\ next \in Working
      PROVE  [Contract!Next]_ContractPhase
  <2>1. \A q \in Runs : q # r => ContractPhase'[q] = ContractPhase[q]
    BY <1>1, <1>3, PhaseKept DEF Known, phaseARunning
  <2>2. r <= lastRun /\ r \in Nat /\ lastRun \in Nat
    BY <1>3, RunsAreNumbers DEF Known, ContractInv, OneRun, HostInv, CurrentRun, phaseARunning
  <2>3. worker'[r] = next
    BY <1>1, <1>3
  <2>4. ContractPhase[r] = IF worker[r] \in Working THEN "redeploying" ELSE "preparing"
    BY <1>3, <2>2, PhaseIs DEF Known, phaseARunning, Working
  <2>5. ContractPhase'[r] = IF next \in Working THEN "redeploying" ELSE "ended"
    <3> DEFINE p == ContractPhase'
    <3>1. p[r] = CASE r > lastRun -> "new"
                   [] r <= lastRun /\ next \in Working -> "redeploying"
                   [] r <= lastRun /\ next = "none" /\ phaseARunning /\ mem.run = r -> "preparing"
                   [] OTHER -> "ended"
      BY <1>1, <2>3 DEF ContractPhase, phaseARunning
    <3> HIDE DEF p
    <3>2. p[r] = IF next \in Working THEN "redeploying" ELSE "ended"
      BY <1>3, <2>2, <3>1 DEF Working, Finished
    <3> QED  BY <3>2 DEF p
  <2>6. AdvancesOf(r, ContractPhase[r], ContractPhase'[r])
    BY <1>3, <2>4, <2>5 DEF AdvancesOf, Working
  <2> QED  BY <2>1, <2>6, OneAdvances
<1>4. CASE TriggerAccepts(r)
  <2>1. worker[r] = "none" /\ pc = "await" /\ mem.run = r
    BY <1>4 DEF TriggerAccepts, Known, HostInv, NoWorkerUnasked, ContractInv, Handover
  <2> QED  BY <1>3, <1>4, <2>1 DEF TriggerAccepts, Working
<1>5. CASE TriggerRejects(r) \/ WorkerExits(r)
  BY <1>2, <1>5 DEF TriggerRejects, WorkerExits, hostVars
<1>6. CASE WorkerStep(r) /\ ~WorkerExits(r)
  BY <1>3, <1>6 DEF WorkerStep, WorkerBegins, WorkerCallsRedeploy, WorkerCallFails, WorkerSeesJobEnd,
     WorkerLosesJob, WorkerSeesHealth, WorkerHealthTimeout, Report, Working, Finished
<1>7. CASE WorkerCrash(r)
  BY <1>3, <1>7 DEF WorkerCrash
<1> QED  BY <1>4, <1>5, <1>6, <1>7 DEF TriggerStep

LEMMA StepImplements ==
  ASSUME Faults \subseteq Tolerated, Known, [Next]_vars
  PROVE  [Contract!Next]_ContractPhase
<1>1. TypeInv'
  BY TypeStep DEF Known
<1>2. CASE PublishRelease \/ UNCHANGED vars
  <2>1. UNCHANGED <<lastRun, worker, pc, mem>>
    BY <1>2 DEF PublishRelease, sidecarVars, hostVars, vars
  <2>2. ContractPhase' = ContractPhase
    BY <2>1 DEF ContractPhase, phaseARunning
  <2> QED  BY <2>2
<1>3. SidecarCrash => FALSE
  BY DEF SidecarCrash, Tolerated
<1> QED  BY <1>1, <1>2, <1>3, ApplyAccepts, SidecarAdvances, HostAdvances DEF Next

\* The flag of the sidecar, the status in state.json and the kernel's lock together do
\* what UpdateContract asks: one update at a time, in order, and none redeploys after
\* its end -- also when image inspections fail, tags are lost and workers die.
THEOREM ContractIsImplemented == ASSUME Faults \subseteq Tolerated PROVE Spec => ImplementsContract
<1>1. Init => Contract!Init
  BY ContractInit
<1>2. Known /\ [Next]_vars => [Contract!Next]_ContractPhase
  BY StepImplements
<1> QED
  BY <1>1, <1>2, ContractInvariant, PTL DEF Spec, ImplementsContract, Contract!Spec

-------------------------------------------------------------------------------
(***************************************************************************)
(* What is deployed.  From the end of the build to the end of the redeploy *)
(* every image is of the run's target.                                     *)
(***************************************************************************)

TargetInv ==
  /\ pc \in {"snapshot", "build", "await", "up"} => head = plan[mem.run].target
  /\ pc = "build" => \A s \in Services \ todo : images[s] = head
  /\ pc \in {"await", "up"} => \A s \in Services : images[s] = head
  /\ \A r \in Runs : worker[r] \in Working \/ job[r] = "queued" =>
       \A s \in Services : images[s] = plan[r].target
  /\ \A r \in Runs : worker[r] = "checking" \/ (worker[r] = "polling" /\ job[r] = "SUCCESS") =>
       \A s \in Services : running[s] = plan[r].target

LEMMA TargetInvSidecar ==
  ASSUME Known, TargetInv, SidecarStep
  PROVE  TargetInv'
<1>1. UNCHANGED <<worker, job>>
  BY SidecarFrame
<1>2. /\ mem.run \in Runs \/ ~phaseARunning
      /\ plan \in [Runs -> Plans] /\ images \in [Services -> Versions]
      /\ phaseARunning => mem.run = lastRun
  BY DEF Known, TypeInv, TypeOK, SidecarTypeOK, DeploymentTypeOK, PhaseAHasRun, HostInv, CurrentRun
<1>3. CASE pc = "await"
  <2>1. UNCHANGED <<images, plan, running, head>> /\ pc' \in {"idle", "restore"}
    BY <1>3 DEF SidecarStep, ReadRefs, Checkout, SnapshotImages, BuildService, RestoreImage, BuildDone,
         BuildFails, HandoffRejected, HandoffUnreachable, HandoffTimeout, FailPhaseA, Revert,
         UnexpectedError, HandoffAccepted, GenericUp, GenericUpFails, deploymentVars
  <2> QED  BY <1>1, <2>1 DEF TargetInv
<1>4. CASE pc # "await"
  <2>1. pc # "idle"
    BY <1>4 DEF SidecarStep, ReadRefs, Checkout, SnapshotImages, BuildService, RestoreImage, BuildDone, BuildFails,
         HandoffRejected, HandoffUnreachable, HandoffTimeout, Revert, UnexpectedError, HandoffAccepted,
         GenericUp, GenericUpFails
  <2>2. \A r \in Runs : worker[r] \notin Working /\ job[r] # "queued"
    BY <1>2, <1>4, <2>1 DEF Known, ContractInv, OneRun, Handover, Working
  <2>3. \A r \in Runs : worker[r] # "checking" /\ worker[r] # "polling"
    BY <2>2 DEF Working
  <2>4. /\ pc' \in {"snapshot", "build", "await", "up"} => head' = plan'[mem'.run].target
        /\ pc' = "build" => \A s \in Services \ todo' : images'[s] = head'
        /\ pc' \in {"await", "up"} => \A s \in Services : images'[s] = head'
    <3> USE DEF TargetInv, phaseARunning
    <3>1. CASE ReadRefs
      BY <3>1 DEF ReadRefs
    <3>2. CASE Checkout
      BY <1>2, <2>1, <3>2 DEF Checkout, Known, TypeInv, TypeOK, SidecarTypeOK, Reports
    <3>3. CASE SnapshotImages
      BY <1>2, <2>1, <3>3 DEF SnapshotImages, deploymentVars, Plans
    <3>4. ASSUME NEW s \in Services, BuildService(s) \/ RestoreImage(s)
          PROVE  /\ pc' \in {"snapshot", "build", "await", "up"} => head' = plan'[mem'.run].target
                 /\ pc' = "build" => \A t \in Services \ todo' : images'[t] = head'
                 /\ pc' \in {"await", "up"} => \A t \in Services : images'[t] = head'
      BY <1>2, <3>4 DEF BuildService, RestoreImage
    <3>5. CASE BuildDone
      BY <3>5 DEF BuildDone, deploymentVars
    <3>6. CASE pc' \in {"restore", "idle"}
      BY <3>6
    <3> QED
      BY <1>4, <3>1, <3>2, <3>3, <3>4, <3>5, <3>6
         DEF SidecarStep, BuildFails, HandoffRejected, HandoffUnreachable, HandoffTimeout, FailPhaseA, Revert,
             UnexpectedError, HandoffAccepted, GenericUp, GenericUpFails, SidecarReset
  <2> QED  BY <1>1, <2>2, <2>3, <2>4 DEF TargetInv
<1> QED  BY <1>3, <1>4

LEMMA TargetInvStep ==
  ASSUME Known, TargetInv, [Next]_vars, Faults \subseteq Tolerated
  PROVE  TargetInv'
<1>1. CASE Apply
  <2>1. \A r \in Runs : worker[r] \notin Working /\ job[r] # "queued"
    BY <1>1, NobodyWorks DEF Apply
  <2> QED  BY <1>1, <2>1 DEF Apply, TargetInv, hostVars, Working
<1>2. ASSUME NEW r \in Runs, TriggerStep(r) \/ WorkerStep(r) \/ WorkerCrash(r) PROVE TargetInv'
  <2>1. UNCHANGED <<head, images, running, pc, todo, mem, plan>>
    BY <1>2, HostFrame
  <2>2. \A q \in Runs : worker'[q] \in Working \/ job'[q] = "queued" => \A s \in Services : images[s] = plan[q].target
    <3>1. \A q \in Runs : worker'[q] \in Working \/ job'[q] = "queued" =>
             worker[q] \in Working \/ job[q] = "queued" \/ (chan[q] = "sent" /\ TriggerAccepts(q))
      BY <1>2 DEF TriggerStep, TriggerAccepts, TriggerRejects, WorkerStep, WorkerBegins, WorkerCallsRedeploy,
         WorkerCallFails, WorkerSeesJobEnd, WorkerLosesJob, WorkerSeesHealth, WorkerHealthTimeout,
         WorkerExits, WorkerCrash, Report, Working, Finished, hostVars, Known, TypeInv, TypeOK, HostTypeOK
    <3>2. \A q \in Runs : chan[q] = "sent" => pc = "await" /\ mem.run = q
      BY DEF Known, ContractInv, Handover
    <3> QED  BY <3>1, <3>2 DEF TargetInv
  <2>3. \A q \in Runs : worker'[q] = "checking" \/ (worker'[q] = "polling" /\ job'[q] = "SUCCESS")
                         => worker[q] = "checking" \/ (worker[q] = "polling" /\ job[q] = "SUCCESS")
    BY <1>2 DEF TriggerStep, TriggerAccepts, TriggerRejects, WorkerStep, WorkerBegins, WorkerCallsRedeploy,
       WorkerCallFails, WorkerSeesJobEnd, WorkerLosesJob, WorkerSeesHealth, WorkerHealthTimeout,
       WorkerExits, WorkerCrash, Report, Working, Finished, hostVars, Known, TypeInv, TypeOK, HostTypeOK
  <2> QED  BY <2>1, <2>2, <2>3 DEF TargetInv
<1>3. ASSUME NEW r \in Runs, JobRuns(r) PROVE TargetInv'
  <2>1. PICK S \in SUBSET Services :
          /\ Recreate(S)
          /\ \/ S = Services /\ job' = [job EXCEPT ![r] = "SUCCESS"]
             \/ job' = [job EXCEPT ![r] = "FAILED"]
          /\ IF Updater \in S THEN SidecarReset ELSE UNCHANGED <<pc, todo, mem>>
    BY <1>3 DEF JobRuns
  <2>2. job[r] = "queued" /\ UNCHANGED <<head, images, plan, worker>>
    BY <1>3 DEF JobRuns
  <2>3. /\ r = lastRun /\ worker[r] \in {"polling", "crashed"}
        /\ \A q \in Runs : worker[q] \in Working => q = r
        /\ job \in [Runs -> {"none", "queued", "SUCCESS", "FAILED"}]
    BY <2>2 DEF Known, ContractInv, OneRun, Handover, TypeInv, TypeOK, HostTypeOK
  <2>4. \A s \in Services : images[s] = plan[r].target
    BY <2>2 DEF TargetInv
  <2>5. job'[r] = "SUCCESS" => \A s \in Services : running'[s] = plan[r].target
    BY <2>1, <2>3, <2>4 DEF Recreate
  <2>6. \A q \in Runs : worker[q] = "checking" \/ (worker[q] = "polling" /\ job'[q] = "SUCCESS")
                         => q = r /\ job'[r] = "SUCCESS"
    BY <2>3 DEF Working
  <2>7. \A q \in Runs : job'[q] = "queued" => job[q] = "queued"
    BY <2>1, <2>3
  <2>8. pc' = "idle" \/ UNCHANGED <<pc, todo, mem>>
    BY <2>1 DEF SidecarReset
  <2> QED  BY <2>2, <2>5, <2>6, <2>7, <2>8 DEF TargetInv
<1>4. CASE PublishRelease \/ UNCHANGED vars
  BY <1>4 DEF PublishRelease, sidecarVars, hostVars, vars, deploymentVars, TargetInv
<1>5. SidecarCrash => FALSE
  BY DEF SidecarCrash, Tolerated
<1> QED  BY <1>1, <1>2, <1>3, <1>4, <1>5, TargetInvSidecar DEF Next

LEMMA TargetInvariant == ASSUME Faults \subseteq Tolerated PROVE Spec => [](Known /\ TargetInv)
<1>1. Init => TargetInv
  BY DEF Init, TargetInv, Working
<1>2. Known /\ TargetInv /\ [Next]_vars => TargetInv'
  BY TargetInvStep
<1> QED  BY <1>1, <1>2, ContractInvariant, PTL DEF Spec

\* Neither `up -d' nor the middleware's job ever recreates a container from a build or
\* a restore that is half done.
THEOREM WholeReleasesAreDeployed == ASSUME Faults \subseteq Tolerated PROVE Spec => RedeploysWhole
<1>1. Known /\ TargetInv /\ [Next]_vars =>
        [running' # running => \A s, t \in Services : images[s] = images[t]]_running
  <2> SUFFICES ASSUME Known, TargetInv, [Next]_vars, running' # running
               PROVE  \A s, t \in Services : images[s] = images[t]
    OBVIOUS
  <2>1. CASE \E r \in Runs : JobRuns(r)
    BY <2>1 DEF JobRuns, TargetInv
  <2>2. CASE SidecarStep
    <3>1. pc = "up"
      BY <2>2 DEF SidecarStep, ReadRefs, Checkout, SnapshotImages, BuildService, RestoreImage, BuildDone,
         BuildFails, HandoffRejected, HandoffUnreachable, HandoffTimeout, FailPhaseA, Revert,
         UnexpectedError, HandoffAccepted, GenericUp, GenericUpFails, deploymentVars
    <3> QED  BY <3>1 DEF TargetInv
  <2>3. \A r \in Runs : ~(TriggerStep(r) \/ WorkerStep(r) \/ WorkerCrash(r))
    BY HostFrame
  <2> QED
    BY <2>1, <2>2, <2>3 DEF Next, Apply, PublishRelease, SidecarCrash, deploymentVars, vars
<1> QED  BY <1>1, TargetInvariant, PTL DEF Spec, RedeploysWhole

\* The health check asks one service for its version; all of them have it.
THEOREM SuccessIsDeployed == ASSUME Faults \subseteq Tolerated PROVE Spec => SuccessMeansDeployed
<1>1. Known /\ TargetInv /\ [Next]_vars =>
        [\A r \in Runs : worker[r] # "succeeded" /\ worker'[r] = "succeeded" =>
           \A s \in Services : running[s] = plan[r].target]_worker
  <2> SUFFICES ASSUME Known, TargetInv, [Next]_vars, NEW r \in Runs,
                      worker[r] # "succeeded", worker'[r] = "succeeded"
               PROVE  \A s \in Services : running[s] = plan[r].target
    OBVIOUS
  <2>1. worker \in [Runs -> {"none", "crashed"} \cup Working \cup Finished]
    BY DEF Known, TypeInv, TypeOK, HostTypeOK
  <2>2. \A q \in Runs : JobRuns(q) => worker' = worker
    BY DEF JobRuns
  <2>3. PICK q \in Runs : TriggerStep(q) \/ WorkerStep(q) \/ WorkerCrash(q)
    BY <2>2, SidecarFrame DEF Next, Apply, PublishRelease, SidecarCrash, hostVars, vars
  <2>4. worker[r] = "checking"
    BY <2>1, <2>3 DEF TriggerStep, TriggerAccepts, TriggerRejects, WorkerStep, WorkerBegins, WorkerCallsRedeploy,
       WorkerCallFails, WorkerSeesJobEnd, WorkerLosesJob, WorkerSeesHealth, WorkerHealthTimeout,
       WorkerExits, WorkerCrash, Report, Working, Finished, hostVars
  <2> QED  BY <2>4 DEF TargetInv
<1> QED  BY <1>1, TargetInvariant, PTL DEF Spec, SuccessMeansDeployed

-------------------------------------------------------------------------------
(***************************************************************************)
(* What the sidecar remembers                                              *)
(***************************************************************************)

\* What memory and state.json say together is about the run accepted last, also after
\* the redeploy has recreated the sidecar.
MemoryInv ==
  /\ mem.status = "failed" => pc = "idle"
  /\ mem.run \in {NoRun, lastRun}
  /\ mem.run = NoRun => mem.status = "idle" /\ (file.run = lastRun \/ file.status = "idle")
  /\ pc = "up" => mode = "generic"
  /\ mode = "generic" => \A r \in Runs : chan[r] = "none"

\* A generic deployment has no worker, and so no state.json.
LEMMA GenericHasNoFile ==
  ASSUME Known, MemoryInv, mode = "generic"
  PROVE  file.status = "idle"
<1>1. \A r \in Runs : worker[r] = "none"
  BY DEF Known, HostInv, NoWorkerUnasked, MemoryInv
<1>2. file.run \in Runs \/ file.run = NoRun
  BY DEF Known, TypeInv, TypeOK, HostTypeOK, Reports
<1>3. file.status \in {"idle", "updating", "success", "failed"}
  BY DEF Known, TypeInv, TypeOK, HostTypeOK, Reports, Statuses
<1> QED  BY <1>1, <1>2, <1>3 DEF Known, HostInv, FileOfWorker

LEMMA MemoryInvStep ==
  ASSUME Known, MemoryInv, [Next]_vars, Faults \subseteq Tolerated
  PROVE  MemoryInv'
<1>0. /\ phaseARunning => mem.run = lastRun /\ mem.run \in Runs
      /\ chan \in [Runs -> {"none", "sent", "started", "rejected", "dropped"}]
      /\ mem \in Reports /\ mode \in {"truenas", "generic"}
  BY ModesAssumption DEF Known, TypeInv, TypeOK, HostTypeOK, SidecarTypeOK, DeploymentTypeOK, PhaseAHasRun,
                         HostInv, CurrentRun
<1>1. CASE Apply
  <2>1. /\ lastRun + 1 \in Runs /\ lastRun + 1 # NoRun /\ chan[lastRun + 1] = "none"
    BY <1>1, RunsAreNumbers, NumberFacts DEF Apply, Known, HostInv, SentOnce
  <2>2. /\ lastRun' = lastRun + 1 /\ mem'.run = lastRun + 1 /\ mem'.status = "updating" /\ pc' = "refs"
        /\ UNCHANGED <<chan, mode, file>>
    BY <1>1 DEF Apply, hostVars, deploymentVars, IdleState
  <2> QED  BY <2>1, <2>2 DEF MemoryInv
<1>2. ASSUME NEW r \in Runs, TriggerStep(r) \/ WorkerStep(r) \/ WorkerCrash(r) PROVE MemoryInv'
  <2>1. UNCHANGED <<mode, pc, mem, lastRun>>
    BY <1>2, HostFrame
  <2>2. CASE UNCHANGED chan /\ (UNCHANGED file \/ (worker[r] \in Working /\ file'.run = r))
    <3>1. worker[r] \in Working => r = lastRun /\ mode # "generic"
      BY DEF Known, ContractInv, OneRun, HostInv, NoWorkerUnasked, MemoryInv, Working
    <3> QED  BY <2>1, <2>2, <3>1 DEF MemoryInv
  <2>3. CASE TriggerStep(r)
    <3>1. chan[r] = "sent" /\ UNCHANGED file /\ chan' \in {[chan EXCEPT ![r] = "started"], [chan EXCEPT ![r] = "rejected"]}
      BY <2>3 DEF TriggerStep, TriggerAccepts, TriggerRejects, hostVars
    <3>2. pc = "await" /\ mode # "generic"
      BY <3>1 DEF Known, ContractInv, Handover, MemoryInv
    <3> QED  BY <2>1, <3>1, <3>2 DEF MemoryInv
  <2> QED
    BY <1>2, <2>2, <2>3 DEF WorkerStep, WorkerBegins, WorkerCallsRedeploy, WorkerCallFails, WorkerSeesJobEnd,
       WorkerLosesJob, WorkerSeesHealth, WorkerHealthTimeout, WorkerExits, WorkerCrash, Report, WriteState,
       Working
<1>3. ASSUME NEW r \in Runs, JobRuns(r) PROVE MemoryInv'
  <2>1. /\ UNCHANGED <<mode, lastRun, chan, file>>
        /\ \/ pc' = "idle" /\ mem' = IdleState
           \/ UNCHANGED <<pc, mem>>
    BY <1>3 DEF JobRuns, SidecarReset
  <2>2. file.run = lastRun
    BY <1>3 DEF JobRuns, Known, ContractInv, OneRun, Handover
  <2> QED  BY <2>1, <2>2 DEF MemoryInv, IdleState
<1>4. CASE SidecarStep
  <2>1. UNCHANGED <<mode, lastRun, worker, file, job>>
    BY <1>4, SidecarFrame
  <2>2. phaseARunning
    BY <1>4 DEF SidecarStep, ReadRefs, Checkout, SnapshotImages, BuildService, RestoreImage, BuildDone,
       BuildFails, HandoffRejected, HandoffUnreachable, HandoffTimeout, Revert, UnexpectedError,
       HandoffAccepted, GenericUp, GenericUpFails, phaseARunning
  <2>3. mem.run \in Runs /\ mem.run # NoRun /\ mem.status # "failed"
    BY <1>0, <2>2, NumberFacts DEF MemoryInv, phaseARunning
  <2>4. CASE UNCHANGED <<chan, mem>> /\ pc \notin {"idle", "await"} /\ pc' \notin {"idle", "up"}
    BY <2>1, <2>4 DEF MemoryInv
  <2>5. CASE ReadRefs \/ SnapshotImages \/ BuildFails \/ \E s \in Services : BuildService(s) \/ RestoreImage(s)
    BY <2>4, <2>5 DEF ReadRefs, SnapshotImages, BuildFails, FailPhaseA, BuildService, RestoreImage
  <2>6. CASE Checkout \/ HandoffAccepted
    BY <1>0, <2>1, <2>3, <2>6 DEF Checkout, HandoffAccepted, MemoryInv, Reports
  <2>7. CASE BuildDone
    BY <1>0, <2>1, <2>3, <2>7 DEF BuildDone, MemoryInv
  <2>8. CASE HandoffRejected \/ HandoffUnreachable
    <3>1. mode # "generic" /\ mem' = mem /\ pc' = "restore" /\ chan'[mem.run] # "started"
      BY <1>0, <2>3, <2>8 DEF HandoffRejected, HandoffUnreachable, FailPhaseA, MemoryInv
    <3> QED  BY <2>1, <2>3, <3>1 DEF MemoryInv
  <2>9. HandoffTimeout => FALSE
    BY DEF HandoffTimeout, Tolerated
  <2>10. CASE Revert \/ UnexpectedError \/ GenericUpFails
    <3>1. /\ chan' = chan /\ mem'.run = mem.run /\ pc' = "idle" /\ pc \notin {"idle", "await"}
      BY <1>0, <2>10 DEF Revert, UnexpectedError, GenericUpFails, Reports
    <3> QED  BY <2>1, <2>3, <3>1 DEF MemoryInv
  <2>11. CASE GenericUp
    <3>1. pc = "up" /\ chan' = chan /\ pc' = "idle" /\ mode = "generic"
      BY <2>11 DEF GenericUp, MemoryInv, SidecarReset
    <3>2. mem' = IdleState \/ (mem'.run = mem.run /\ mem'.status = "success")
      BY <1>0, <2>11 DEF GenericUp, SidecarReset, Reports
    <3>3. file.status = "idle"
      BY <3>1, GenericHasNoFile
    <3> QED  BY <2>1, <2>3, <3>1, <3>2, <3>3 DEF MemoryInv, IdleState
  <2> QED
    BY <1>4, <2>5, <2>6, <2>7, <2>8, <2>9, <2>10, <2>11 DEF SidecarStep
<1>5. CASE PublishRelease \/ UNCHANGED vars
  BY <1>5 DEF PublishRelease, sidecarVars, hostVars, vars, deploymentVars, MemoryInv
<1>6. SidecarCrash => FALSE
  BY DEF SidecarCrash, Tolerated
<1> QED  BY <1>1, <1>2, <1>3, <1>4, <1>5, <1>6 DEF Next

LEMMA MemoryInvariant == ASSUME Faults \subseteq Tolerated PROVE Spec => [](Known /\ MemoryInv)
<1>1. Init => MemoryInv
  BY DEF Init, MemoryInv, IdleState, NoFile
<1>2. Known /\ MemoryInv /\ [Next]_vars => MemoryInv'
  BY MemoryInvStep
<1> QED  BY <1>1, <1>2, ContractInvariant, PTL DEF Spec

-------------------------------------------------------------------------------
(***************************************************************************)
(* The banners                                                             *)
(***************************************************************************)

\* What banners and the server do to the sidecar is what SelfUpdate does: all the
\* theorems about Spec hold of a deployment with its administrators.
THEOREM BannersAddNothing == BannerSpec => Spec
<1>1. BannerInit => Init
  BY DEF BannerInit
<1>2. [BannerNext]_allVars => [Next]_vars
  BY DEF BannerNext, Mount, Click, Poll, Unmount, PostReachesSidecar, PostFindsNoUpdate, PostFails,
         CacheExpires, BackgroundStep, allVars, Next
<1> QED  BY <1>1, <1>2, PTL DEF BannerSpec, Spec

WatchedInv == \A c \in Clients : watched[c] <= lastRun
WatchedType ==
  /\ watched \in [Clients -> 0 .. MaxRuns]
  /\ ui \in [Clients -> {"closed", "ready", "posting", "watching", "success", "failed"}]

LEMMA RunsAreCounted ==
  ASSUME TypeInv, [Next]_vars
  PROVE  lastRun' \in 0 .. MaxRuns /\ (lastRun' = lastRun \/ lastRun' = lastRun + 1)
<1>1. TypeInv'
  BY TypeStep
<1>2. \A r \in Runs : TriggerStep(r) \/ WorkerStep(r) \/ WorkerCrash(r) \/ JobRuns(r) => lastRun' = lastRun
  BY HostFrame DEF JobRuns
<1>3. lastRun' = lastRun \/ lastRun' = lastRun + 1
  BY <1>2, SidecarFrame DEF Next, Apply, PublishRelease, SidecarCrash, sidecarVars, vars
<1> QED  BY <1>1, <1>3 DEF TypeInv, TypeOK, SidecarTypeOK

LEMMA WatchedStep ==
  ASSUME TypeInv, WatchedInv, WatchedType, [BannerNext]_allVars
  PROVE  WatchedInv' /\ WatchedType'
<1>1. [Next]_vars
  BY DEF BannerNext, Mount, Click, Poll, Unmount, PostReachesSidecar, PostFindsNoUpdate, PostFails,
         CacheExpires, BackgroundStep, allVars, Next
<1>2. /\ lastRun' \in 0 .. MaxRuns /\ (lastRun' = lastRun \/ lastRun' = lastRun + 1)
      /\ lastRun \in 0 .. MaxRuns
  BY <1>1, RunsAreCounted DEF TypeInv, TypeOK, SidecarTypeOK
<1>3. watched' = watched \/ \E c \in Clients : watched' = [watched EXCEPT ![c] = lastRun']
  BY DEF BannerNext, Mount, Click, Poll, Unmount, PostReachesSidecar, PostFindsNoUpdate, PostFails,
         CacheExpires, BackgroundStep, allVars, clientVars
<1>4. \A c \in Clients : watched'[c] = watched[c] \/ watched'[c] = lastRun'
  BY <1>3 DEF WatchedType
<1>5. ui' \in [Clients -> {"closed", "ready", "posting", "watching", "success", "failed"}]
  BY DEF BannerNext, Mount, Click, Poll, Unmount, PostReachesSidecar, PostFindsNoUpdate, PostFails,
         CacheExpires, BackgroundStep, allVars, clientVars, WatchedType
<1>6. WatchedType'
  BY <1>2, <1>3, <1>5 DEF WatchedType
<1> QED  BY <1>2, <1>4, <1>6 DEF WatchedInv, WatchedType

\* The sidecar remembers the run it accepted last, or nothing.
RememberedInv == mem.run \in {NoRun, lastRun}

LEMMA RememberedStep ==
  ASSUME TypeInv, HostInv, RememberedInv, [Next]_vars
  PROVE  RememberedInv'
<1>1. CASE SidecarStep
  <2>1. lastRun' = lastRun /\ (mem'.run = mem.run \/ mem' = IdleState)
    BY <1>1, SidecarFrame
       DEF SidecarStep, ReadRefs, Checkout, SnapshotImages, BuildService, RestoreImage, BuildDone, BuildFails,
           HandoffRejected, HandoffUnreachable, HandoffTimeout, FailPhaseA, Revert, UnexpectedError,
           HandoffAccepted, GenericUp, GenericUpFails, SidecarReset, Reports, TypeInv, TypeOK, SidecarTypeOK
  <2> QED  BY <2>1 DEF RememberedInv, IdleState
<1>2. CASE SidecarCrash \/ \E r \in Runs : JobRuns(r)
  BY <1>2 DEF SidecarCrash, JobRuns, SidecarReset, RememberedInv, IdleState
<1>3. CASE Apply
  BY <1>3 DEF Apply, RememberedInv, IdleState
<1>4. CASE PublishRelease \/ UNCHANGED vars
  BY <1>4 DEF PublishRelease, vars, sidecarVars, RememberedInv
<1> QED  BY <1>1, <1>2, <1>3, <1>4, HostFrame DEF Next, RememberedInv

\* The outcome a banner takes over is the status of that moment.
LEMMA ShownIsStatus ==
  ASSUME WatchedType, [BannerNext]_allVars, NEW c \in Clients,
         ui[c] = "watching", ui'[c] \in {"success", "failed"}
  PROVE  Status.status \in {"success", "failed"}
  BY DEF BannerNext, Mount, Click, Poll, Unmount, PostReachesSidecar, PostFindsNoUpdate, PostFails,
         CacheExpires, BackgroundStep, allVars, clientVars, WatchedType

\* Whatever is lost, late or killed: while the sidecar that accepted an update lives,
\* mergeStatus shows no outcome of an earlier one that state.json still holds.
THEOREM MemoryMasks == BannerSpec => MemoryMasksOldOutcomes
<1>1. BannerSpec => [](TypeInv /\ HostInv)
  BY BannersAddNothing, HostInvariant, PTL
<1>2. BannerInit => WatchedInv /\ WatchedType /\ RememberedInv
  BY BoundsAssumption DEF BannerInit, Init, WatchedInv, WatchedType, RememberedInv, IdleState
<1>3. TypeInv /\ HostInv /\ WatchedInv /\ WatchedType /\ RememberedInv /\ [BannerNext]_allVars
        => WatchedInv' /\ WatchedType' /\ RememberedInv'
  <2>1. [BannerNext]_allVars => [Next]_vars
    BY DEF BannerNext, Mount, Click, Poll, Unmount, PostReachesSidecar, PostFindsNoUpdate, PostFails,
           CacheExpires, BackgroundStep, allVars, Next
  <2> QED  BY <2>1, WatchedStep, RememberedStep
<1>4. TypeInv /\ WatchedInv /\ WatchedType /\ RememberedInv /\ [BannerNext]_allVars =>
        [\A c \in Clients : ui[c] = "watching" /\ ui'[c] \in {"success", "failed"} =>
           mem.run = NoRun \/ Status.run >= watched[c]]_ui
  <2> SUFFICES ASSUME TypeInv, WatchedInv, WatchedType, RememberedInv, mem.run # NoRun, NEW c \in Clients
               PROVE  Status.run >= watched[c]
    OBVIOUS
  <2>1. Status.run = lastRun
    BY DEF Status, MergeStatus, RememberedInv
  <2> QED  BY <2>1 DEF WatchedInv, WatchedType, TypeInv, TypeOK, SidecarTypeOK
<1> QED  BY <1>1, <1>2, <1>3, <1>4, PTL DEF BannerSpec, MemoryMasksOldOutcomes

\* With nothing lost or late, no banner shows the outcome of a run before the one its
\* click started, also when the sidecar that answers has been recreated and has only
\* state.json.  (A later run's outcome it may show.)  Every fault that is not Tolerated
\* breaks this, each by itself.
THEOREM BannersShowNothingOlder == ASSUME Faults \subseteq Tolerated PROVE BannerSpec => NoStaleOutcome
<1>1. BannerSpec => [](Known /\ MemoryInv)
  BY BannersAddNothing, MemoryInvariant, PTL
<1>2. BannerInit => WatchedInv /\ WatchedType
  BY BoundsAssumption DEF BannerInit, Init, WatchedInv, WatchedType
<1>3. Known /\ WatchedInv /\ WatchedType /\ [BannerNext]_allVars => WatchedInv' /\ WatchedType'
  BY WatchedStep DEF Known
<1>4. ASSUME Known, MemoryInv, WatchedInv, WatchedType, [BannerNext]_allVars, ui' # ui,
             NEW c \in Clients, ui[c] = "watching", ui'[c] \in {"success", "failed"}
      PROVE  Status.run >= watched[c]
  <2>1. Status.status \in {"success", "failed"}
    BY <1>4, ShownIsStatus
  <2>2. Status = mem \/ Status = file
    BY DEF Status, MergeStatus
  <2>3. Status.run = lastRun
    BY <1>4, <2>1 DEF Status, MergeStatus, MemoryInv, Known, HostInv, FileOfWorker
  <2> QED  BY <1>4, <2>3 DEF WatchedInv, WatchedType, Known, TypeInv, TypeOK, SidecarTypeOK
<1>5. Known /\ MemoryInv /\ WatchedInv /\ WatchedType /\ [BannerNext]_allVars =>
        [\A c \in Clients : ui[c] = "watching" /\ ui'[c] \in {"success", "failed"} =>
           Status.run >= watched[c]]_ui
  BY <1>4
<1> QED  BY <1>1, <1>2, <1>3, <1>5, PTL DEF BannerSpec, NoStaleOutcome
================================================================================
