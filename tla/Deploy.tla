------------------------------- MODULE Deploy -------------------------------
(***************************************************************************)
(* deploy/deploy.sh, the script that puts a new image into service on the  *)
(* server.  Several may be started, by the release workflow and by hand;   *)
(* a file lock admits one.  It keeps two files: current-image, the image   *)
(* last found ready, and previous-image, for a rollback by hand.  Any of   *)
(* its commands may fail, and it may be killed between two of them or with *)
(* the machine.                                                            *)
(***************************************************************************)
EXTENDS Naturals, FiniteSets

CONSTANTS
    Deployers,   \* processes that run the script
    Images,      \* images a deployment may be asked for
    Sound,       \* those that can become healthy and ready
    None,        \* no image: a stopped service, a missing or an empty file
    MaxDeploys, MaxFaults, MaxCrashes   \* bounds of a finite instance

ASSUME DeployAssumption ==
    /\ Sound \subseteq Images /\ None \notin Images \cup Deployers
    /\ {MaxDeploys, MaxFaults, MaxCrashes} \subseteq Nat

VARIABLES
    service,     \* the image the container runs
    current,     \* the file current-image
    previous,    \* the file previous-image
    lock,        \* who has the lock on .deploy.lock
    job,         \* what each process is doing
    deploys, faults, crashes,
    proven       \* history: the images that were found ready

vars == <<service, current, previous, lock, job, deploys, faults, crashes, proven>>
files == <<current, previous>>

MaybeImage == Images \cup {None}
Pcs == {"idle", "save", "saving", "pull", "up", "wait", "record", "report",
        "undo", "up_old", "wait_old", "restore", "restoring", "stop", "exit"}
Ended == {"open", "success", "failure"}

JobType == [pc : Pcs, image : MaybeImage, old : MaybeImage, pulled : BOOLEAN, result : Ended]

\* old is the script's variable previous; pulled and result are history.
Idle == [pc |-> "idle", image |-> None, old |-> None, pulled |-> FALSE, result |-> "open"]

\* The service is up on an image that was deployed before, or was never deployed.
Init ==
    /\ service \in Sound \cup {None} /\ current = service
    /\ previous = None
    /\ lock = None
    /\ job = [d \in Deployers |-> Idle]
    /\ deploys = 0 /\ faults = 0 /\ crashes = 0
    /\ proven = {current} \ {None}

-----------------------------------------------------------------------------
(* Helpers. *)

At(d, pc)      == job[d].pc = pc
Goto(d, pc)    == job' = [job EXCEPT ![d].pc = pc]
Exit(d, result) == job' = [job EXCEPT ![d].pc = "exit", ![d].result = result]

Works == UNCHANGED faults
Fails == faults < MaxFaults /\ faults' = faults + 1

Counts == <<deploys, crashes>>

\* docker compose up that fails, or is cut, may have replaced the container or removed it.
PartlyUp(image) == {service, image, None}

-----------------------------------------------------------------------------
(* Lines 4-15: the lock, the record of the image in service, its copy. *)

\* Mutant: no lock.
AlwaysFree == TRUE
LockIsFree == lock = None

\* A second script finds the lock taken and gives up.
Begin(d) ==
    /\ At(d, "idle") /\ deploys < MaxDeploys
    /\ deploys' = deploys + 1
    /\ \E image \in Images :
         \/ /\ LockIsFree /\ lock' = d
            /\ job' = [job EXCEPT ![d] = [Idle EXCEPT !.image = image, !.old = current,
                                          !.pc = IF current # None THEN "save" ELSE "pull"]]
         \/ ~LockIsFree /\ UNCHANGED <<lock, job>>
    /\ UNCHANGED <<service, files, faults, crashes, proven>>

\* The redirection empties the file, then printf fills it.
SaveTruncate(d) ==
    /\ At(d, "save")
    /\ \/ Works /\ previous' = None /\ Goto(d, "saving")
       \/ Fails /\ UNCHANGED previous /\ Exit(d, "failure")
    /\ UNCHANGED <<service, current, lock, Counts, proven>>

SaveWrite(d) ==
    /\ At(d, "saving")
    /\ \/ Works /\ previous' = job[d].old /\ Goto(d, "pull")
       \/ Fails /\ UNCHANGED previous /\ Exit(d, "failure")
    /\ UNCHANGED <<service, current, lock, Counts, proven>>

-----------------------------------------------------------------------------
(* Lines 46-58: the new image. *)

\* Mutant: the trap is set before the pull.
UndoesAnyway(d)  == Goto(d, "undo")
AfterLostPull(d) == Exit(d, "failure")

Pull(d) ==
    /\ At(d, "pull")
    /\ \/ Works /\ job' = [job EXCEPT ![d].pc = "up", ![d].pulled = TRUE]
       \/ Fails /\ AfterLostPull(d)
    /\ UNCHANGED <<service, files, lock, Counts, proven>>

Up(d) ==
    /\ At(d, "up")
    /\ \/ Works /\ service' = job[d].image /\ Goto(d, "wait")
       \/ Fails /\ service' \in PartlyUp(job[d].image) /\ Goto(d, "undo")
    /\ UNCHANGED <<files, lock, Counts, proven>>

\* Mutants: the image is recorded whether it is ready or not; one waits without end.
RecordsUnready(d) == Goto(d, "record")
WaitsOn(d)        == UNCHANGED job
AfterUnready(d)   == Goto(d, "undo")

\* The probes run against the container that is in service.
FoundReady == service \in Sound /\ proven' = proven \cup {service}

WaitReady(d) ==
    /\ At(d, "wait")
    /\ \/ Works /\ FoundReady /\ Goto(d, "record")
       \/ Works /\ service \notin Sound /\ AfterUnready(d) /\ UNCHANGED proven
       \/ Fails /\ AfterUnready(d) /\ UNCHANGED proven
    /\ UNCHANGED <<service, files, lock, Counts>>

\* Written to a file of its own and renamed.
Record(d) ==
    /\ At(d, "record")
    /\ \/ Works /\ current' = job[d].image /\ Goto(d, "report")
       \/ Fails /\ UNCHANGED current /\ Goto(d, "undo")
    /\ UNCHANGED <<service, previous, lock, Counts, proven>>

\* The trap is gone; the image may have no commit label to report.
Report(d) ==
    /\ At(d, "report")
    /\ \/ Works /\ Exit(d, "success")
       \/ Fails /\ Exit(d, "failure")
    /\ UNCHANGED <<service, files, lock, Counts, proven>>

-----------------------------------------------------------------------------
(* rollback, lines 28-44. *)

Undo(d) ==
    /\ At(d, "undo")
    /\ Goto(d, IF job[d].old # None THEN "up_old" ELSE "stop")
    /\ UNCHANGED <<service, files, lock, Counts, faults, proven>>

UpOld(d) ==
    /\ At(d, "up_old")
    /\ \/ Works /\ service' = job[d].old /\ Goto(d, "wait_old")
       \/ Fails /\ service' \in PartlyUp(job[d].old) /\ Exit(d, "failure")
    /\ UNCHANGED <<files, lock, Counts, proven>>

\* The old image is proven: it fails to be ready only when something else is wrong.
WaitOld(d) ==
    /\ At(d, "wait_old")
    /\ \/ Works /\ FoundReady /\ Goto(d, "restore")
       \/ Fails /\ Exit(d, "failure") /\ UNCHANGED proven
    /\ UNCHANGED <<service, files, lock, Counts>>

RestoreTruncate(d) ==
    /\ At(d, "restore")
    /\ \/ Works /\ current' = None /\ Goto(d, "restoring")
       \/ Fails /\ UNCHANGED current /\ Exit(d, "failure")
    /\ UNCHANGED <<service, previous, lock, Counts, proven>>

RestoreWrite(d) ==
    /\ At(d, "restoring")
    /\ \/ Works /\ current' = job[d].old
       \/ Fails /\ UNCHANGED current
    /\ Exit(d, "failure")
    /\ UNCHANGED <<service, previous, lock, Counts, proven>>

\* A first deployment has nothing to go back to.
StopBot(d) ==
    /\ At(d, "stop")
    /\ \/ Works /\ service' = None
       \/ Fails /\ UNCHANGED service
    /\ Exit(d, "failure")
    /\ UNCHANGED <<files, lock, Counts, proven>>

-----------------------------------------------------------------------------
\* The process ends and its lock with it.
End(d) ==
    /\ At(d, "exit")
    /\ lock' = None
    /\ job' = [job EXCEPT ![d] = Idle]
    /\ UNCHANGED <<service, files, Counts, faults, proven>>

\* The process is killed.  The container keeps running, and restarts with the machine.
Kill(d) ==
    /\ job[d].pc \notin {"idle", "exit"}
    /\ crashes < MaxCrashes /\ crashes' = crashes + 1
    /\ service' \in {service}
         \cup (IF At(d, "up") THEN PartlyUp(job[d].image) ELSE {})
         \cup (IF At(d, "up_old") THEN PartlyUp(job[d].old) ELSE {})
         \cup (IF At(d, "stop") THEN {None} ELSE {})
    /\ lock' = None
    /\ job' = [job EXCEPT ![d] = Idle]
    /\ UNCHANGED <<files, deploys, faults, proven>>

Go(d) ==
    \/ SaveTruncate(d) \/ SaveWrite(d) \/ Pull(d) \/ Up(d) \/ WaitReady(d) \/ Record(d) \/ Report(d)
    \/ Undo(d) \/ UpOld(d) \/ WaitOld(d) \/ RestoreTruncate(d) \/ RestoreWrite(d) \/ StopBot(d)
    \/ End(d)

Next == \E d \in Deployers : Begin(d) \/ Go(d) \/ Kill(d)

Spec == Init /\ [][Next]_vars

\* Every command returns: the readiness probes stop after 24 tries.
FairSpec == Spec /\ \A d \in Deployers : WF_vars(Go(d))

-----------------------------------------------------------------------------
(* Properties *)

\* The shape of the state, and the lock: the one process that runs the script has it.
TypeOK ==
    /\ service \in MaybeImage /\ current \in MaybeImage /\ previous \in MaybeImage
    /\ lock \in Deployers \cup {None}
    /\ job \in [Deployers -> JobType]
    /\ \A d \in Deployers : job[d].pc # "idle" => lock = d
    /\ deploys \in Nat /\ faults \in Nat /\ crashes \in Nat
    /\ proven \subseteq Images

\* The files name only images that were found ready in service: what a later rollback goes
\* back to has worked before, whatever failed or was killed on the way.
FilesAreProven == current \in proven \cup {None} /\ previous \in proven \cup {None}

\* A script that ends with success leaves its image in service, ready and recorded; other
\* scripts that ran meanwhile did not touch it.
SuccessIsServed ==
    \A d \in Deployers : job[d].result = "success" =>
        service = job[d].image /\ current = job[d].image /\ job[d].image \in Sound

\* README: if the new version is not ready the script restores the previous image.  When no
\* command failed, a failed deployment has left the recorded image in service, also after
\* scripts that were killed half way; if there was none, the service is stopped.
FailureRestores ==
    \A d \in Deployers : (job[d].result = "failure" /\ faults = 0) =>
        service = job[d].old /\ current = job[d].old

\* What these rest on: how far a script has come tells what is in service and on record.
\* Proven images are sound; old is what current-image said and still says until the script
\* writes it.
InStep(j) ==
    /\ j.pc # "idle" => j.image \in Images /\ j.old \in proven \cup {None}
    /\ j.pc \notin {"idle", "save", "saving", "pull", "exit"} => j.pulled
    /\ j.pc \in {"save", "saving", "up_old", "wait_old", "restore", "restoring"} => j.old # None
    /\ j.pc = "stop" => j.old = None
    /\ j.pc \in {"wait", "record", "report"} => service = j.image
    /\ j.pc \in {"record", "report"} => j.image \in proven
    /\ j.pc = "report" => current = j.image
    /\ j.pc \in {"wait_old", "restore", "restoring"} => service = j.old
    /\ j.pc \in Pcs \ {"idle", "report", "restoring", "exit"} => current = j.old
    /\ j.result # "open" <=> j.pc = "exit"

Progress == \A d \in Deployers : InStep(job[d])

DeployInv ==
    /\ TypeOK /\ FilesAreProven /\ proven \subseteq Sound /\ Progress
    /\ SuccessIsServed /\ FailureRestores

\* README: if the pull fails, the running container does not change.
PullBeforeService ==
    [][service' # service => \E d \in Deployers : job[d].pulled]_vars

\* README: pull, then save previous-image.
PulledBeforeSaved ==
    [][previous' # previous => \E d \in Deployers : job[d].pulled]_vars

\* The script ends, and lets the next one in.
DeploymentsEnd == \A d \in Deployers : lock = d ~> lock # d
=============================================================================
