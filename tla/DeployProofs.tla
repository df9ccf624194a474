---------------------------- MODULE DeployProofs ----------------------------
(***************************************************************************)
(* Proofs about Deploy, for any images, any number of scripts and any      *)
(* number of failures and kills.  The lock makes all scripts but one idle, *)
(* so a step of the one that runs is judged by its own record alone: the   *)
(* lemma Alone reduces the invariant to it.                                *)
(***************************************************************************)
EXTENDS Deploy, TLAPS

\* What Progress, SuccessIsServed and FailureRestores say of one script with record j.
Fits(j) ==
    /\ InStep(j)
    /\ j.result = "success" => service = j.image /\ current = j.image /\ j.image \in Sound
    /\ (j.result = "failure" /\ faults = 0) => service = j.old /\ current = j.old

\* The invariant, one script at a time.
LEMMA Apart == DeployInv <=> /\ TypeOK /\ FilesAreProven /\ proven \subseteq Sound
                            /\ \A d \in Deployers : Fits(job[d])
    BY DEF DeployInv, Progress, SuccessIsServed, FailureRestores, Fits

\* The same after a step.
LEMMA ApartNext == DeployInv' <=> /\ TypeOK' /\ FilesAreProven' /\ proven' \subseteq Sound
                                 /\ \A d \in Deployers : Fits(job[d])'
    BY DEF DeployInv, Progress, SuccessIsServed, FailureRestores, Fits

\* While one script runs, the others are idle.
LEMMA OthersIdle ==
    ASSUME DeployInv, NEW d \in Deployers, job[d].pc # "idle"
    PROVE  /\ lock = d /\ job \in [Deployers -> JobType] /\ Fits(job[d])
           /\ \A e \in Deployers \ {d} : job[e].pc = "idle" /\ job[e].result = "open"
           /\ service \in MaybeImage /\ current \in MaybeImage /\ previous \in MaybeImage
           /\ deploys \in Nat /\ faults \in Nat /\ crashes \in Nat
           /\ proven \subseteq Images /\ proven \subseteq Sound
           /\ FilesAreProven
    BY Apart DEF TypeOK, JobType, Fits, InStep

\* A step of the script that runs keeps the invariant when it keeps the files proven and
\* the script's own record fitting.
LEMMA Alone ==
    ASSUME DeployInv, NEW d \in Deployers, job[d].pc # "idle",
           lock' = lock, deploys' = deploys, crashes' = crashes, faults' \in Nat,
           job' \in [Deployers -> JobType], \A e \in Deployers \ {d} : job'[e] = job[e],
           service' \in MaybeImage, current' \in MaybeImage, previous' \in MaybeImage,
           proven' \subseteq Images \cap Sound, FilesAreProven',
           Fits(job[d])'
    PROVE  DeployInv'
<1>1. /\ lock = d /\ deploys \in Nat /\ faults \in Nat /\ crashes \in Nat
      /\ \A e \in Deployers \ {d} : job[e].pc = "idle" /\ job[e].result = "open"
    BY OthersIdle
<1>2. TypeOK'
    BY <1>1 DEF TypeOK, JobType
<1>3. \A e \in Deployers \ {d} : Fits(job[e])'
    BY <1>1 DEF Fits, InStep, Pcs
<1> QED BY <1>2, <1>3, ApartNext

\* A script that ends, or is killed, leaves files and service fit for the next one.
LEMMA Ends ==
    ASSUME DeployInv, NEW d \in Deployers, lock = d, lock' = None, job' = [job EXCEPT ![d] = Idle],
           UNCHANGED <<files, deploys, faults, proven>>, service' \in MaybeImage, crashes' \in Nat
    PROVE  DeployInv'
<1>1. /\ job \in [Deployers -> JobType] /\ TypeOK /\ proven \subseteq Sound /\ FilesAreProven
      /\ \A e \in Deployers \ {d} : job[e].pc = "idle" /\ job[e].result = "open"
    BY Apart DEF TypeOK, JobType, Fits, InStep
<1>2. /\ Idle \in JobType /\ Idle.pc = "idle" /\ Idle.result = "open"
    BY DEF Idle, JobType, Pcs, Ended, MaybeImage
<1>3. /\ job' \in [Deployers -> JobType]
      /\ \A e \in Deployers : job'[e].pc = "idle" /\ job'[e].result = "open"
    BY <1>1, <1>2
<1>4. TypeOK'
    BY <1>1, <1>3 DEF TypeOK, JobType, files
<1>5. \A e \in Deployers : Fits(job[e])'
    BY <1>3 DEF Fits, InStep, Pcs
<1>6. FilesAreProven' /\ proven' \subseteq Sound
    BY <1>1 DEF FilesAreProven, files
<1> QED BY <1>4, <1>5, <1>6, ApartNext

\* A step of a script keeps the invariant.
LEMMA GoKeeps ==
    ASSUME DeployInv, NEW d \in Deployers, Go(d)
    PROVE  DeployInv'
<1>1. job[d].pc # "idle" /\ job[d].pc \in Pcs
    BY DEF Go, At, Pcs, SaveTruncate, SaveWrite, Pull, Up, WaitReady, Record, Report, Undo,
       UpOld, WaitOld, RestoreTruncate, RestoreWrite, StopBot, End
<1>2. /\ lock = d /\ job \in [Deployers -> JobType] /\ Fits(job[d])
      /\ \A e \in Deployers \ {d} : job[e].pc = "idle" /\ job[e].result = "open"
      /\ service \in MaybeImage /\ current \in MaybeImage /\ previous \in MaybeImage
      /\ deploys \in Nat /\ faults \in Nat /\ crashes \in Nat
      /\ proven \subseteq Images /\ proven \subseteq Sound
      /\ FilesAreProven
    BY <1>1, OthersIdle
<1>3. CASE SaveTruncate(d)
    <2>1. lock' = lock /\ deploys' = deploys /\ crashes' = crashes /\ faults' \in Nat
        BY <1>2, <1>3 DEF SaveTruncate, Counts, Works, Fails
    <2>2. job' \in [Deployers -> JobType] /\ \A e \in Deployers \ {d} : job'[e] = job[e]
        BY <1>2, <1>3 DEF SaveTruncate, Goto, Exit, JobType, Pcs, Ended
    <2>3. /\ service' \in MaybeImage /\ current' \in MaybeImage /\ previous' \in MaybeImage
          /\ proven' \subseteq Images \cap Sound /\ FilesAreProven'
        BY <1>2, <1>3 DEF SaveTruncate, At, Fits, InStep, files, MaybeImage, JobType,
           FilesAreProven
    <2>4. Fits(job[d])'
        BY <1>2, <1>3 DEF SaveTruncate, At, Fits, InStep, files, Goto, Exit, Works, Fails,
           JobType, Pcs
    <2> QED BY <1>1, <2>1, <2>2, <2>3, <2>4, Alone
<1>4. CASE SaveWrite(d)
    <2>1. lock' = lock /\ deploys' = deploys /\ crashes' = crashes /\ faults' \in Nat
        BY <1>2, <1>4 DEF SaveWrite, Counts, Works, Fails
    <2>2. job' \in [Deployers -> JobType] /\ \A e \in Deployers \ {d} : job'[e] = job[e]
        BY <1>2, <1>4 DEF SaveWrite, Goto, Exit, JobType, Pcs, Ended
    <2>3. /\ service' \in MaybeImage /\ current' \in MaybeImage /\ previous' \in MaybeImage
          /\ proven' \subseteq Images \cap Sound /\ FilesAreProven'
        BY <1>2, <1>4 DEF SaveWrite, At, Fits, InStep, files, MaybeImage, JobType, FilesAreProven
    <2>4. Fits(job[d])'
        BY <1>2, <1>4 DEF SaveWrite, At, Fits, InStep, files, Goto, Exit, Works, Fails, JobType,
           Pcs
    <2> QED BY <1>1, <2>1, <2>2, <2>3, <2>4, Alone
<1>5. CASE Pull(d)
    <2>1. lock' = lock /\ deploys' = deploys /\ crashes' = crashes /\ faults' \in Nat
        BY <1>2, <1>5 DEF Pull, AfterLostPull, Counts, Works, Fails
    <2>2. job' \in [Deployers -> JobType] /\ \A e \in Deployers \ {d} : job'[e] = job[e]
        BY <1>2, <1>5 DEF Pull, AfterLostPull, Goto, Exit, JobType, Pcs, Ended
    <2>3. /\ service' \in MaybeImage /\ current' \in MaybeImage /\ previous' \in MaybeImage
          /\ proven' \subseteq Images \cap Sound /\ FilesAreProven'
        BY <1>2, <1>5 DEF Pull, AfterLostPull, At, Fits, InStep, files, MaybeImage, JobType,
           FilesAreProven
    <2>4. Fits(job[d])'
        BY <1>2, <1>5 DEF Pull, AfterLostPull, At, Fits, InStep, files, Goto, Exit, Works,
           Fails, JobType, Pcs
    <2> QED BY <1>1, <2>1, <2>2, <2>3, <2>4, Alone
<1>6. CASE Up(d)
    <2>1. lock' = lock /\ deploys' = deploys /\ crashes' = crashes /\ faults' \in Nat
        BY <1>2, <1>6 DEF Up, PartlyUp, Counts, Works, Fails
    <2>2. job' \in [Deployers -> JobType] /\ \A e \in Deployers \ {d} : job'[e] = job[e]
        BY <1>2, <1>6 DEF Up, PartlyUp, Goto, Exit, JobType, Pcs, Ended
    <2>3. /\ service' \in MaybeImage /\ current' \in MaybeImage /\ previous' \in MaybeImage
          /\ proven' \subseteq Images \cap Sound /\ FilesAreProven'
        BY <1>2, <1>6 DEF Up, PartlyUp, At, Fits, InStep, files, MaybeImage, JobType,
           FilesAreProven
    <2>4. Fits(job[d])'
        BY <1>2, <1>6 DEF Up, PartlyUp, At, Fits, InStep, files, Goto, Exit, Works, Fails,
           JobType, Pcs
    <2> QED BY <1>1, <2>1, <2>2, <2>3, <2>4, Alone
<1>7. CASE WaitReady(d)
    <2>1. lock' = lock /\ deploys' = deploys /\ crashes' = crashes /\ faults' \in Nat
        BY <1>2, <1>7 DEF WaitReady, AfterUnready, FoundReady, Counts, Works, Fails
    <2>2. job' \in [Deployers -> JobType] /\ \A e \in Deployers \ {d} : job'[e] = job[e]
        BY <1>2, <1>7 DEF WaitReady, AfterUnready, FoundReady, Goto, Exit, JobType, Pcs, Ended
    <2>3. /\ service' \in MaybeImage /\ current' \in MaybeImage /\ previous' \in MaybeImage
          /\ proven' \subseteq Images \cap Sound /\ FilesAreProven'
        BY <1>2, <1>7 DEF WaitReady, AfterUnready, FoundReady, At, Fits, InStep, files,
           MaybeImage, JobType, FilesAreProven
    <2>4. Fits(job[d])'
        BY <1>2, <1>7 DEF WaitReady, AfterUnready, FoundReady, At, Fits, InStep, files, Goto,
           Exit, Works, Fails, JobType, Pcs
    <2> QED BY <1>1, <2>1, <2>2, <2>3, <2>4, Alone
<1>8. CASE Record(d)
    <2>1. lock' = lock /\ deploys' = deploys /\ crashes' = crashes /\ faults' \in Nat
        BY <1>2, <1>8 DEF Record, Counts, Works, Fails
    <2>2. job' \in [Deployers -> JobType] /\ \A e \in Deployers \ {d} : job'[e] = job[e]
        BY <1>2, <1>8 DEF Record, Goto, Exit, JobType, Pcs, Ended
    <2>3. /\ service' \in MaybeImage /\ current' \in MaybeImage /\ previous' \in MaybeImage
          /\ proven' \subseteq Images \cap Sound /\ FilesAreProven'
        BY <1>2, <1>8 DEF Record, At, Fits, InStep, files, MaybeImage, JobType, FilesAreProven
    <2>4. Fits(job[d])'
        BY <1>2, <1>8 DEF Record, At, Fits, InStep, files, Goto, Exit, Works, Fails, JobType, Pcs
    <2> QED BY <1>1, <2>1, <2>2, <2>3, <2>4, Alone
<1>9. CASE Report(d)
    <2>1. lock' = lock /\ deploys' = deploys /\ crashes' = crashes /\ faults' \in Nat
        BY <1>2, <1>9 DEF Report, Counts, Works, Fails
    <2>2. job' \in [Deployers -> JobType] /\ \A e \in Deployers \ {d} : job'[e] = job[e]
        BY <1>2, <1>9 DEF Report, Goto, Exit, JobType, Pcs, Ended
    <2>3. /\ service' \in MaybeImage /\ current' \in MaybeImage /\ previous' \in MaybeImage
          /\ proven' \subseteq Images \cap Sound /\ FilesAreProven'
        BY <1>2, <1>9 DEF Report, At, Fits, InStep, files, MaybeImage, JobType, FilesAreProven
    <2>4. Fits(job[d])'
        BY <1>2, <1>9 DEF Report, At, Fits, InStep, files, Goto, Exit, Works, Fails, JobType, Pcs
    <2> QED BY <1>1, <2>1, <2>2, <2>3, <2>4, Alone
<1>10. CASE Undo(d)
    <2>1. lock' = lock /\ deploys' = deploys /\ crashes' = crashes /\ faults' \in Nat
        BY <1>2, <1>10 DEF Undo, Counts, Works, Fails
    <2>2. job' \in [Deployers -> JobType] /\ \A e \in Deployers \ {d} : job'[e] = job[e]
        BY <1>2, <1>10 DEF Undo, Goto, Exit, JobType, Pcs, Ended
    <2>3. /\ service' \in MaybeImage /\ current' \in MaybeImage /\ previous' \in MaybeImage
          /\ proven' \subseteq Images \cap Sound /\ FilesAreProven'
        BY <1>2, <1>10 DEF Undo, At, Fits, InStep, files, MaybeImage, JobType, FilesAreProven
    <2>4. Fits(job[d])'
        BY <1>2, <1>10 DEF Undo, At, Fits, InStep, files, Goto, Exit, Works, Fails, JobType, Pcs
    <2> QED BY <1>1, <2>1, <2>2, <2>3, <2>4, Alone
<1>11. CASE UpOld(d)
    <2>1. lock' = lock /\ deploys' = deploys /\ crashes' = crashes /\ faults' \in Nat
        BY <1>2, <1>11 DEF UpOld, PartlyUp, Counts, Works, Fails
    <2>2. job' \in [Deployers -> JobType] /\ \A e \in Deployers \ {d} : job'[e] = job[e]
        BY <1>2, <1>11 DEF UpOld, PartlyUp, Goto, Exit, JobType, Pcs, Ended
    <2>3. /\ service' \in MaybeImage /\ current' \in MaybeImage /\ previous' \in MaybeImage
          /\ proven' \subseteq Images \cap Sound /\ FilesAreProven'
        BY <1>2, <1>11 DEF UpOld, PartlyUp, At, Fits, InStep, files, MaybeImage, JobType,
           FilesAreProven
    <2>4. Fits(job[d])'
        BY <1>2, <1>11 DEF UpOld, PartlyUp, At, Fits, InStep, files, Goto, Exit, Works, Fails,
           JobType, Pcs
    <2> QED BY <1>1, <2>1, <2>2, <2>3, <2>4, Alone
<1>12. CASE WaitOld(d)
    <2>1. lock' = lock /\ deploys' = deploys /\ crashes' = crashes /\ faults' \in Nat
        BY <1>2, <1>12 DEF WaitOld, FoundReady, Counts, Works, Fails
    <2>2. job' \in [Deployers -> JobType] /\ \A e \in Deployers \ {d} : job'[e] = job[e]
        BY <1>2, <1>12 DEF WaitOld, FoundReady, Goto, Exit, JobType, Pcs, Ended
    <2>3. /\ service' \in MaybeImage /\ current' \in MaybeImage /\ previous' \in MaybeImage
          /\ proven' \subseteq Images \cap Sound /\ FilesAreProven'
        BY <1>2, <1>12 DEF WaitOld, FoundReady, At, Fits, InStep, files, MaybeImage, JobType,
           FilesAreProven
    <2>4. Fits(job[d])'
        BY <1>2, <1>12 DEF WaitOld, FoundReady, At, Fits, InStep, files, Goto, Exit, Works,
           Fails, JobType, Pcs
    <2> QED BY <1>1, <2>1, <2>2, <2>3, <2>4, Alone
<1>13. CASE RestoreTruncate(d)
    <2>1. lock' = lock /\ deploys' = deploys /\ crashes' = crashes /\ faults' \in Nat
        BY <1>2, <1>13 DEF RestoreTruncate, Counts, Works, Fails
    <2>2. job' \in [Deployers -> JobType] /\ \A e \in Deployers \ {d} : job'[e] = job[e]
        BY <1>2, <1>13 DEF RestoreTruncate, Goto, Exit, JobType, Pcs, Ended
    <2>3. /\ service' \in MaybeImage /\ current' \in MaybeImage /\ previous' \in MaybeImage
          /\ proven' \subseteq Images \cap Sound /\ FilesAreProven'
        BY <1>2, <1>13 DEF RestoreTruncate, At, Fits, InStep, files, MaybeImage, JobType,
           FilesAreProven
    <2>4. Fits(job[d])'
        BY <1>2, <1>13 DEF RestoreTruncate, At, Fits, InStep, files, Goto, Exit, Works, Fails,
           JobType, Pcs
    <2> QED BY <1>1, <2>1, <2>2, <2>3, <2>4, Alone
<1>14. CASE RestoreWrite(d)
    <2>1. lock' = lock /\ deploys' = deploys /\ crashes' = crashes /\ faults' \in Nat
        BY <1>2, <1>14 DEF RestoreWrite, Counts, Works, Fails
    <2>2. job' \in [Deployers -> JobType] /\ \A e \in Deployers \ {d} : job'[e] = job[e]
        <3>1. job' = [job EXCEPT ![d] = [job[d] EXCEPT !.pc = "exit", !.result = "failure"]]
            BY <1>14 DEF RestoreWrite, Exit
        <3> QED BY <1>2, <3>1 DEF JobType, Pcs, Ended
    <2>3. /\ service' \in MaybeImage /\ current' \in MaybeImage /\ previous' \in MaybeImage
          /\ proven' \subseteq Images \cap Sound /\ FilesAreProven'
        BY <1>2, <1>14 DEF RestoreWrite, At, Fits, InStep, files, MaybeImage, JobType,
           FilesAreProven
    <2>4. Fits(job[d])'
        BY <1>2, <1>14 DEF RestoreWrite, At, Fits, InStep, files, Goto, Exit, Works, Fails,
           JobType, Pcs
    <2> QED BY <1>1, <2>1, <2>2, <2>3, <2>4, Alone
<1>15. CASE StopBot(d)
    <2>1. lock' = lock /\ deploys' = deploys /\ crashes' = crashes /\ faults' \in Nat
        BY <1>2, <1>15 DEF StopBot, Counts, Works, Fails
    <2>2. job' \in [Deployers -> JobType] /\ \A e \in Deployers \ {d} : job'[e] = job[e]
        <3>1. job' = [job EXCEPT ![d] = [job[d] EXCEPT !.pc = "exit", !.result = "failure"]]
            BY <1>15 DEF StopBot, Exit
        <3> QED BY <1>2, <3>1 DEF JobType, Pcs, Ended
    <2>3. /\ service' \in MaybeImage /\ current' \in MaybeImage /\ previous' \in MaybeImage
          /\ proven' \subseteq Images \cap Sound /\ FilesAreProven'
        BY <1>2, <1>15 DEF StopBot, At, Fits, InStep, files, MaybeImage, JobType, FilesAreProven
    <2>4. Fits(job[d])'
        BY <1>2, <1>15 DEF StopBot, At, Fits, InStep, files, Goto, Exit, Works, Fails, JobType,
           Pcs
    <2> QED BY <1>1, <2>1, <2>2, <2>3, <2>4, Alone
<1>16. CASE End(d)
    <2>1. /\ UNCHANGED <<service, files, Counts, faults, proven>>
          /\ lock' = None /\ job' = [job EXCEPT ![d] = Idle]
        BY <1>16 DEF End
    <2>2. deploys' = deploys /\ crashes' = crashes /\ UNCHANGED <<files, deploys, faults, proven>>
        BY <2>1 DEF Counts
    <2> QED BY <1>2, <2>1, <2>2, Ends
<1> QED BY <1>3, <1>4, <1>5, <1>6, <1>7, <1>8, <1>9,
       <1>10, <1>11, <1>12, <1>13, <1>14, <1>15, <1>16 DEF Go

\* The script is killed.
LEMMA KillKeeps ==
    ASSUME DeployInv, NEW d \in Deployers, Kill(d)
    PROVE  DeployInv'
<1>1. job[d].pc # "idle"
    BY DEF Kill
<1>2. /\ lock = d /\ job \in [Deployers -> JobType] /\ service \in MaybeImage /\ crashes \in Nat
    BY <1>1, OthersIdle
<1>3. service' \in MaybeImage /\ crashes' \in Nat
    BY <1>2 DEF Kill, PartlyUp, JobType, MaybeImage
<1> QED BY <1>2, <1>3, Ends DEF Kill

\* A script begins, or finds the lock taken.
LEMMA BeginKeeps ==
    ASSUME DeployInv, NEW d \in Deployers, Begin(d)
    PROVE  DeployInv'
<1>1. /\ TypeOK /\ FilesAreProven /\ proven \subseteq Sound
      /\ job \in [Deployers -> JobType] /\ job[d].pc = "idle"
      /\ \A e \in Deployers : Fits(job[e])
      /\ UNCHANGED <<service, files, faults, crashes, proven>> /\ deploys' \in Nat
    BY Apart DEF TypeOK, JobType, Begin, At
<1>2. CASE UNCHANGED <<lock, job>>
    <2>1. TypeOK' /\ FilesAreProven'
        BY <1>1, <1>2 DEF TypeOK, FilesAreProven, files
    <2>2. \A e \in Deployers : Fits(job[e])'
        BY <1>1, <1>2 DEF Fits, InStep, files
    <2> QED BY <1>1, <2>1, <2>2, ApartNext
<1>3. ASSUME NEW image \in Images, lock = None, lock' = d,
             job' = [job EXCEPT ![d] = [Idle EXCEPT !.image = image, !.old = current,
                                          !.pc = IF current # None THEN "save" ELSE "pull"]]
      PROVE  DeployInv'
    <2>1. \A e \in Deployers : job[e].pc = "idle" /\ job[e].result = "open"
        BY <1>1, <1>3, DeployAssumption DEF TypeOK, Fits, InStep
    <2>2. /\ job' \in [Deployers -> JobType] /\ job'[d].image = image /\ job'[d].old = current
          /\ job'[d].pc = (IF current # None THEN "save" ELSE "pull") /\ job'[d].result = "open"
          /\ \A e \in Deployers \ {d} : job'[e] = job[e]
        BY <1>1, <1>3 DEF Idle, JobType, Pcs, Ended, MaybeImage, TypeOK
    <2>3. TypeOK'
        BY <1>1, <1>3, <2>1, <2>2 DEF TypeOK, JobType, files
    <2>4. FilesAreProven'
        BY <1>1 DEF FilesAreProven, files
    <2>5. \A e \in Deployers \ {d} : Fits(job[e])'
        BY <2>1, <2>2 DEF Fits, InStep, Pcs
    <2>6. Fits(job[d])'
        BY <1>1, <1>3, <2>2 DEF Fits, InStep, Pcs, FilesAreProven, files
    <2> QED BY <1>1, <2>3, <2>4, <2>5, <2>6, ApartNext
<1> QED BY <1>1, <1>2, <1>3 DEF Begin, LockIsFree

\* Initially nothing runs, and the image in service is the one on record.
LEMMA InitHolds == Init => DeployInv
<1> SUFFICES ASSUME Init PROVE DeployInv
    OBVIOUS
<1>1. Idle \in JobType /\ Idle.pc = "idle" /\ Idle.result = "open"
    BY DEF Idle, JobType, Pcs, Ended, MaybeImage
<1>2. TypeOK /\ FilesAreProven /\ proven \subseteq Sound
    BY <1>1, DeployAssumption DEF Init, TypeOK, JobType, MaybeImage, FilesAreProven
<1>3. \A d \in Deployers : Fits(job[d])
    BY <1>1 DEF Init, Fits, InStep, Pcs
<1> QED BY <1>2, <1>3, Apart

\* Every step keeps the invariant.
LEMMA NextKeeps == DeployInv /\ [Next]_vars => DeployInv'
<1> SUFFICES ASSUME DeployInv, [Next]_vars PROVE DeployInv'
    OBVIOUS
<1>1. CASE Next
    BY <1>1, BeginKeeps, GoKeeps, KillKeeps DEF Next
<1>2. CASE UNCHANGED vars
    <2>1. TypeOK' /\ FilesAreProven' /\ proven' \subseteq Sound
        BY <1>2, Apart DEF vars, TypeOK, FilesAreProven
    <2>2. \A d \in Deployers : Fits(job[d])'
        BY <1>2, Apart DEF vars, Fits, InStep
    <2> QED BY <2>1, <2>2, ApartNext
<1> QED BY <1>1, <1>2

\* The inductive invariant.
THEOREM DeployInvariant == Spec => []DeployInv
<1> QED BY InitHolds, NextKeeps, PTL DEF Spec

\* The shape of the state, and one script at a time.
THEOREM TypeCorrect == Spec => []TypeOK
<1>1. DeployInv => TypeOK
    BY DEF DeployInv
<1> QED BY <1>1, DeployInvariant, PTL

\* current-image and previous-image name only images that were found ready.
THEOREM OnlyProvenImages == Spec => []FilesAreProven
<1>1. DeployInv => FilesAreProven
    BY DEF DeployInv
<1> QED BY <1>1, DeployInvariant, PTL

\* Success means the image is in service and recorded.
THEOREM SuccessMeansServed == Spec => []SuccessIsServed
<1>1. DeployInv => SuccessIsServed
    BY DEF DeployInv
<1> QED BY <1>1, DeployInvariant, PTL

\* A deployment that fails because of its image puts the image on record back in service.
THEOREM FailureRolledBack == Spec => []FailureRestores
<1>1. DeployInv => FailureRestores
    BY DEF DeployInv
<1> QED BY <1>1, DeployInvariant, PTL

\* The container is touched only by a script that has pulled its image.
THEOREM PullComesFirst == Spec => PullBeforeService
<1>1. DeployInv /\ [Next]_vars => [service' # service => \E d \in Deployers : job[d].pulled]_vars
    <2> SUFFICES ASSUME DeployInv, Next, service' # service
                 PROVE  \E d \in Deployers : job[d].pulled
        BY DEF vars
    <2>1. PICK d \in Deployers : Go(d) \/ Kill(d)
        BY DEF Next, Begin
    <2>2. Fits(job[d])
        BY Apart
    <2>3. job[d].pc \in {"up", "up_old", "stop"}
        BY <2>1 DEF Go, Kill, At, files, SaveTruncate, SaveWrite, Pull, Up, WaitReady, Record,
           Report, Undo, UpOld, WaitOld, RestoreTruncate, RestoreWrite, StopBot, End
    <2> QED BY <2>2, <2>3 DEF Fits, InStep
<1> QED BY <1>1, DeployInvariant, PTL DEF Spec, PullBeforeService
=============================================================================
