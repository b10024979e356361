---------------------------- MODULE WarmUp_proofs ----------------------------
(* The WarmUp controller keeps the promise of a WarmUp, for any specs, pods,  *)
(* kinds and number of faults.                                                *)
EXTENDS WarmUp, SequenceTheorems, Induction, TLAPS

-----------------------------------------------------------------------------
(* Types *)

\* The object that a step of the reconcile works on is of its kind.
ObjectOfStep ==
  /\ pc \in {"createJob", "writeStatus"} => what \in Job
  /\ pc \in {"createCron", "updateCron", "writeRunning"} => what \in CronJob
TypeInv == TypeOK /\ ObjectOfStep

LEMMA Phases ==
  /\ NoStatus \in Status
  /\ [phase |-> "Gone", progress |-> 0] \in Status
  /\ [phase |-> "Running", progress |-> 0] \in Status
BY BoundsAssumption, SMT DEF NoStatus, Status, Finished, Progress

LEMMA InitTypeInv == Init => TypeInv
<1> SUFFICES ASSUME Init PROVE TypeInv
  OBVIOUS
<1>1. wu \in WarmUpObj /\ seenWu \in WarmUpObj /\ mine \in Status
  BY Phases DEF Init, WarmUpObj
<1>2. faults \in 0 .. MaxFaults
  BY BoundsAssumption DEF Init
<1>3. group \subseteq Workers \cup {Cleaner}
  BY DEF Init
<1> QED
  BY <1>1, <1>2, <1>3 DEF Init, TypeInv, TypeOK, ObjectOfStep, Steps

\* What the builder may render has an origin.
LEMMA OriginsAreOrigin ==
  ASSUME TypeInv, NEW from \in Origins
  PROVE  from \in Origin /\ NewJob(from) \in Job /\ NewCronJob(from) \in CronJob
<1>1. PICK p \in Pods : from = [spec |-> seenWu.spec, pod |-> p]
  BY DEF Origins
<1>2. seenWu.spec \in Specs
  BY DEF TypeInv, TypeOK, WarmUpObj
<1>3. ASSUME SeenSpec.secret # None PROVE from \in Origin
  BY <1>1, <1>2, <1>3 DEF Pods, SeenSpec, Origin
<1>4. ASSUME SeenSpec.secret = None PROVE from \in Origin
  <2>1. p \in Workers
    BY <1>1, <1>4 DEF Pods, TypeInv, TypeOK
  <2> QED
    BY <1>1, <1>2, <1>4, <2>1 DEF SeenSpec, Origin
<1>5. from \in Origin
  BY <1>3, <1>4
<1> QED
  BY <1>5, BoundsAssumption DEF NewJob, NewCronJob, Job, CronJob, Logs, Progress

LEMMA StatsType ==
  ASSUME TypeInv, pc = "writeStatus", NEW stats \in JobStats
  PROVE  [phase |-> Verdict(stats.cold), progress |-> stats.progress] \in Status
<1>1. what \in Job
  BY DEF TypeInv, ObjectOfStep
<1>2. stats.progress \in Progress
  <2>1. CASE job = NoObject \/ ~Supported(what.from)
    BY <2>1, BoundsAssumption DEF JobStats, NoStats, Progress
  <2>2. CASE ~(job = NoObject \/ ~Supported(what.from))
    <3>1. job.progress \in Progress
      BY <2>2 DEF TypeInv, TypeOK, Job
    <3> QED
      BY <2>2, <3>1, BoundsAssumption DEF JobStats, NoStats, Progress
  <2> QED
    BY <2>1, <2>2
<1>3. Verdict(stats.cold) \in {"Running"} \cup Finished
  BY DEF Verdict, Finished
<1> QED
  BY <1>2, <1>3 DEF Status

\* What a return leaves behind.
LEMMA ForgetType == Forget => pc' = "idle" /\ mine' \in Status /\ what' = NoObject
BY Phases DEF Forget

\* What the beginning of a reconcile leaves behind.
LEMMA TakeType ==
  ASSUME TypeInv, NEW step \in Steps \ {"idle"}, NEW object \in Job \cup CronJob \cup {NoObject},
         Take(step, object),
         step \in {"createJob", "writeStatus"} => object \in Job,
         step \in {"createCron", "updateCron", "writeRunning"} => object \in CronJob
  PROVE  TypeInv'
<1>1. mine' \in Status /\ fresh' \subseteq {"cache", "mine"}
  BY DEF Take, TypeInv, TypeOK, WarmUpObj
<1> QED
  BY <1>1 DEF Take, TypeInv, TypeOK, ObjectOfStep, user, cache

LEMMA StepType == TypeInv /\ Step => TypeInv'
<1> SUFFICES ASSUME TypeInv, Step PROVE TypeInv'
  OBVIOUS
<1> USE DEF TypeInv, TypeOK, ObjectOfStep, user, cache
<1>1. CASE SyncGone \/ OnceFinished \/ OnceAwaitTTL \/ CronUpToDate
  BY <1>1 DEF SyncGone, OnceFinished, OnceAwaitTTL, CronUpToDate, Skip
<1>2. CASE OnceExpire
  BY <1>2, TakeType DEF OnceExpire, Steps
<1>3. CASE DeleteWarmUp
  <2>1. wu' \in WarmUpObj
    BY <1>3, Phases DEF DeleteWarmUp, WarmUpObj
  <2> QED
    BY <1>3, <2>1, ForgetType DEF DeleteWarmUp, Return, Outdate, Steps
<1>4. CASE OnceFindJob
  BY <1>4, TakeType DEF OnceFindJob, Steps
<1>5. CASE OnceBuildJob
  BY <1>5, TakeType, OriginsAreOrigin DEF OnceBuildJob, Steps
<1>6. CASE CreateJob
  BY <1>6 DEF CreateJob, Goto, Steps
<1>7. CASE WriteObjectFails
  BY <1>7, ForgetType DEF WriteObjectFails, ReturnError, Drop, Steps
<1>8. CASE WriteStatus
  <2>1. wu' \in WarmUpObj /\ fresh' \subseteq {"cache", "mine"}
    BY <1>8, StatsType DEF WriteStatus, WarmUpObj, Outdate, Drop
  <2> QED
    BY <1>8, <2>1, ForgetType DEF WriteStatus, Return, ReturnAfter, Steps
<1>9. CASE CronBuildJob
  BY <1>9, TakeType, OriginsAreOrigin DEF CronBuildJob, Steps
<1>10. CASE CronRebuildJob
  BY <1>10, TakeType, OriginsAreOrigin DEF CronRebuildJob, Steps
<1>11. CASE CreateCronJob
  BY <1>11 DEF CreateCronJob, Goto, Steps
<1>12. CASE UpdateCronJob
  BY <1>12, ForgetType DEF UpdateCronJob, Return, Drop, Steps
<1>13. CASE WriteRunning
  <2>1. wu' \in WarmUpObj /\ fresh' \subseteq {"cache", "mine"}
    BY <1>13, Phases DEF WriteRunning, WarmUpObj, Outdate, Drop
  <2> QED
    BY <1>13, <2>1, ForgetType DEF WriteRunning, Return, Steps
<1>14. CASE WriteGone
  BY <1>14, ForgetType DEF WriteGone, ReturnError, Drop, Steps
<1>15. CASE ResolveFails
  BY <1>15 DEF ResolveFails, vars, reconcile
<1> QED
  BY <1>1, <1>2, <1>3, <1>4, <1>5, <1>6, <1>7, <1>8, <1>9, <1>10, <1>11, <1>12, <1>13, <1>14, <1>15
  DEF Step, SyncOnce, SyncCron

LEMMA OutsideType == TypeInv /\ (Fault \/ User \/ Cluster) => TypeInv'
<1> SUFFICES ASSUME TypeInv, Fault \/ User \/ Cluster PROVE TypeInv'
  OBVIOUS
<1> USE DEF TypeInv, TypeOK, ObjectOfStep, user, cache, reconcile
<1>1. ASSUME NEW kind, Occurs(kind) PROVE faults' \in 0 .. MaxFaults
  BY <1>1, BoundsAssumption DEF Occurs
<1>2. CASE CallFails
  BY <1>1, <1>2, ForgetType DEF CallFails, ReturnError, Drop, Steps
<1>3. CASE Crash
  BY <1>1, <1>3, ForgetType DEF Crash, Steps
<1>4. CASE JobRetries
  <2>1. job \in Job
    BY <1>4 DEF JobRetries, Active
  <2>2. PICK log \in Logs : job' = [job EXCEPT !.logs = @ \cup {log}, !.progress = 0]
    BY <1>4 DEF JobRetries
  <2>3. 0 \in Progress
    BY BoundsAssumption DEF Progress
  <2>4. job' \in Job
    BY <2>1, <2>2, <2>3 DEF Job
  <2> QED
    BY <1>1, <1>4, <2>4 DEF JobRetries
<1>5. CASE LogsGetLost
  <2>1. job \in Job
    BY <1>5 DEF LogsGetLost
  <2>2. job' \in Job
    BY <1>5, <2>1 DEF LogsGetLost, Job, Logs
  <2> QED
    BY <1>1, <1>5, <2>2 DEF LogsGetLost
<1>6. CASE UserDeletesJob
  BY <1>1, <1>6 DEF UserDeletesJob
<1>7. CASE UserDeletes
  <2>1. wu' \in WarmUpObj
    BY <1>7, Phases DEF UserDeletes, WarmUpObj
  <2> QED
    BY <1>1, <1>7, <2>1 DEF UserDeletes, Outdate
<1>8. CASE UserEdits
  <2>1. wu' \in WarmUpObj
    BY <1>8 DEF UserEdits, WarmUpObj
  <2> QED
    BY <1>1, <1>8, <2>1 DEF UserEdits, Outdate
<1>9. CASE GroupChanges
  BY <1>1, <1>9 DEF GroupChanges
<1>10. CASE ObserveWarmUp \/ ObserveJob \/ ObserveCronJob
  BY <1>10 DEF ObserveWarmUp, ObserveJob, ObserveCronJob, Event
<1>11. CASE TimerFires \/ CronJobRuns \/ TTLPasses \/ CleanerGoes \/ Collect
  BY <1>11 DEF TimerFires, CronJobRuns, TTLPasses, CleanerGoes, Collect
<1>12. CASE JobProgresses
  <2>1. job \in Job
    BY <1>12 DEF JobProgresses, Active
  <2>2. job.progress + 1 \in Progress
    BY <1>12, <2>1, BoundsAssumption DEF JobProgresses, Job, Progress
  <2>3. job' \in Job
    BY <1>12, <2>1, <2>2 DEF JobProgresses, Job
  <2> QED
    BY <1>12, <2>3 DEF JobProgresses
<1>13. CASE JobEnds
  <2>1. job \in Job
    BY <1>13 DEF JobEnds, Active
  <2>2. PICK log \in {"clean", "cold"}, state \in {"complete", "failed"} :
          /\ job' = [job EXCEPT !.logs = @ \cup {log}, !.state = state]
          /\ warmed' = (warmed \/ (state = "complete" /\ Told(job.from, job'.logs)))
    BY <1>13 DEF JobEnds
  <2>3. job' \in Job
    BY <2>1, <2>2 DEF Job, Logs
  <2>4. warmed' \in BOOLEAN
    BY <2>2
  <2> QED
    BY <1>13, <2>3, <2>4 DEF JobEnds
<1> QED
  BY <1>2, <1>3, <1>4, <1>5, <1>6, <1>7, <1>8, <1>9, <1>10, <1>11, <1>12, <1>13
  DEF Fault, User, Cluster

LEMMA TypeStep == TypeInv /\ [Next]_vars => TypeInv'
<1>1. TypeInv /\ UNCHANGED vars => TypeInv'
  BY DEF TypeInv, TypeOK, ObjectOfStep, vars, user, cache, reconcile
<1> QED
  BY <1>1, StepType, OutsideType DEF Next

(***************************************************************************)
(* The variables of the WarmUp controller have their types, in particular: *)
(* a reconcile that is about to write a status has read or created a job,  *)
(* and what the builder renders has a worker or the secret as its origin.  *)
(***************************************************************************)
THEOREM TypeCorrect == Spec => []TypeOK
<1>1. TypeInv => TypeOK
  BY DEF TypeInv
<1> QED
  BY <1>1, InitTypeInv, TypeStep, PTL DEF Spec

-----------------------------------------------------------------------------
(* The promise *)

\* A fresh copy is what the API server has, and a reconcile that works for a
\* policy on a fresh copy works for the policy of the WarmUp.
CopiesInv ==
  /\ "cache" \in fresh => seenWu = wu
  /\ "mine" \in fresh => pc # "idle" /\ mine = wu.status
  /\ "mine" \in fresh /\ pc \in {"createJob", "writeStatus"} =>
       ~Scheduled /\ wu.status.phase \notin Finished
  /\ "mine" \in fresh /\ pc \in {"createCron", "updateCron", "writeRunning"} => Scheduled

\* A job that is read as complete, here or by anyone who has read it since, has
\* warmed up the cache, unless it is still there and its only log tells otherwise.
Cold(c) ==
  /\ job # NoObject /\ job.from = c.from /\ job.state = "complete"
  /\ job.logs = {"cold"} /\ Supported(c.from)
Evident(c) == c # NoObject /\ c.state = "complete" => warmed \/ Cold(c)
JobInv ==
  \/ Gone
  \/ /\ Evident(job)
     /\ Evident(seenJob)
     /\ pc = "createJob" => what.state = "active"
     /\ pc = "writeStatus" => Evident(what)

Inv == TypeInv /\ CopiesInv /\ JobInv

LEMMA InitInv == Init => Inv
<1>1. Init => CopiesInv
  BY DEF Init, CopiesInv
<1>2. Init => JobInv
  BY DEF Init, JobInv, Evident
<1> QED
  BY <1>1, <1>2, InitTypeInv DEF Inv

\* Copies, as long as no step of the reconcile is taken.
LEMMA TakeCopies ==
  ASSUME TypeInv, CopiesInv, NEW step \in Steps \ {"idle"}, NEW object, Take(step, object),
         step \in {"createJob", "writeStatus"} =>
           SeenSpec.policy # "Cron" /\ seenWu.status.phase \notin Finished,
         step \in {"createCron", "updateCron", "writeRunning"} => SeenSpec.policy = "Cron"
  PROVE  CopiesInv'
<1>1. wu' = wu /\ seenWu' = seenWu /\ mine' = seenWu.status /\ pc' = step
  BY DEF Take, cache
<1>2. "mine" \in fresh' => "cache" \in fresh
  BY DEF Take
<1>3. "cache" \in fresh' => "cache" \in fresh
  BY DEF Take
<1> QED
  BY <1>1, <1>2, <1>3 DEF CopiesInv, Scheduled, WuSpec, SeenSpec

LEMMA StepCopies == TypeInv /\ CopiesInv /\ Step => CopiesInv'
<1> SUFFICES ASSUME TypeInv, CopiesInv, Step PROVE CopiesInv'
  OBVIOUS
<1> USE DEF user, cache
<1>1. CASE SyncGone \/ OnceFinished \/ OnceAwaitTTL \/ CronUpToDate
  BY <1>1 DEF SyncGone, OnceFinished, OnceAwaitTTL, CronUpToDate, Skip, CopiesInv, Scheduled, WuSpec
<1>2. CASE OnceExpire
  BY <1>2, TakeCopies DEF OnceExpire, Steps
<1>3. CASE OnceFindJob \/ OnceBuildJob
  BY <1>3, TakeCopies DEF OnceFindJob, OnceBuildJob, Seen, Steps
<1>4. CASE CronBuildJob \/ CronRebuildJob
  BY <1>4, TakeCopies DEF CronBuildJob, CronRebuildJob, Seen, Steps
<1>5. CASE CreateJob \/ CreateCronJob
  BY <1>5 DEF CreateJob, CreateCronJob, Goto, CopiesInv, Scheduled, WuSpec
<1>6. CASE DeleteWarmUp
  BY <1>6 DEF DeleteWarmUp, Outdate, CopiesInv
<1>7. CASE WriteObjectFails \/ UpdateCronJob \/ WriteGone
  BY <1>7 DEF WriteObjectFails, UpdateCronJob, WriteGone, Drop, CopiesInv
<1>8. CASE WriteStatus
  BY <1>8 DEF WriteStatus, Outdate, Drop, CopiesInv
<1>9. CASE WriteRunning
  BY <1>9 DEF WriteRunning, Outdate, Drop, CopiesInv
<1>10. CASE ResolveFails
  BY <1>10 DEF ResolveFails, vars, reconcile, CopiesInv, Scheduled, WuSpec
<1> QED
  BY <1>1, <1>2, <1>3, <1>4, <1>5, <1>6, <1>7, <1>8, <1>9, <1>10 DEF Step, SyncOnce, SyncCron

LEMMA OutsideCopies == TypeInv /\ CopiesInv /\ (Fault \/ User \/ Cluster) => CopiesInv'
<1> SUFFICES ASSUME TypeInv, CopiesInv, Fault \/ User \/ Cluster PROVE CopiesInv'
  OBVIOUS
<1> USE DEF user, cache, reconcile
<1>1. CASE CallFails \/ Crash
  BY <1>1 DEF CallFails, Crash, Drop, CopiesInv
<1>2. CASE UserDeletes \/ UserEdits
  BY <1>2 DEF UserDeletes, UserEdits, Outdate, CopiesInv
<1>3. CASE ObserveWarmUp
  BY <1>3 DEF ObserveWarmUp, Event, CopiesInv, Scheduled, WuSpec
<1>4. CASE ~(CallFails \/ Crash \/ UserDeletes \/ UserEdits \/ ObserveWarmUp)
  <2>1. UNCHANGED <<wu, seenWu, fresh, pc, mine>>
    BY <1>4 DEF Fault, User, Cluster, JobRetries, LogsGetLost, UserDeletesJob, GroupChanges,
                ObserveJob, ObserveCronJob, Event, TimerFires, CronJobRuns, TTLPasses, CleanerGoes,
                Collect, JobProgresses, JobEnds
  <2> QED
    BY <2>1 DEF CopiesInv, Scheduled, WuSpec
<1> QED
  BY <1>1, <1>2, <1>3, <1>4

\* What leaves the job alone leaves the evidence alone.
LEMMA SameEvidence ==
  ASSUME job' = job, warmed => warmed', NEW c, Evident(c)
  PROVE  Evident(c)'
BY DEF Evident, Cold

\* The reconcile changes the job only to create one, where there was none.
LEMMA StepJobs == TypeInv /\ JobInv /\ Step => JobInv'
<1> SUFFICES ASSUME TypeInv, JobInv, Step PROVE JobInv'
  OBVIOUS
<1>1. CASE Gone
  <2>1. ~Accepted
    BY <1>1 DEF Accepted
  <2>2. UNCHANGED wu \/ Gone'
    BY <2>1 DEF Step, SyncOnce, SyncCron, SyncGone, OnceFinished, OnceAwaitTTL, OnceExpire, OnceFindJob,
       OnceBuildJob, CronBuildJob, CronRebuildJob, CronUpToDate, Skip, Take, DeleteWarmUp, CreateJob,
       CreateCronJob, UpdateCronJob, WriteObjectFails, WriteGone, WriteStatus, WriteRunning, ResolveFails,
       vars, Gone, TypeInv, TypeOK, WarmUpObj
  <2> QED
    BY <1>1, <2>2 DEF JobInv, Gone
<1>2. CASE ~Gone
  <2> USE DEF JobInv, user, cache
  <2>1. CASE CreateJob
    <3>1. warmed' = warmed /\ seenJob' = seenJob /\ job = NoObject /\ job' = what /\ what' = what
          /\ pc = "createJob" /\ pc' = "writeStatus"
      BY <2>1 DEF CreateJob, Goto
    <3>2. Evident(seenJob)'
      BY <1>2, <3>1 DEF Evident, Cold
    <3>3. Evident(job)' /\ Evident(what)'
      BY <1>2, <3>1 DEF Evident
    <3> QED
      BY <3>1, <3>2, <3>3
  <2>2. CASE OnceFindJob
    BY <1>2, <2>2, SameEvidence DEF OnceFindJob, Take
  <2>3. CASE OnceBuildJob
    <3>1. \E from \in Origins : Take("createJob", NewJob(from))
      BY <2>3 DEF OnceBuildJob
    <3>2. what'.state = "active" /\ pc' = "createJob"
      BY <3>1 DEF Take, NewJob
    <3> QED
      BY <1>2, <3>1, <3>2, SameEvidence DEF Take
  <2>4. CASE ~(CreateJob \/ OnceFindJob \/ OnceBuildJob)
    <3>1. /\ UNCHANGED <<job, seenJob, warmed>>
          /\ pc' \in {"createJob", "writeStatus"} => UNCHANGED <<pc, what>>
      BY <2>4 DEF Step, SyncOnce, SyncCron, SyncGone, OnceFinished, OnceAwaitTTL, OnceExpire,
         CronBuildJob, CronRebuildJob, CronUpToDate, Skip, Take, DeleteWarmUp, Goto, Forget, Return,
         ReturnAfter, ReturnError, CreateCronJob, UpdateCronJob, WriteObjectFails, WriteGone, WriteStatus,
         WriteRunning, ResolveFails, vars, reconcile
    <3>2. Evident(job)' /\ Evident(seenJob)'
      BY <1>2, <3>1 DEF Evident, Cold
    <3>3. pc' = "createJob" => what'.state = "active"
      BY <1>2, <3>1
    <3>4. pc' = "writeStatus" => Evident(what)'
      BY <1>2, <3>1 DEF Evident, Cold
    <3> QED
      BY <3>2, <3>3, <3>4
  <2> QED
    BY <2>1, <2>2, <2>3, <2>4
<1> QED
  BY <1>1, <1>2

\* The only log of a complete job that tells of no clean run is a cold one.
LEMMA OnlyCold ==
  ASSUME NEW from, NEW logs \in SUBSET Logs, "cold" \in logs, ~Told(from, logs)
  PROVE  logs = {"cold"} /\ Supported(from)
BY DEF Told, Logs

LEMMA OutsideJobs == TypeInv /\ JobInv /\ (Fault \/ User \/ Cluster) => JobInv'
<1> SUFFICES ASSUME TypeInv, JobInv, Fault \/ User \/ Cluster PROVE JobInv'
  OBVIOUS
<1> USE DEF user, cache, reconcile
<1>1. CASE Gone
  <2>1. Gone'
    BY <1>1 DEF Fault, User, Cluster, CallFails, Crash, JobRetries, LogsGetLost, UserDeletesJob, UserDeletes,
       UserEdits, GroupChanges, ObserveWarmUp, ObserveJob, ObserveCronJob, Event, TimerFires, CronJobRuns,
       TTLPasses, CleanerGoes, Collect, JobProgresses, JobEnds, Gone, TypeInv, TypeOK, WarmUpObj
  <2> QED
    BY <2>1 DEF JobInv
<1>2. CASE ~Gone
  <2> USE DEF JobInv, Evident, Cold
  <2>1. CASE JobEnds
    <3>1. job \in Job /\ job.state = "active"
      BY <2>1 DEF JobEnds, Active, TypeInv, TypeOK
    <3>2. PICK log \in {"clean", "cold"}, state \in {"complete", "failed"} :
            /\ job' = [job EXCEPT !.logs = @ \cup {log}, !.state = state]
            /\ warmed' = (warmed \/ (state = "complete" /\ Told(job.from, job'.logs)))
      BY <2>1 DEF JobEnds
    <3>3. /\ job'.from = job.from /\ job'.state = state /\ job'.logs \in SUBSET Logs
          /\ job'.logs = job.logs \cup {log}
      BY <3>1, <3>2 DEF Job, Logs
    <3>4. job' # NoObject
      <4>1. job'.state = state /\ "state" \in DOMAIN job'
        BY <3>1, <3>2 DEF Job
      <4>2. "state" \notin DOMAIN NoObject
        BY DEF NoObject
      <4> QED
        BY <4>1, <4>2
    <3>5. Evident(job)'
      <4>1. SUFFICES ASSUME state = "complete", ~warmed' PROVE Cold(job)'
        BY <3>3
      <4>2. ~Told(job.from, job'.logs)
        BY <3>2, <4>1
      <4>3. "cold" \in job'.logs
        BY <3>3, <4>2 DEF Told
      <4>4. job'.logs = {"cold"} /\ Supported(job.from)
        BY <3>3, <4>2, <4>3, OnlyCold
      <4> QED
        BY <3>3, <3>4, <4>1, <4>4 DEF Supported, ImageOf, Worker
    <3>6. UNCHANGED <<seenJob, pc, what>>
      BY <2>1 DEF JobEnds
    <3>7. ~Cold(seenJob) /\ ~Cold(what)
      BY <3>1
    <3>8. Evident(seenJob)' /\ (pc' = "writeStatus" => Evident(what)')
      BY <1>2, <3>2, <3>6, <3>7
    <3> QED
      BY <1>2, <3>5, <3>6, <3>8
  <2>2. CASE JobRetries \/ JobProgresses
    <3>1. job \in Job /\ job.state = "active" /\ job'.state = "active"
      BY <2>2 DEF JobRetries, JobProgresses, Active, TypeInv, TypeOK, Job
    <3>2. UNCHANGED <<seenJob, warmed, pc, what>>
      BY <2>2 DEF JobRetries, JobProgresses
    <3> QED
      BY <1>2, <3>1, <3>2
  <2>3. CASE LogsGetLost
    <3>1. job \in Job /\ job'.state = job.state /\ (job.state = "complete" => warmed')
      BY <2>3 DEF LogsGetLost, TypeInv, TypeOK, Job
    <3>2. UNCHANGED <<seenJob, pc, what>> /\ (warmed => warmed')
      BY <2>3 DEF LogsGetLost
    <3> QED
      BY <1>2, <3>1, <3>2
  <2>4. CASE UserDeletesJob
    <3>1. UNCHANGED <<seenJob, pc, what>> /\ (warmed => warmed')
      BY <2>4 DEF UserDeletesJob
    <3>2. CASE job' = job
      BY <1>2, <3>1, <3>2
    <3>3. CASE job' = NoObject /\ job # NoObject
      BY <1>2, <2>4, <3>1, <3>3 DEF UserDeletesJob
    <3> QED
      BY <2>4, <3>2, <3>3 DEF UserDeletesJob
  <2>5. CASE ObserveJob
    BY <1>2, <2>5 DEF ObserveJob, Event
  <2>6. CASE Crash
    BY <1>2, <2>6 DEF Crash, Forget
  <2>7. CASE CallFails
    BY <1>2, <2>7 DEF CallFails, ReturnError, Forget
  <2>8. CASE Collect
    BY <1>2, <2>8 DEF Collect
  <2>9. CASE UserDeletes \/ UserEdits \/ GroupChanges \/ ObserveWarmUp \/ ObserveCronJob \/ TimerFires
             \/ CronJobRuns \/ TTLPasses \/ CleanerGoes
    <3>1. UNCHANGED <<job, seenJob, warmed, pc, what>>
      BY <2>9 DEF UserDeletes, UserEdits, GroupChanges, ObserveWarmUp, ObserveCronJob, Event, TimerFires,
         CronJobRuns, TTLPasses, CleanerGoes
    <3> QED
      BY <1>2, <3>1
  <2> QED
    BY <2>1, <2>2, <2>3, <2>4, <2>5, <2>6, <2>7, <2>8, <2>9 DEF Fault, User, Cluster
<1> QED
  BY <1>1, <1>2

LEMMA InvStep == Inv /\ [Next]_vars => Inv'
<1> SUFFICES ASSUME Inv, [Next]_vars PROVE Inv'
  OBVIOUS
<1>1. TypeInv'
  BY TypeStep DEF Inv
<1>2. CASE UNCHANGED vars
  BY <1>1, <1>2 DEF Inv, CopiesInv, JobInv, Evident, Cold, Gone, Scheduled, WuSpec, vars, user, cache, reconcile
<1>3. CASE Next
  BY <1>1, <1>3, StepCopies, OutsideCopies, StepJobs, OutsideJobs DEF Inv, Next
<1> QED
  BY <1>2, <1>3

\* A verdict of Complete is given to a job that has warmed up the cache.
LEMMA CompleteIsEarned ==
  ASSUME Inv, ~Gone, pc = "writeStatus", NEW stats \in JobStats, Verdict(stats.cold) = "Complete"
  PROVE  warmed
<1>1. what \in Job
  BY DEF Inv, TypeInv, ObjectOfStep
<1>2. what.state = "complete" /\ ~stats.cold
  BY <1>1 DEF Verdict, Job
<1>3. what # NoObject
  <2>1. "state" \in DOMAIN what
    BY <1>1 DEF Job
  <2>2. "state" \notin DOMAIN NoObject
    BY DEF NoObject
  <2> QED
    BY <2>1, <2>2
<1>4. warmed \/ Cold(what)
  BY <1>2, <1>3 DEF Inv, JobInv, Evident
<1>5. ~Cold(what)
  <2> SUFFICES ASSUME Cold(what) PROVE FALSE
    OBVIOUS
  <2>1. JobStats = {[cold |-> TRUE, progress |-> job.progress]}
    BY DEF JobStats, Cold
  <2> QED
    BY <1>2, <2>1
<1> QED
  BY <1>4, <1>5

\* What the promise speaks of.
Promised == <<wu.status.phase, Scheduled, warmed>>

LEMMA StepKeepsPromise == Inv /\ Next => [Promise!Next]_Promised
<1> SUFFICES ASSUME Inv, Next PROVE Promise!Next \/ UNCHANGED Promised
  BY DEF Promised
<1> USE DEF Promised, user, cache, reconcile, Gone
<1>1. CASE WriteStatus
  <2>1. UNCHANGED warmed
    BY <1>1 DEF WriteStatus
  <2>2. CASE UNCHANGED wu
    BY <2>1, <2>2 DEF Scheduled, WuSpec
  <2>3. CASE wu' # wu
    <3>1. PICK stats \in JobStats :
            Accepted /\ wu' = [wu EXCEPT !.status = [phase |-> Verdict(stats.cold), progress |-> stats.progress]]
      BY <1>1, <2>3 DEF WriteStatus
    <3>2. wu'.status.phase = Verdict(stats.cold) /\ wu'.spec = wu.spec
      BY <3>1 DEF Inv, TypeInv, TypeOK, WarmUpObj
    <3>3. ~Scheduled /\ wu.status.phase \in {"", "Running"}
      BY <1>1, <3>1 DEF WriteStatus, Accepted, Inv, CopiesInv, TypeInv, TypeOK, WarmUpObj, Status, Finished
    <3>4. Scheduled' = Scheduled
      BY <3>2 DEF Scheduled, WuSpec
    <3>5. Verdict(stats.cold) \in {"Running", "Failed", "Complete"}
      BY DEF Verdict
    <3>6. CASE Verdict(stats.cold) = "Running"
      BY <2>1, <3>2, <3>3, <3>4, <3>6 DEF Promise!Next, Promise!Start
    <3>7. CASE Verdict(stats.cold) = "Failed"
      BY <2>1, <3>2, <3>3, <3>4, <3>7 DEF Promise!Next, Promise!Fail
    <3>8. CASE Verdict(stats.cold) = "Complete"
      <4>1. warmed
        BY <1>1, <3>1, <3>8, CompleteIsEarned DEF WriteStatus, Accepted
      <4> QED
        BY <2>1, <3>2, <3>3, <3>4, <3>8, <4>1 DEF Promise!Next, Promise!Complete
    <3> QED
      BY <3>5, <3>6, <3>7, <3>8
  <2> QED
    BY <2>2, <2>3
<1>2. CASE WriteRunning
  <2>1. UNCHANGED warmed
    BY <1>2 DEF WriteRunning
  <2>2. CASE UNCHANGED wu
    BY <2>1, <2>2 DEF Scheduled, WuSpec
  <2>3. CASE wu' # wu
    <3>1. Accepted /\ wu' = [wu EXCEPT !.status = [phase |-> "Running", progress |-> 0]] /\ pc = "writeRunning"
      BY <1>2, <2>3 DEF WriteRunning
    <3>2. wu'.status.phase = "Running" /\ wu'.spec = wu.spec
      BY <3>1 DEF Inv, TypeInv, TypeOK, WarmUpObj
    <3>3. Scheduled /\ Scheduled' = Scheduled
      BY <3>1, <3>2 DEF Accepted, Inv, CopiesInv, Scheduled, WuSpec
    <3>4. wu.status.phase \in {"", "Running"} \cup Finished
      BY <3>1 DEF Accepted, Inv, TypeInv, TypeOK, WarmUpObj, Status
    <3> QED
      BY <2>1, <3>2, <3>3, <3>4 DEF Promise!Next, Promise!Start, Promise!Finished, Finished
  <2> QED
    BY <2>2, <2>3
<1>3. CASE DeleteWarmUp \/ UserDeletes
  <2>1. wu' = [wu EXCEPT !.status = [phase |-> "Gone", progress |-> 0]] /\ UNCHANGED warmed
    BY <1>3 DEF DeleteWarmUp, UserDeletes
  <2>2. wu'.status.phase = "Gone" /\ wu'.spec = wu.spec
    BY <2>1 DEF Inv, TypeInv, TypeOK, WarmUpObj
  <2> QED
    BY <2>1, <2>2 DEF Promise!Next, Promise!Delete, Scheduled, WuSpec
<1>4. CASE UserEdits
  <2>1. PICK s \in Specs : wu' = [wu EXCEPT !.spec = s]
    BY <1>4 DEF UserEdits
  <2>2. wu'.status = wu.status /\ UNCHANGED warmed
    BY <1>4, <2>1 DEF UserEdits, Inv, TypeInv, TypeOK, WarmUpObj
  <2>3. Scheduled' \in BOOLEAN /\ wu.status.phase # "Gone"
    BY <1>4 DEF UserEdits, Scheduled
  <2> QED
    BY <2>2, <2>3 DEF Promise!Next, Promise!Edit
<1>5. CASE JobEnds \/ LogsGetLost \/ UserDeletesJob
  <2>1. UNCHANGED wu /\ warmed' \in {warmed, TRUE}
    <3>1. UNCHANGED wu
      BY <1>5 DEF JobEnds, LogsGetLost, UserDeletesJob
    <3>2. warmed' \in BOOLEAN /\ warmed \in BOOLEAN
      BY <1>5, OutsideType DEF Fault, User, Cluster, Inv, TypeInv, TypeOK
    <3>3. warmed => warmed'
      BY <1>5 DEF JobEnds, LogsGetLost, UserDeletesJob
    <3> QED
      BY <3>1, <3>2, <3>3
  <2>2. CASE warmed' = warmed
    BY <2>1, <2>2 DEF Scheduled, WuSpec
  <2>3. CASE warmed' = TRUE
    BY <2>1, <2>3 DEF Promise!Next, Promise!Warm, Scheduled, WuSpec
  <2> QED
    BY <2>1, <2>2, <2>3
<1>6. CASE ~(WriteStatus \/ WriteRunning \/ DeleteWarmUp \/ UserDeletes \/ UserEdits
             \/ JobEnds \/ LogsGetLost \/ UserDeletesJob)
  <2>1. UNCHANGED <<wu, warmed>>
    BY <1>6 DEF Next, Step, Fault, User, Cluster, SyncOnce, SyncCron, SyncGone, OnceFinished, OnceAwaitTTL,
       OnceExpire, OnceFindJob, OnceBuildJob, CronBuildJob, CronRebuildJob, CronUpToDate, Skip, Take,
       CreateJob, CreateCronJob, UpdateCronJob, WriteObjectFails, WriteGone, ResolveFails, vars,
       CallFails, Crash, JobRetries, GroupChanges, ObserveWarmUp, ObserveJob, ObserveCronJob, Event,
       TimerFires, CronJobRuns, TTLPasses, CleanerGoes, Collect, JobProgresses
  <2> QED
    BY <2>1 DEF Scheduled, WuSpec
<1> QED
  BY <1>1, <1>2, <1>3, <1>4, <1>5, <1>6

(***************************************************************************)
(* The controller implements the promise: whatever the informer caches     *)
(* show, whichever steps fail, are repeated or cut short by a crash, and   *)
(* however often the user edits the WarmUp or deletes the job, no reconcile*)
(* takes back a verdict, and none says Complete without a job that has     *)
(* warmed up the cache as far as its logs tell (once calculateStatus).     *)
(***************************************************************************)
THEOREM PromiseKept == Spec => KeepsPromise
<1>1. Init => Promise!Init
  <2> SUFFICES ASSUME Init PROVE Promise!Init
    OBVIOUS
  <2>1. wu.status = NoStatus /\ warmed = FALSE
    BY DEF Init
  <2>2. wu.status.phase = ""
    <3>1. NoStatus.phase = ""
      BY DEF NoStatus
    <3> QED
      BY <2>1, <3>1
  <2>3. Scheduled \in BOOLEAN
    BY DEF Scheduled
  <2> QED
    BY <2>1, <2>2, <2>3 DEF Promise!Init
<1>2. Inv /\ [Next]_vars => [Promise!Next]_(Promise!vars)
  <2>1. UNCHANGED vars => UNCHANGED Promised
    BY DEF vars, user, Promised, Scheduled, WuSpec
  <2> QED
    BY <2>1, StepKeepsPromise DEF Promise!vars, Promised
<1> QED
  BY <1>1, <1>2, InitInv, InvStep, PTL DEF Spec, KeepsPromise, Promise!Spec

-----------------------------------------------------------------------------
(* Mount options *)

\* An appended sequence, element by element.
LEMMA AppendInSeq ==
  ASSUME NEW T, NEW s \in Seq(T), NEW e \in T
  PROVE  Append(s, e) \in Seq(T) /\ Len(Append(s, e)) = Len(s) + 1
         /\ \A i \in 1 .. Len(s) : Append(s, e)[i] = s[i]
OBVIOUS

\* What is selected from a sequence is a sequence of what was selected.
LEMMA SelectedOptions ==
  ASSUME NEW T, NEW options \in Seq(T), NEW indices
  PROVE  OptionsAt(options, indices) \in Seq({options[i] : i \in indices \cap DOMAIN options})
<1> DEFINE N == Len(options)
           D == Seq({options[i] : i \in indices \cap DOMAIN options})
           step == [i \in 1 .. N |-> [s \in D |-> IF i \in indices THEN Append(s, options[i]) ELSE s]]
<1>1. N \in Nat /\ DOMAIN options = 1 .. N
  BY LenProperties
<1>2. << >> \in D
  BY EmptySeq
<1>3. step \in [1 .. N -> [D -> D]]
  <2> SUFFICES ASSUME NEW i \in 1 .. N, NEW s \in D, i \in indices PROVE Append(s, options[i]) \in D
    OBVIOUS
  <2>1. options[i] \in {options[j] : j \in indices \cap DOMAIN options}
    BY <1>1
  <2> QED BY <2>1
<1>4. \E f : f = [n \in 0 .. N |-> IF n = 0 THEN << >>
                                  ELSE IF n \in indices THEN Append(f[n - 1], options[n]) ELSE f[n - 1]]
  <2>1. PICK f \in [0 .. N -> D] : f[0] = << >> /\ \A n \in 1 .. N : f[n] = step[n][f[n - 1]]
    <3> HIDE DEF step, D, N
    <3>1. Defines(N, D, << >>, step)
      BY <1>1, <1>2, <1>3, RecursionExists
    <3> QED BY <3>1 DEF Defines
  <2>2. ASSUME NEW n \in 1 .. N
        PROVE  f[n] = IF n \in indices THEN Append(f[n - 1], options[n]) ELSE f[n - 1]
    <3>1. f[n - 1] \in D
      <4> HIDE DEF D
      <4> QED BY <1>1, <2>1
    <3>2. step[n][f[n - 1]] = IF n \in indices THEN Append(f[n - 1], options[n]) ELSE f[n - 1]
      <4> HIDE DEF D
      <4> QED BY <3>1
    <3> QED BY <2>1, <3>2
  <2> DEFINE g == [n \in 0 .. N |-> IF n = 0 THEN << >>
                                  ELSE IF n \in indices THEN Append(f[n - 1], options[n]) ELSE f[n - 1]]
  <2>3. ASSUME NEW n \in 0 .. N PROVE g[n] = f[n]
    <3>1. g[n] = IF n = 0 THEN << >>
                 ELSE IF n \in indices THEN Append(f[n - 1], options[n]) ELSE f[n - 1]
      OBVIOUS
    <3>2. n = 0 \/ n \in 1 .. N
      BY <1>1
    <3> HIDE DEF step, D, g, N
    <3> QED BY <2>1, <2>2, <3>1, <3>2
  <2>4. g = f
    <3>1. g = [n \in 0 .. N |-> g[n]] /\ f = [n \in 0 .. N |-> f[n]]
      BY <2>1
    <3> HIDE DEF g, N
    <3> QED BY <2>3, <3>1
  <2> QED BY <2>4
<1>5. PICK f : /\ f = [n \in 0 .. N |-> IF n = 0 THEN << >>
                                       ELSE IF n \in indices THEN Append(f[n - 1], options[n]) ELSE f[n - 1]]
               /\ OptionsAt(options, indices) = f[N]
  BY <1>4 DEF OptionsAt
<1> HIDE DEF D
<1>6. \A n \in 0 .. N : f[n] = IF n = 0 THEN << >>
                              ELSE IF n \in indices THEN Append(f[n - 1], options[n]) ELSE f[n - 1]
  BY <1>5
<1> DEFINE S == {n \in 0 .. N : f[n] \in D}
<1>7. 0 \in S
  BY <1>1, <1>2, <1>6
<1>8. ASSUME NEW n \in 0 .. N - 1, n \in S PROVE n + 1 \in S
  <2>1. n + 1 \in 1 .. N /\ f[n + 1] = IF n + 1 \in indices THEN Append(f[n], options[n + 1]) ELSE f[n]
    BY <1>1, <1>6
  <2>2. n + 1 \in indices => Append(f[n], options[n + 1]) \in D
    <3> SUFFICES ASSUME n + 1 \in indices PROVE Append(f[n], options[n + 1]) \in D
      OBVIOUS
    <3>1. options[n + 1] \in {options[i] : i \in indices \cap DOMAIN options}
      BY <1>1, <2>1
    <3>2. f[n] \in D
      BY <1>8
    <3> QED BY <3>1, <3>2, AppendInSeq DEF D
  <2> QED BY <1>8, <2>1, <2>2
<1>9. 0 .. N \subseteq S
  <2> HIDE DEF S, N
  <2> QED BY <1>1, <1>7, <1>8, UptoInduction
<1>10. f[N] \in D /\ OptionsAt(options, indices) = f[N]
  BY <1>1, <1>5, <1>9
<1> QED BY <1>10 DEF D

\* Options are added behind those there are, and none of those that are to be ignored.
Extensions(base, T) == {s \in Seq(T) : Len(s) >= Len(base) /\ \A i \in 1 .. Len(base) : s[i] = base[i]}

LEMMA AddedOptions ==
  ASSUME NEW T, NEW base \in Seq(T), NEW extra \in Seq(T)
  PROVE  LET InBase == {base[i] : i \in 1 .. Len(base)}
         IN AppendMountOpts(base, extra) \in Extensions(base, InBase \cup {o \in T : o.key \notin IgnoreMountOpts})
<1> DEFINE InBase == {base[i] : i \in 1 .. Len(base)}
           A == InBase \cup {o \in T : o.key \notin IgnoreMountOpts}
           own == ParseOptions(extra)
           N == Len(own)
           D == Extensions(base, A)
           Skips(n, s) == own[n].key \in IgnoreMountOpts \cup Keys(s)
           step == [n \in 1 .. N |-> [s \in D |-> IF Skips(n, s) THEN s ELSE Append(s, own[n])]]
<1>1. N \in Nat /\ \A n \in 1 .. N : own[n] \in T
  <2> DEFINE Valid == {i \in DOMAIN extra : extra[i].key # "" /\ extra[i].value # ""}
             U == {extra[i] : i \in Valid \cap DOMAIN extra}
  <2>1. U \subseteq T
    <3>1. \A i \in DOMAIN extra : extra[i] \in T
      BY LenProperties, ElementOfSeq
    <3> HIDE DEF Valid
    <3> QED BY <3>1
  <2>2. own \in Seq(U)
    BY SelectedOptions DEF ParseOptions
  <2> HIDE DEF U, own
  <2> QED BY <2>1, <2>2, LenProperties, ElementOfSeq
<1>2. base \in D
  <2>1. Len(base) \in Nat /\ base \in [1 .. Len(base) -> InBase] /\ InBase \subseteq A
    BY LenProperties
  <2>2. base \in Seq(A)
    <3> HIDE DEF A, InBase
    <3> QED BY <2>1, SeqDef
  <2> HIDE DEF A
  <2> QED BY <2>1, <2>2 DEF Extensions
<1>3. ASSUME NEW n \in 1 .. N, NEW s \in D, ~Skips(n, s) PROVE Append(s, own[n]) \in D
  <2>1. own[n] \in A /\ s \in Seq(A) /\ Len(s) \in Nat /\ Len(base) \in Nat
    BY <1>1, <1>3, LenProperties DEF Extensions
  <2>2. Len(s) >= Len(base) /\ \A i \in 1 .. Len(base) : s[i] = base[i]
    BY DEF Extensions
  <2> DEFINE e == own[n]
             longer == Append(s, e)
  <2>3. longer \in Seq(A) /\ Len(longer) = Len(s) + 1 /\ \A i \in 1 .. Len(s) : longer[i] = s[i]
    <3> HIDE DEF A, e
    <3> QED BY <2>1, AppendInSeq DEF e
  <2>4. longer \in D
    <3> HIDE DEF A, longer
    <3> QED BY <2>1, <2>2, <2>3 DEF Extensions
  <2> QED BY <2>4
<1>4. step \in [1 .. N -> [D -> D]]
  <2> HIDE DEF D, N, Skips, own
  <2> QED BY <1>3
<1>5. \E f : f = [n \in 0 .. N |-> IF n = 0 THEN base
                                  ELSE LET before == f[n - 1]
                                       IN IF own[n].key \in IgnoreMountOpts \cup Keys(before) THEN before
                                          ELSE Append(before, own[n])]
  <2>1. PICK f \in [0 .. N -> D] : f[0] = base /\ \A n \in 1 .. N : f[n] = step[n][f[n - 1]]
    <3> HIDE DEF step, D, N
    <3>1. Defines(N, D, base, step)
      BY <1>1, <1>2, <1>4, RecursionExists
    <3> QED BY <3>1 DEF Defines
  <2>2. ASSUME NEW n \in 1 .. N
        PROVE  f[n] = IF Skips(n, f[n - 1]) THEN f[n - 1] ELSE Append(f[n - 1], own[n])
    <3>1. f[n - 1] \in D
      <4> HIDE DEF D, N
      <4> QED BY <1>1, <2>1
    <3>2. step[n][f[n - 1]] = IF Skips(n, f[n - 1]) THEN f[n - 1] ELSE Append(f[n - 1], own[n])
      <4> HIDE DEF D, N, Skips, own
      <4> QED BY <3>1
    <3> HIDE DEF step, Skips
    <3> QED BY <2>1, <3>2
  <2> DEFINE g == [n \in 0 .. N |-> IF n = 0 THEN base
                                  ELSE LET before == f[n - 1]
                                       IN IF own[n].key \in IgnoreMountOpts \cup Keys(before) THEN before
                                          ELSE Append(before, own[n])]
  <2>3. ASSUME NEW n \in 0 .. N PROVE g[n] = f[n]
    <3>1. g[n] = IF n = 0 THEN base ELSE IF Skips(n, f[n - 1]) THEN f[n - 1] ELSE Append(f[n - 1], own[n])
      <4> HIDE DEF N, own
      <4> QED OBVIOUS
    <3>2. n = 0 \/ n \in 1 .. N
      <4> HIDE DEF N
      <4> QED BY <1>1
    <3> HIDE DEF step, D, g, N, Skips
    <3> QED BY <2>1, <2>2, <3>1, <3>2
  <2>4. g = f
    <3>1. g = [n \in 0 .. N |-> g[n]] /\ f = [n \in 0 .. N |-> f[n]]
      <4> HIDE DEF N, own, D
      <4> QED BY <2>1
    <3> HIDE DEF g, N
    <3> QED BY <2>3, <3>1
  <2> QED BY <2>4
<1>6. PICK f : /\ f = [n \in 0 .. N |-> IF n = 0 THEN base
                                       ELSE LET before == f[n - 1]
                                            IN IF own[n].key \in IgnoreMountOpts \cup Keys(before) THEN before
                                               ELSE Append(before, own[n])]
               /\ AppendMountOpts(base, extra) = f[N]
  BY <1>5 DEF AppendMountOpts
<1>7. \A n \in 0 .. N : f[n] = IF n = 0 THEN base
                              ELSE IF Skips(n, f[n - 1]) THEN f[n - 1] ELSE Append(f[n - 1], own[n])
  <2> HIDE DEF N, own
  <2> QED BY <1>6
<1> DEFINE S == {n \in 0 .. N : f[n] \in D}
<1> HIDE DEF D, N, Skips, own
<1>8. 0 \in S
  BY <1>1, <1>2, <1>7
<1>9. ASSUME NEW n \in 0 .. N - 1, n \in S PROVE n + 1 \in S
  <2>1. n + 1 \in 1 .. N /\ f[n + 1] = IF Skips(n + 1, f[n]) THEN f[n] ELSE Append(f[n], own[n + 1])
    BY <1>1, <1>7
  <2>2. f[n] \in D
    BY <1>9
  <2> QED BY <1>1, <1>3, <2>1, <2>2
<1>10. 0 .. N \subseteq S
  <2> HIDE DEF S
  <2> QED BY <1>1, <1>8, <1>9, UptoInduction
<1>11. AppendMountOpts(base, extra) = f[N] /\ f[N] \in D
  BY <1>1, <1>6, <1>10
<1> QED BY <1>11 DEF D

\* The client's own options go first.
LEMMA ClientFirst ==
  ASSUME NEW cacheGroup
  PROVE  LET client == ClientMountOpts(cacheGroup)
         IN client \in Seq(Range(client)) /\ Len(client) \in Nat /\ DOMAIN client = 1 .. Len(client)
BY DEF ClientMountOpts, Range

\* Of the options of the worker, none that is to be ignored is kept.
LEMMA KeptOptions ==
  ASSUME NEW T, NEW options \in Seq(T)
  PROVE  OptionsAt(options, {i \in DOMAIN options : options[i].key \notin IgnoreMountOpts})
           \in Seq({o \in T : o.key \notin IgnoreMountOpts})
<1> DEFINE kept == {i \in DOMAIN options : options[i].key \notin IgnoreMountOpts}
           U == {options[i] : i \in kept \cap DOMAIN options}
           K == {o \in T : o.key \notin IgnoreMountOpts}
<1>1. OptionsAt(options, kept) \in Seq(U)
  <2> HIDE DEF kept
  <2> QED BY SelectedOptions
<1>2. U \subseteq K
  <2>1. \A i \in DOMAIN options : options[i] \in T
    BY LenProperties, ElementOfSeq
  <2> QED BY <2>1
<1>3. OptionsAt(options, kept) \in Seq(K)
  <2> HIDE DEF U, K, kept
  <2> QED BY <1>1, <1>2, SeqMonotonic
<1> QED BY <1>3

LEMMA OptionsOfClient ==
  ASSUME NEW T, NEW spec, spec.mountOpts \in Seq(T),
         NEW worker, worker = None \/ worker.mountOpts \in Seq(T)
  PROVE  LET options == MountOpts(spec, worker)
             client == Range(ClientMountOpts(spec.cacheGroup))
         IN /\ \A i \in DOMAIN options : options[i].key \in IgnoreMountOpts => options[i] \in client
            /\ client \subseteq Range(options)
<1> DEFINE client == ClientMountOpts(spec.cacheGroup)
           C == Range(client)
           W == {o \in T : o.key \notin IgnoreMountOpts}
           own == IF worker = None THEN << >>
                  ELSE OptionsAt(worker.mountOpts,
                                 {i \in DOMAIN worker.mountOpts : worker.mountOpts[i].key \notin IgnoreMountOpts})
           base == client \o own
           InBase == {base[i] : i \in 1 .. Len(base)}
           options == AppendMountOpts(base, spec.mountOpts)
<1>1. client \in Seq(C) /\ Len(client) \in Nat /\ DOMAIN client = 1 .. Len(client)
  BY ClientFirst
<1>2. own \in Seq(W)
  <2> HIDE DEF W
  <2>1. << >> \in Seq(W)
    BY EmptySeq
  <2>2. worker # None =>
          OptionsAt(worker.mountOpts, {i \in DOMAIN worker.mountOpts : worker.mountOpts[i].key \notin IgnoreMountOpts})
            \in Seq(W)
    BY KeptOptions DEF W
  <2> QED BY <2>1, <2>2
<1>3. MountOpts(spec, worker) = options
  BY DEF MountOpts
<1> HIDE DEF client, own
<1>4. base \in Seq(C \cup W) /\ Len(base) >= Len(client) /\ \A i \in 1 .. Len(client) : base[i] = client[i]
  <2>1. client \in Seq(C \cup W) /\ own \in Seq(C \cup W)
    <3> HIDE DEF C, W
    <3> QED BY <1>1, <1>2, SeqMonotonic
  <2>2. Len(own) \in Nat
    BY <1>2, LenProperties
  <2> HIDE DEF C, W
  <2> QED BY <1>1, <2>1, <2>2, ConcatProperties
<1>5. InBase \subseteq C \cup W
  <2> HIDE DEF C, W, base
  <2> QED BY <1>4, ElementOfSeq
<1>6. options \in Extensions(base, InBase \cup {o \in C \cup T : o.key \notin IgnoreMountOpts})
  <2>1. base \in Seq(C \cup T) /\ spec.mountOpts \in Seq(C \cup T)
    <3>1. C \cup W \subseteq C \cup T /\ T \subseteq C \cup T
      OBVIOUS
    <3> HIDE DEF base, C, W
    <3> QED BY <1>4, <3>1, SeqMonotonic
  <2> HIDE DEF base, C
  <2> QED BY <2>1, AddedOptions
<1> HIDE DEF base, options
<1>7. \A i \in DOMAIN options : options[i] \in C \/ options[i].key \notin IgnoreMountOpts
  <2> DEFINE A == InBase \cup {o \in C \cup T : o.key \notin IgnoreMountOpts}
  <2>1. options \in Seq(A)
    BY <1>6 DEF Extensions
  <2>2. \A i \in DOMAIN options : options[i] \in A
    <3> HIDE DEF A
    <3> QED BY <2>1, LenProperties, ElementOfSeq
  <2>3. \A o \in A : o \in C \/ o.key \notin IgnoreMountOpts
    <3> HIDE DEF C
    <3> QED BY <1>5
  <2> HIDE DEF A
  <2> QED BY <2>2, <2>3
<1>8. C \subseteq Range(options)
  <2>1. \A i \in DOMAIN client : client[i] = options[i] /\ i \in DOMAIN options
    <3>1. options \in Seq(InBase \cup {o \in C \cup T : o.key \notin IgnoreMountOpts})
          /\ Len(options) >= Len(base) /\ \A i \in 1 .. Len(base) : options[i] = base[i]
      BY <1>6 DEF Extensions
    <3>2. Len(options) \in Nat /\ DOMAIN options = 1 .. Len(options) /\ Len(base) \in Nat
      BY <1>4, <3>1, LenProperties
    <3> QED BY <1>1, <1>4, <3>1, <3>2
  <2> QED BY <2>1 DEF Range
<1> QED BY <1>3, <1>7, <1>8 DEF client

\* Whatever options the user gives and the worker has, the mount of a job has those
\* of a client, and no other of the options that could make it a member of the
\* group, or a cache (getWarmUpMountInfo).
THEOREM AlwaysClient == Spec => []MountsAsClient
<1>1. TypeInv => MountsAsClient
  <2> SUFFICES ASSUME TypeInv, NEW from \in Rendered
               PROVE  LET options == JobTemplate(from).mountOpts
                          client == Range(ClientMountOpts(SpecOf(from.spec).cacheGroup))
                      IN /\ \A i \in DOMAIN options : options[i].key \in IgnoreMountOpts => options[i] \in client
                         /\ client \subseteq Range(options)
    BY DEF MountsAsClient
  <2>1. from \in Origin
    BY DEF Rendered, TypeInv, TypeOK, Job, CronJob, NoObject
  <2>2. from.spec \in Specs /\ from.pod \in Workers \cup {Secret}
    BY <2>1 DEF Origin
  <2> DEFINE given == SpecOf(from.spec).mountOpts
             listed == PodOf(from.pod).mountOpts
             T == Range(given) \cup Range(listed)
  <2>3. given \in Seq(T)
    <3>1. given \in Seq(Range(given))
      BY <2>2, OptionsAssumption DEF OptionsAssumption
    <3> HIDE DEF given, listed
    <3> QED BY <3>1, SeqMonotonic
  <2>4. from.pod # Secret => listed \in Seq(T)
    <3> SUFFICES ASSUME from.pod # Secret PROVE listed \in Seq(T)
      OBVIOUS
    <3>1. listed \in Seq(Range(listed))
      BY <2>2, OptionsAssumption DEF OptionsAssumption
    <3> HIDE DEF given, listed
    <3> QED BY <3>1, SeqMonotonic
  <2>5. JobTemplate(from).mountOpts = MountOpts(SpecOf(from.spec), Worker(from))
    BY DEF JobTemplate, NewWarmUpJob
  <2>6. Worker(from) = None \/ Worker(from).mountOpts \in Seq(T)
    BY <2>4 DEF Worker
  <2> HIDE DEF T
  <2> QED BY <2>3, <2>5, <2>6, OptionsOfClient
<1> QED BY <1>1, InitTypeInv, TypeStep, PTL DEF Spec
=============================================================================
