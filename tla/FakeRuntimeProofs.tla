------------------------- MODULE FakeRuntimeProofs -------------------------
(***************************************************************************)
(* Proofs about the fake runtime service (FakeRuntime), for every set of   *)
(* job ids, every pool size and every set of forced final statuses.        *)
(*                                                                         *)
(* Neither TypeOK nor ResultOnlyWhenTerminal is inductive by itself: a     *)
(* task step is harmless only because the task of a job is always at the  *)
(* state its script has reached after pc[j] assignments.  IInv says so:   *)
(* the executor's queue holds registered jobs whose futures have not       *)
(* started, a job with a progression task has the status and result of    *)
(* StatusAfter/ResultAfter at its pc, and a job created in a forced final  *)
(* status has a result only when that status is COMPLETED.                 *)
(***************************************************************************)
EXTENDS FakeRuntime, TLAPS

\* The shape of one assignment of a progression task.
StepSet == [st : Statuses \cup {Keep}, res : Results \cup {Keep}]

(***************************************************************************)
(* The _status and _result of a job of class c once its task has made k   *)
(* assignments: entry k+1 of these tables.                                 *)
(***************************************************************************)
StatusTable(c) ==
  CASE c = "BaseFakeRuntimeJob" ->
         <<"QUEUED", "QUEUED", "RUNNING", "COMPLETED", "COMPLETED">>
    [] c = "FailedRuntimeJob" ->
         <<"QUEUED", "QUEUED", "RUNNING", "FAILED", "FAILED">>
    [] c = "FailedRanTooLongRuntimeJob" ->
         <<"QUEUED", "QUEUED", "RUNNING", "CANCELLED-RAN-TOO-LONG", "CANCELLED-RAN-TOO-LONG">>
    [] c = "CancelableRuntimeJob" ->
         <<"QUEUED", "QUEUED", "RUNNING">>
    [] c = "CustomResultRuntimeJob" ->
         <<"QUEUED", "QUEUED", "RUNNING", "COMPLETED", "COMPLETED", "COMPLETED">>
    [] c = "TimedRuntimeJob" ->
         <<"QUEUED", "RUNNING", "COMPLETED", "COMPLETED">>

ResultTable(c) ==
  CASE c = "BaseFakeRuntimeJob" -> <<None, None, None, None, "foo">>
    [] c = "FailedRuntimeJob" -> <<None, None, None, None, "Kaboom!">>
    [] c = "FailedRanTooLongRuntimeJob" -> <<None, None, None, None, "Kaboom!">>
    [] c = "CancelableRuntimeJob" -> <<None, None, None>>
    [] c = "CustomResultRuntimeJob" -> <<None, None, None, None, "foo", "bar">>
    [] c = "TimedRuntimeJob" -> <<None, None, None, "foo">>

StatusAfter(c, k) == StatusTable(c)[k + 1]
ResultAfter(c, k) == ResultTable(c)[k + 1]

QueueInv ==
  /\ \A i \in 1..Len(workQueue) :
       workQueue[i] \in used /\ fut[workQueue[i]] \in {"pending", "cancelled"}
  /\ \A i, i2 \in 1..Len(workQueue) : i # i2 => workQueue[i] # workQueue[i2]

FreshInv ==
  \A j \in JobIds \ used : fut[j] = "absent" /\ pc[j] = 0

TaskInv ==
  \A j \in used : fut[j] # "absent" =>
    /\ pc[j] \in 0..Len(Script(jobCls[j]))
    /\ fut[j] \in {"pending", "cancelled"} => pc[j] = 0
    /\ status[j] = StatusAfter(jobCls[j], pc[j])
    /\ result[j] = ResultAfter(jobCls[j], pc[j])

ForcedInv ==
  \A j \in used : fut[j] = "absent" =>
    /\ result[j] \in {"foo", NoAttr}
    /\ result[j] = "foo" => status[j] = "COMPLETED"

IInv == TypeOK /\ QueueInv /\ FreshInv /\ TaskInv /\ ForcedInv

----------------------------------------------------------------------------
\* None is none of the strings the model uses.
LEMMA NoneFacts == None \notin Statuses \cup Payloads \cup {NoAttr, Keep}
BY FakeRuntimeAssumption DEF Statuses, Pending, Terminal, Payloads, NoAttr, Keep

(***************************************************************************)
(* Facts about the scripts of the job classes.                             *)
(***************************************************************************)
LEMMA ScriptType ==
  ASSUME NEW c \in Classes
  PROVE  /\ Script(c) \in Seq(StepSet)
         /\ Len(Script(c)) \in 1..MaxScript
<1> USE DEF Script, St, Res, StepSet, Keep, Statuses, Pending,
      Terminal, Results, Payloads, NoAttr, MaxScript
<1>1. CASE c = "BaseFakeRuntimeJob" BY <1>1
<1>2. CASE c = "FailedRuntimeJob" BY <1>2
<1>3. CASE c = "FailedRanTooLongRuntimeJob" BY <1>3
<1>4. CASE c = "CancelableRuntimeJob" BY <1>4
<1>5. CASE c = "CustomResultRuntimeJob" BY <1>5
<1>6. CASE c = "TimedRuntimeJob" BY <1>6
<1> HIDE DEF Script, StepSet, MaxScript
<1>7. QED BY <1>1, <1>2, <1>3, <1>4, <1>5, <1>6 DEF Classes

\* Before its first assignment every task is QUEUED without a result.
LEMMA TableStart ==
  ASSUME NEW c \in Classes
  PROVE  StatusAfter(c, 0) = "QUEUED" /\ ResultAfter(c, 0) = None
BY DEF StatusAfter, ResultAfter, StatusTable, ResultTable, Classes

\* Assignment k+1 of the script takes the tables from entry k to entry k+1.
LEMMA TableStep ==
  ASSUME NEW c \in Classes, NEW k \in 0..(Len(Script(c)) - 1)
  PROVE  LET e == Script(c)[k + 1] IN
         /\ (IF e.st = Keep THEN StatusAfter(c, k) ELSE e.st) = StatusAfter(c, k + 1)
         /\ (IF e.res = Keep THEN ResultAfter(c, k) ELSE e.res) = ResultAfter(c, k + 1)
<1> USE DEF Script, St, Res, Keep, StatusAfter, ResultAfter,
      StatusTable, ResultTable
<1>1. CASE c = "BaseFakeRuntimeJob" BY <1>1
<1>2. CASE c = "FailedRuntimeJob" BY <1>2
<1>3. CASE c = "FailedRanTooLongRuntimeJob" BY <1>3
<1>4. CASE c = "CancelableRuntimeJob" BY <1>4
<1>5. CASE c = "CustomResultRuntimeJob" BY <1>5
<1>6. CASE c = "TimedRuntimeJob" BY <1>6
<1> HIDE DEF Script, St, Res, Keep, StatusAfter, ResultAfter, StatusTable, ResultTable
<1>7. QED BY <1>1, <1>2, <1>3, <1>4, <1>5, <1>6 DEF Classes

\* A task has produced a payload only once its status is terminal.
LEMMA TableTerminal ==
  ASSUME NEW c \in Classes, NEW k \in 0..Len(Script(c)),
         ResultAfter(c, k) \in Payloads
  PROVE  StatusAfter(c, k) \in Terminal
<1> USE NoneFacts DEF Script, St, Res, StatusAfter, ResultAfter,
      StatusTable, ResultTable, Terminal, Payloads
<1>1. CASE c = "BaseFakeRuntimeJob" BY <1>1
<1>2. CASE c = "FailedRuntimeJob" BY <1>2
<1>3. CASE c = "FailedRanTooLongRuntimeJob" BY <1>3
<1>4. CASE c = "CancelableRuntimeJob" BY <1>4
<1>5. CASE c = "CustomResultRuntimeJob" BY <1>5
<1>6. CASE c = "TimedRuntimeJob" BY <1>6
<1> HIDE DEF Script, St, Res, StatusAfter, ResultAfter, StatusTable, ResultTable,
      Terminal, Payloads
<1>7. QED BY <1>1, <1>2, <1>3, <1>4, <1>5, <1>6 DEF Classes

----------------------------------------------------------------------------
(***************************************************************************)
(* IInv holds initially and is preserved by every step of FakeNext.        *)
(***************************************************************************)
LEMMA IInvInit == FakeInit => IInv
BY FakeRuntimeAssumption
DEF FakeInit, IInv, TypeOK, QueueInv, FreshInv, TaskInv, ForcedInv, Results, FutureStates,
    MaxScript

\* A job with a future has been handed out.
LEMMA HasFuture ==
  ASSUME IInv, NEW j \in JobIds, fut[j] # "absent"
  PROVE  j \in used /\ jobCls[j] \in Classes
BY DEF IInv, FreshInv, TypeOK

LEMMA WorkerStartStep == IInv /\ WorkerStart => IInv'
<1> SUFFICES ASSUME IInv, WorkerStart PROVE IInv'
  OBVIOUS
<1> DEFINE j == Head(workQueue)
<1>1. /\ workQueue # <<>>
      /\ j = workQueue[1]
      /\ j \in used /\ fut[j] \in {"pending", "cancelled"}
  BY DEF WorkerStart, IInv, QueueInv, TypeOK
<1>2. /\ workQueue' = Tail(workQueue)
      /\ fut' = IF fut[j] = "cancelled" THEN fut ELSE [fut EXCEPT ![j] = "running"]
      /\ UNCHANGED <<jobs, used, jobCls, status, result, cancelled, pc, jobClasses, finalStatus>>
  BY DEF WorkerStart
<1>3. TypeOK'
  BY <1>1, <1>2 DEF IInv, TypeOK, FutureStates
<1>4. QueueInv'
  <2>1. \A i \in 1..Len(Tail(workQueue)) :
          /\ Tail(workQueue)[i] = workQueue[i + 1]
          /\ i + 1 \in 1..Len(workQueue)
          /\ workQueue[i + 1] # j
    BY <1>1 DEF IInv, QueueInv, TypeOK
  <2>2. \A x \in JobIds : x # j => fut'[x] = fut[x]
    BY <1>2 DEF IInv, TypeOK
  <2>3. \A i \in 1..Len(workQueue') :
          workQueue'[i] \in used' /\ fut'[workQueue'[i]] \in {"pending", "cancelled"}
    BY <1>2, <2>1, <2>2 DEF IInv, QueueInv, TypeOK
  <2>4. \A i, i2 \in 1..Len(workQueue') : i # i2 => workQueue'[i] # workQueue'[i2]
    BY <1>2, <2>1 DEF IInv, QueueInv, TypeOK
  <2>5. QED
    BY <2>3, <2>4 DEF QueueInv
<1>5. FreshInv'
  BY <1>1, <1>2 DEF IInv, FreshInv, TypeOK
<1>6. TaskInv'
  BY <1>1, <1>2 DEF IInv, TaskInv, TypeOK
<1>7. ForcedInv'
  BY <1>1, <1>2 DEF IInv, ForcedInv, TypeOK
<1>8. QED
  BY <1>3, <1>4, <1>5, <1>6, <1>7 DEF IInv

\* A task step makes the next assignment of its script.
LEMMA TaskStepStep ==
  ASSUME IInv, NEW j \in JobIds, TaskStep(j)
  PROVE  IInv'
<1> DEFINE c == jobCls[j]
           k == pc[j]
           e == Script(c)[k + 1]
<1>1. j \in used /\ c \in Classes /\ fut[j] = "running"
  BY HasFuture DEF TaskStep
<1>2. /\ k \in 0..(Len(Script(c)) - 1)
      /\ status[j] = StatusAfter(c, k)
      /\ result[j] = ResultAfter(c, k)
  BY <1>1 DEF TaskStep, IInv, TaskInv
<1>3. e \in StepSet
  BY <1>1, <1>2, ScriptType
<1>4. /\ status' = [status EXCEPT ![j] = IF e.st = Keep THEN status[j] ELSE e.st]
      /\ result' = [result EXCEPT ![j] = IF e.res = Keep THEN result[j] ELSE e.res]
      /\ pc' = [pc EXCEPT ![j] = k + 1]
      /\ fut' = IF k + 1 = Len(Script(c)) THEN [fut EXCEPT ![j] = "finished"] ELSE fut
      /\ UNCHANGED <<jobs, used, jobCls, cancelled, workQueue, jobClasses, finalStatus>>
  BY DEF TaskStep, IInv, TypeOK
<1>5. status'[j] = StatusAfter(c, k + 1) /\ result'[j] = ResultAfter(c, k + 1)
  BY <1>1, <1>2, <1>4, TableStep DEF IInv, TypeOK
<1>6. status'[j] \in Statuses /\ result'[j] \in Results
  BY <1>1, <1>2, <1>3, <1>4 DEF StepSet, IInv, TypeOK
<1>7. \A x \in JobIds : x # j =>
        /\ status'[x] = status[x] /\ result'[x] = result[x]
        /\ pc'[x] = pc[x] /\ fut'[x] = fut[x]
  BY <1>4 DEF IInv, TypeOK
<1>8. pc'[j] = k + 1 /\ fut'[j] \in {"running", "finished"}
  BY <1>1, <1>4 DEF IInv, TypeOK
<1>9. TypeOK'
  <2>0. Len(Script(c)) \in 1..MaxScript
    BY <1>1, ScriptType
  <2>1. k + 1 \in 0..MaxScript
    <3> DEFINE n == Len(Script(c))
    <3>1. n \in 1..5 /\ k \in 0..(n - 1)
      BY <1>2, <2>0 DEF MaxScript
    <3> HIDE DEF n
    <3>2. QED
      BY <3>1 DEF MaxScript
  <2>2. pc' \in [JobIds -> 0..MaxScript]
    BY <1>4, <2>1 DEF IInv, TypeOK
  <2>3. fut' \in [JobIds -> FutureStates]
    BY <1>4 DEF IInv, TypeOK, FutureStates
  <2>4. status' \in [JobIds -> Statuses \cup {None}] /\ result' \in [JobIds -> Results]
    BY <1>4, <1>6 DEF IInv, TypeOK
  <2>5. \A x \in used' : jobCls'[x] \in Classes /\ status'[x] \in Statuses
    BY <1>4, <1>6, <1>7 DEF IInv, TypeOK
  <2>6. QED
    BY <1>4, <2>2, <2>3, <2>4, <2>5 DEF IInv, TypeOK
<1>10. QueueInv'
  <2>1. \A i \in 1..Len(workQueue) : workQueue[i] # j
    BY <1>1 DEF IInv, QueueInv
  <2>2. QED
    BY <1>4, <1>7, <2>1 DEF IInv, QueueInv, TypeOK
<1>11. FreshInv'
  BY <1>1, <1>4, <1>7 DEF IInv, FreshInv
<1>12. TaskInv'
  BY <1>1, <1>2, <1>4, <1>5, <1>7, <1>8 DEF IInv, TaskInv, TypeOK
<1>13. ForcedInv'
  BY <1>1, <1>4, <1>7, <1>8 DEF IInv, ForcedInv, TypeOK
<1>14. QED
  BY <1>9, <1>10, <1>11, <1>12, <1>13 DEF IInv

\* program_run registers a fresh job, with a queued task or in a forced status.
LEMMA ProgramRunStep ==
  ASSUME IInv, NEW j \in JobIds, ProgramRun(j)
  PROVE  IInv'
<1> DEFINE c == IF jobClasses # <<>> THEN Head(jobClasses) ELSE "BaseFakeRuntimeJob"
           auto == finalStatus = None
<1>1. /\ j \notin used /\ fut[j] = "absent" /\ pc[j] = 0
      /\ c \in Classes
  BY DEF ProgramRun, IInv, FreshInv, TypeOK, Classes
<1>2. /\ used' = used \cup {j} /\ jobs' = jobs \cup {j}
      /\ jobCls' = [jobCls EXCEPT ![j] = c]
      /\ status' = [status EXCEPT ![j] = IF auto THEN "QUEUED" ELSE finalStatus]
      /\ result' = [result EXCEPT ![j] = IF auto THEN None
                                         ELSE IF finalStatus = "COMPLETED" THEN "foo"
                                         ELSE NoAttr]
      /\ fut' = [fut EXCEPT ![j] = IF auto THEN "pending" ELSE "absent"]
      /\ workQueue' = IF auto THEN Append(workQueue, j) ELSE workQueue
      /\ jobClasses' \in Seq(Classes)
      /\ UNCHANGED <<cancelled, pc, finalStatus>>
  BY DEF ProgramRun, IInv, TypeOK
<1>3. status'[j] \in Statuses
  BY <1>2, FakeRuntimeAssumption DEF IInv, TypeOK, Statuses, Pending
<1>4. TypeOK'
  BY <1>1, <1>2, <1>3 DEF IInv, TypeOK, Results, Payloads, FutureStates
<1>5. QueueInv'
  <2>1. \A i \in 1..Len(workQueue) : workQueue[i] # j
    BY <1>1 DEF IInv, QueueInv
  <2>2. CASE auto
    <3>1. /\ workQueue' = Append(workQueue, j)
          /\ Len(workQueue') = Len(workQueue) + 1
          /\ \A i \in 1..Len(workQueue) : workQueue'[i] = workQueue[i]
          /\ workQueue'[Len(workQueue) + 1] = j
      BY <1>2, <2>2 DEF IInv, TypeOK
    <3>2. fut'[j] = "pending" /\ \A x \in JobIds : x # j => fut'[x] = fut[x]
      BY <1>2, <2>2 DEF IInv, TypeOK
    <3>3. \A i \in 1..Len(workQueue') :
            workQueue'[i] \in used' /\ fut'[workQueue'[i]] \in {"pending", "cancelled"}
      <4> SUFFICES ASSUME NEW i \in 1..Len(workQueue')
                   PROVE  workQueue'[i] \in used' /\ fut'[workQueue'[i]] \in {"pending", "cancelled"}
        OBVIOUS
      <4>1. CASE i \in 1..Len(workQueue)
        <5>1. workQueue'[i] = workQueue[i] /\ workQueue[i] # j /\ workQueue[i] \in used
              /\ fut[workQueue[i]] \in {"pending", "cancelled"}
          BY <2>1, <3>1, <4>1 DEF IInv, QueueInv
        <5>2. QED
          BY <1>2, <3>2, <5>1 DEF IInv, TypeOK
      <4>2. CASE i = Len(workQueue) + 1
        BY <1>2, <3>1, <3>2, <4>2
      <4>3. QED
        BY <3>1, <4>1, <4>2 DEF IInv, TypeOK
    <3>4. \A i, i2 \in 1..Len(workQueue') : i # i2 => workQueue'[i] # workQueue'[i2]
      <4> SUFFICES ASSUME NEW i \in 1..Len(workQueue'), NEW i2 \in 1..Len(workQueue'), i # i2
                   PROVE  workQueue'[i] # workQueue'[i2]
        OBVIOUS
      <4> DEFINE n == Len(workQueue)
      <4>1. n \in Nat /\ (i \in 1..n \/ i = n + 1) /\ (i2 \in 1..n \/ i2 = n + 1)
        BY <3>1 DEF IInv, TypeOK
      <4>2. CASE i \in 1..n /\ i2 \in 1..n
        BY <3>1, <4>2 DEF IInv, QueueInv
      <4>3. CASE i = n + 1 /\ i2 \in 1..n
        BY <2>1, <3>1, <4>3
      <4>4. CASE i \in 1..n /\ i2 = n + 1
        BY <2>1, <3>1, <4>4
      <4>5. QED
        BY <4>1, <4>2, <4>3, <4>4
    <3>5. QED
      BY <3>3, <3>4 DEF QueueInv
  <2>3. CASE ~auto
    BY <1>1, <1>2, <2>1, <2>3 DEF IInv, QueueInv, TypeOK
  <2>4. QED
    BY <2>2, <2>3
<1>6. FreshInv'
  BY <1>1, <1>2 DEF IInv, FreshInv, TypeOK
<1>7. TaskInv'
  <2>1. CASE auto
    <3>1. StatusAfter(c, 0) = "QUEUED" /\ ResultAfter(c, 0) = None
      BY <1>1, TableStart
    <3>2. Len(Script(c)) \in 1..MaxScript
      BY <1>1, ScriptType
    <3>3. QED
      BY <1>1, <1>2, <2>1, <3>1, <3>2 DEF IInv, TaskInv, TypeOK
  <2>2. CASE ~auto
    BY <1>1, <1>2, <2>2 DEF IInv, TaskInv, TypeOK
  <2>3. QED
    BY <2>1, <2>2
<1>8. ForcedInv'
  <2>1. CASE auto
    BY <1>1, <1>2, <2>1 DEF IInv, ForcedInv, TypeOK
  <2>2. CASE ~auto
    BY <1>1, <1>2, <2>2 DEF IInv, ForcedInv, TypeOK, NoAttr
  <2>3. QED
    BY <2>1, <2>2
<1>9. QED
  BY <1>4, <1>5, <1>6, <1>7, <1>8 DEF IInv

\* job_cancel cancels a still-queued future and marks the job cancelled.
LEMMA JobCancelStep ==
  ASSUME IInv, NEW j \in JobIds, JobCancel(j)
  PROVE  IInv'
<1>1. /\ fut' = IF fut[j] = "pending" THEN [fut EXCEPT ![j] = "cancelled"] ELSE fut
      /\ cancelled' = [cancelled EXCEPT ![j] = TRUE]
      /\ UNCHANGED <<jobs, used, jobCls, status, result, pc, workQueue, jobClasses, finalStatus>>
  BY DEF JobCancel
<1>2. j \in used /\ fut[j] # "absent"
  BY DEF JobCancel, IInv, TypeOK
<1>3. \A x \in JobIds : fut'[x] = "absent" <=> fut[x] = "absent"
  BY <1>1 DEF IInv, TypeOK
<1>4. \A x \in JobIds : fut'[x] \in {"pending", "cancelled"} <=> fut[x] \in {"pending", "cancelled"}
  BY <1>1 DEF IInv, TypeOK
<1>5. TypeOK'
  BY <1>1 DEF IInv, TypeOK, FutureStates
<1>6. QueueInv'
  BY <1>1, <1>4 DEF IInv, QueueInv, TypeOK
<1>7. FreshInv'
  BY <1>1, <1>2, <1>3 DEF IInv, FreshInv, TypeOK
<1>8. TaskInv'
  BY <1>1, <1>3, <1>4 DEF IInv, TaskInv, TypeOK
<1>9. ForcedInv'
  BY <1>1, <1>3 DEF IInv, ForcedInv
<1>10. QED
  BY <1>5, <1>6, <1>7, <1>8, <1>9 DEF IInv

\* job_delete, the test set-up steps and stuttering touch no conjunct of IInv
\* but the registry, the class queue and the final status.
LEMMA OtherSteps ==
  ASSUME IInv,
         \/ \E j \in JobIds : JobDelete(j)
         \/ \E c \in TestClasses : SetJobClasses(c)
         \/ \E s \in FinalStatuses : SetFinalStatus(s)
         \/ UNCHANGED fakeVars
  PROVE  IInv'
<1>1. CASE \E j \in JobIds : JobDelete(j)
  BY <1>1 DEF JobDelete, IInv, TypeOK, QueueInv, FreshInv, TaskInv, ForcedInv
<1>2. CASE \E c \in TestClasses : SetJobClasses(c)
  BY <1>2, FakeRuntimeAssumption
  DEF SetJobClasses, IInv, TypeOK, QueueInv, FreshInv, TaskInv, ForcedInv
<1>3. CASE \E s \in FinalStatuses : SetFinalStatus(s)
  BY <1>3 DEF SetFinalStatus, IInv, TypeOK, QueueInv, FreshInv, TaskInv, ForcedInv
<1>4. CASE UNCHANGED fakeVars
  BY <1>4 DEF fakeVars, IInv, TypeOK, QueueInv, FreshInv, TaskInv, ForcedInv
<1>5. QED
  BY <1>1, <1>2, <1>3, <1>4

\* IInv is preserved by every step of the fake service, and stuttering.
LEMMA IInvStep == IInv /\ [FakeNext]_fakeVars => IInv'
<1> SUFFICES ASSUME IInv, [FakeNext]_fakeVars PROVE IInv'
  OBVIOUS
<1>1. CASE WorkerStart
  BY <1>1, WorkerStartStep
<1>2. CASE \E j \in JobIds : TaskStep(j)
  BY <1>2, TaskStepStep
<1>3. CASE \E j \in JobIds : ProgramRun(j)
  BY <1>3, ProgramRunStep
<1>4. CASE \E j \in JobIds : JobCancel(j)
  BY <1>4, JobCancelStep
<1>5. QED
  BY <1>1, <1>2, <1>3, <1>4, OtherSteps DEF FakeNext, FakeInternal, FakeSetup

(***************************************************************************)
(* Type correctness of the fake service: whatever the tests' set-up, the   *)
(* executor's scheduling, the tasks' progress, cancels and deletes, every  *)
(* job's _status, _result and future stay in their domains.               *)
(***************************************************************************)
THEOREM TypeCorrect == FakeSpec => []TypeOK
<1>1. FakeInit => IInv
  BY IInvInit
<1>2. IInv /\ [FakeNext]_fakeVars => IInv'
  BY IInvStep
<1>3. IInv => TypeOK
  BY DEF IInv
<1>4. QED
  BY <1>1, <1>2, <1>3, PTL DEF FakeSpec

\* IInv forces every visible result to come with a terminal reported status.
LEMMA IInvResult == IInv => ResultOnlyWhenTerminal
<1> SUFFICES ASSUME IInv, NEW j \in jobs, result[j] \in Payloads
             PROVE  Reported(j) \in Terminal
  BY DEF ResultOnlyWhenTerminal
<1>1. j \in used /\ j \in JobIds
  BY DEF IInv, TypeOK
<1>2. CASE jobCls[j] = "CancelableRuntimeJob" /\ cancelled[j]
  BY <1>2 DEF Reported, Terminal
<1>3. CASE ~(jobCls[j] = "CancelableRuntimeJob" /\ cancelled[j])
  <2>1. Reported(j) = status[j]
    BY <1>3 DEF Reported
  <2>2. CASE fut[j] = "absent"
    BY <1>1, <2>1, <2>2 DEF IInv, ForcedInv, NoAttr, Payloads, Terminal
  <2>3. CASE fut[j] # "absent"
    <3>1. /\ jobCls[j] \in Classes
          /\ pc[j] \in 0..Len(Script(jobCls[j]))
          /\ status[j] = StatusAfter(jobCls[j], pc[j])
          /\ ResultAfter(jobCls[j], pc[j]) \in Payloads
      BY <1>1, <2>3 DEF IInv, TaskInv, TypeOK
    <3>2. QED
      BY <2>1, <3>1, TableTerminal
  <2>4. QED
    BY <2>2, <2>3
<1>4. QED
  BY <1>2, <1>3

(***************************************************************************)
(* No job of the fake service shows a result before it reports a terminal *)
(* status: the _auto_progress tasks assign _result after the final        *)
(* _status, and set_final_status gives a result only to COMPLETED jobs.   *)
(***************************************************************************)
THEOREM ResultSafety == FakeSpec => []ResultOnlyWhenTerminal
<1>1. FakeInit => IInv
  BY IInvInit
<1>2. IInv /\ [FakeNext]_fakeVars => IInv'
  BY IInvStep
<1>3. IInv => ResultOnlyWhenTerminal
  BY IInvResult
<1>4. QED
  BY <1>1, <1>2, <1>3, PTL DEF FakeSpec

----------------------------------------------------------------------------
(***************************************************************************)
(* Refinement: the status each job reports follows the JobLifecycle.       *)
(* LC is the refinement mapping of FakeRuntime's Lifecycle instance.       *)
(***************************************************************************)
LC == [j \in JobIds |-> IF j \in jobs THEN Reported(j)
                        ELSE IF j \in used THEN "DELETED" ELSE "ABSENT"]

\* No job id is cancelled before program_run hands it out.
FreshCancel == \A j \in JobIds \ used : ~cancelled[j]

RefInv == IInv /\ FreshCancel

\* One assignment of a progression task keeps the status or takes an edge.
LEMMA TableEdge ==
  ASSUME NEW c \in Classes, NEW k \in 0..(Len(Script(c)) - 1)
  PROVE  \/ StatusAfter(c, k + 1) = StatusAfter(c, k)
         \/ <<StatusAfter(c, k), StatusAfter(c, k + 1)>> \in Lifecycle!Edges
<1> USE DEF Script, St, Res, StatusAfter, StatusTable, Lifecycle!Edges
<1>1. CASE c = "BaseFakeRuntimeJob" BY <1>1
<1>2. CASE c = "FailedRuntimeJob" BY <1>2
<1>3. CASE c = "FailedRanTooLongRuntimeJob" BY <1>3
<1>4. CASE c = "CancelableRuntimeJob" BY <1>4
<1>5. CASE c = "CustomResultRuntimeJob" BY <1>5
<1>6. CASE c = "TimedRuntimeJob" BY <1>6
<1> HIDE DEF Script, St, Res, StatusAfter, StatusTable, Lifecycle!Edges
<1>7. QED BY <1>1, <1>2, <1>3, <1>4, <1>5, <1>6 DEF Classes

\* A CancelableRuntimeJob with a task is QUEUED or RUNNING.
LEMMA CancelablePending ==
  ASSUME IInv, NEW j \in used, jobCls[j] = "CancelableRuntimeJob", fut[j] # "absent"
  PROVE  status[j] \in {"QUEUED", "RUNNING"}
<1>1. pc[j] \in 0..Len(Script(jobCls[j])) /\ status[j] = StatusAfter(jobCls[j], pc[j])
  BY DEF IInv, TaskInv
<1>2. QED
  BY <1>1 DEF Script, St, Res, StatusAfter, StatusTable

LEMMA RefInvInit == FakeInit => RefInv
BY IInvInit DEF FakeInit, RefInv, FreshCancel

LEMMA RefInvStep == RefInv /\ [FakeNext]_fakeVars => RefInv'
<1> SUFFICES ASSUME RefInv, [FakeNext]_fakeVars PROVE RefInv'
  OBVIOUS
<1>1. IInv'
  BY IInvStep DEF RefInv
<1>2. FreshCancel'
  <2>1. CASE \E j \in JobIds : JobCancel(j)
    BY <2>1 DEF JobCancel, RefInv, FreshCancel, IInv, TypeOK
  <2>2. CASE \E j \in JobIds : ProgramRun(j)
    BY <2>2 DEF ProgramRun, RefInv, FreshCancel
  <2>3. CASE ~(\E j \in JobIds : JobCancel(j) \/ ProgramRun(j))
    BY <2>3 DEF FakeNext, FakeInternal, FakeSetup, WorkerStart, TaskStep, JobDelete,
              SetJobClasses, SetFinalStatus, fakeVars, RefInv, FreshCancel
  <2>4. QED
    BY <2>1, <2>2, <2>3
<1>3. QED
  BY <1>1, <1>2 DEF RefInv

\* LC changes at one job only.
LEMMA LCUpdate ==
  ASSUME NEW j \in JobIds, NEW v,
         LC'[j] = v,
         \A k \in JobIds : k # j => LC'[k] = LC[k]
  PROVE  LC' = [LC EXCEPT ![j] = v]
BY DEF LC

\* A registered job reports a status of the lifecycle.
LEMMA ReportedStatus ==
  ASSUME IInv, NEW j \in jobs
  PROVE  Reported(j) \in Statuses
BY DEF IInv, TypeOK, Reported, Statuses, Terminal

\* program_run submits a fresh job in its first status.
LEMMA ProgramRunRefines ==
  ASSUME RefInv, NEW j \in JobIds, ProgramRun(j)
  PROVE  Lifecycle!Submit(j)
<1>1. j \notin used /\ j \notin jobs /\ ~cancelled[j]
  BY DEF ProgramRun, RefInv, FreshCancel, IInv, TypeOK
<1>2. /\ used' = used \cup {j} /\ jobs' = jobs \cup {j}
      /\ cancelled' = cancelled
      /\ \A k \in JobIds : k # j => jobCls'[k] = jobCls[k] /\ status'[k] = status[k]
      /\ status'[j] \in Statuses
  BY FakeRuntimeAssumption DEF ProgramRun, RefInv, IInv, TypeOK, Statuses, Pending
<1>3. LC[j] = "ABSENT"
  BY <1>1 DEF LC
<1>4. LC'[j] = status'[j]
  BY <1>1, <1>2 DEF LC, Reported
<1>5. \A k \in JobIds : k # j => LC'[k] = LC[k]
  BY <1>2 DEF LC, Reported
<1>6. LC' = [LC EXCEPT ![j] = status'[j]]
  BY <1>4, <1>5, LCUpdate
<1>7. QED
  BY <1>2, <1>3, <1>6 DEF Lifecycle!Submit, LC, Statuses, Lifecycle!Statuses,
     Pending, Terminal, Lifecycle!Pending, Lifecycle!Terminal

\* A task's assignment moves the reported status along an edge, or not at all.
LEMMA TaskStepRefines ==
  ASSUME RefInv, NEW j \in JobIds, TaskStep(j)
  PROVE  Lifecycle!Advance(j) \/ LC' = LC
<1> DEFINE c == jobCls[j]
           k == pc[j]
<1>1. j \in used /\ c \in Classes /\ fut[j] = "running"
  BY HasFuture DEF TaskStep, RefInv
<1>2. /\ k \in 0..(Len(Script(c)) - 1)
      /\ status[j] = StatusAfter(c, k)
  BY <1>1 DEF TaskStep, RefInv, IInv, TaskInv
<1>3. status'[j] = StatusAfter(c, k + 1)
  BY <1>1, <1>2, TableStep DEF TaskStep, RefInv, IInv, TypeOK
<1>4. /\ UNCHANGED <<jobs, used, jobCls, cancelled>>
      /\ \A x \in JobIds : x # j => status'[x] = status[x]
  BY DEF TaskStep, RefInv, IInv, TypeOK
<1>5. \A x \in JobIds : x # j => LC'[x] = LC[x]
  BY <1>4 DEF LC, Reported
<1>6. CASE j \notin jobs \/ (c = "CancelableRuntimeJob" /\ cancelled[j])
  <2>1. LC'[j] = LC[j]
    BY <1>4, <1>6 DEF LC, Reported
  <2>2. QED
    BY <1>5, <2>1 DEF LC
<1>7. CASE j \in jobs /\ ~(c = "CancelableRuntimeJob" /\ cancelled[j])
  <2>1. LC[j] = StatusAfter(c, k) /\ LC'[j] = StatusAfter(c, k + 1)
    BY <1>2, <1>3, <1>4, <1>7 DEF LC, Reported
  <2>2. StatusAfter(c, k + 1) \in Statuses
    <3>1. status'[j] \in Statuses
      BY <1>1, <1>4, IInvStep, TaskStepStep DEF RefInv, IInv, TypeOK
    <3>2. QED
      BY <1>3, <3>1
  <2>3. CASE StatusAfter(c, k + 1) = StatusAfter(c, k)
    BY <1>5, <2>1, <2>3 DEF LC
  <2>4. CASE <<StatusAfter(c, k), StatusAfter(c, k + 1)>> \in Lifecycle!Edges
    <3>1. LC' = [LC EXCEPT ![j] = StatusAfter(c, k + 1)]
      BY <1>5, <2>1, LCUpdate
    <3>2. QED
      BY <2>1, <2>2, <2>4, <3>1 DEF Lifecycle!Advance, LC, Statuses, Lifecycle!Statuses,
         Pending, Terminal, Lifecycle!Pending, Lifecycle!Terminal
  <2>5. QED
    BY <1>1, <1>2, <2>3, <2>4, TableEdge
<1>8. QED
  BY <1>6, <1>7

\* job_cancel moves a pending CancelableRuntimeJob to CANCELLED.
LEMMA JobCancelRefines ==
  ASSUME RefInv, NEW j \in JobIds, JobCancel(j)
  PROVE  Lifecycle!Advance(j) \/ LC' = LC
<1>1. /\ j \in jobs /\ j \in used
      /\ jobCls[j] = "CancelableRuntimeJob" /\ fut[j] # "absent"
      /\ cancelled' = [cancelled EXCEPT ![j] = TRUE]
      /\ UNCHANGED <<jobs, used, jobCls, status>>
  BY DEF JobCancel, RefInv, IInv, TypeOK
<1>2. \A x \in JobIds : x # j => LC'[x] = LC[x]
  BY <1>1 DEF LC, Reported, RefInv, IInv, TypeOK
<1>3. LC'[j] = "CANCELLED"
  BY <1>1 DEF LC, Reported, RefInv, IInv, TypeOK
<1>4. CASE cancelled[j]
  BY <1>1, <1>2, <1>3, <1>4 DEF LC, Reported
<1>5. CASE ~cancelled[j]
  <2>1. LC[j] = status[j] /\ status[j] \in {"QUEUED", "RUNNING"}
    BY <1>1, <1>5, CancelablePending DEF LC, Reported, RefInv
  <2>2. LC' = [LC EXCEPT ![j] = "CANCELLED"]
    BY <1>2, <1>3, LCUpdate
  <2>3. QED
    BY <2>1, <2>2 DEF Lifecycle!Advance, Lifecycle!Edges, LC, Lifecycle!Statuses,
       Lifecycle!Pending, Lifecycle!Terminal
<1>6. QED
  BY <1>4, <1>5

\* job_delete removes a registered job.
LEMMA JobDeleteRefines ==
  ASSUME RefInv, NEW j \in JobIds, JobDelete(j)
  PROVE  Lifecycle!Delete(j)
<1>1. /\ j \in jobs /\ j \in used /\ jobs' = jobs \ {j}
      /\ UNCHANGED <<used, jobCls, status, cancelled>>
  BY DEF JobDelete, RefInv, IInv, TypeOK
<1>2. LC[j] = Reported(j) /\ Reported(j) \in Statuses
  BY <1>1, ReportedStatus DEF LC, RefInv
<1>3. \A x \in JobIds : x # j => LC'[x] = LC[x]
  BY <1>1 DEF LC, Reported
<1>4. LC' = [LC EXCEPT ![j] = "DELETED"]
  BY <1>1, <1>3, LCUpdate DEF LC
<1>5. QED
  BY <1>2, <1>4 DEF Lifecycle!Delete, LC, Statuses, Lifecycle!Statuses,
     Pending, Terminal, Lifecycle!Pending, Lifecycle!Terminal

\* Every backend step is a lifecycle step of the reported statuses, or leaves them alone.
LEMMA LCStep == RefInv /\ [FakeNext]_fakeVars => [Lifecycle!LNext]_LC
<1> SUFFICES ASSUME RefInv, [FakeNext]_fakeVars PROVE Lifecycle!LNext \/ LC' = LC
  BY DEF LC
<1>1. CASE WorkerStart
  BY <1>1 DEF WorkerStart, LC, Reported
<1>2. ASSUME NEW j \in JobIds, TaskStep(j) PROVE Lifecycle!LNext \/ LC' = LC
  BY <1>2, TaskStepRefines DEF Lifecycle!LNext
<1>3. CASE FakeSetup
  BY <1>3 DEF FakeSetup, SetJobClasses, SetFinalStatus, LC, Reported
<1>4. ASSUME NEW j \in JobIds, ProgramRun(j) PROVE Lifecycle!LNext
  BY <1>4, ProgramRunRefines DEF Lifecycle!LNext
<1>5. ASSUME NEW j \in JobIds, JobCancel(j) PROVE Lifecycle!LNext \/ LC' = LC
  BY <1>5, JobCancelRefines DEF Lifecycle!LNext
<1>6. ASSUME NEW j \in JobIds, JobDelete(j) PROVE Lifecycle!LNext
  BY <1>6, JobDeleteRefines DEF Lifecycle!LNext
<1>7. CASE UNCHANGED fakeVars
  BY <1>7 DEF fakeVars, LC, Reported
<1>8. QED
  BY <1>1, <1>2, <1>3, <1>4, <1>5, <1>6, <1>7 DEF FakeNext, FakeInternal

(***************************************************************************)
(* The fake backend implements the job lifecycle: under the refinement     *)
(* mapping that sends each job to the status job_get reports for it        *)
(* (DELETED after job_delete, ABSENT before program_run), every step of    *)
(* the executor, the progression tasks, job_cancel and job_delete is a     *)
(* lifecycle step or leaves every reported status unchanged.               *)
(***************************************************************************)
THEOREM LifecycleRefinement == FakeSpec => JobLifecycleSpec
<1>1. FakeInit => Lifecycle!LInit
  BY DEF FakeInit, Lifecycle!LInit
<1>2. RefInv /\ [FakeNext]_fakeVars => [Lifecycle!LNext]_LC
  BY LCStep
<1>3. QED
  BY <1>1, <1>2, RefInvInit, RefInvStep, PTL
  DEF FakeSpec, JobLifecycleSpec, Lifecycle!LSpec, LC

(***************************************************************************)
(* A step never changes the status job_get reports for a finished job,    *)
(* except that job_delete removes it: a late progression task, a          *)
(* job_cancel or a re-forced final status cannot rewrite a terminal one.  *)
(***************************************************************************)
TerminalStable ==
  \A j \in JobIds : LC[j] \in Terminal => LC'[j] \in {LC[j], "DELETED"}

LEMMA LNextTerminalStable == Lifecycle!LNext => TerminalStable
<1> SUFFICES ASSUME NEW k \in JobIds,
                    Lifecycle!Submit(k) \/ Lifecycle!Advance(k) \/ Lifecycle!Delete(k)
             PROVE  TerminalStable
  BY DEF Lifecycle!LNext
<1>1. CASE Lifecycle!Submit(k)
  BY <1>1 DEF Lifecycle!Submit, TerminalStable, LC, Terminal
<1>2. CASE Lifecycle!Advance(k)
  BY <1>2 DEF Lifecycle!Advance, Lifecycle!Edges, TerminalStable, LC, Terminal
<1>3. CASE Lifecycle!Delete(k)
  BY <1>3 DEF Lifecycle!Delete, TerminalStable, LC, Terminal
<1>4. QED
  BY <1>1, <1>2, <1>3

(***************************************************************************)
(* Once job_get reports a terminal status for a job, it reports that      *)
(* status until job_delete, whatever the tasks, cancel and the test set-up *)
(* do: a consequence of LifecycleRefinement's step lemma.                  *)
(***************************************************************************)
THEOREM TerminalReportFinal == FakeSpec => [][TerminalStable]_LC
<1>1. RefInv /\ [FakeNext]_fakeVars => [TerminalStable]_LC
  BY LCStep, LNextTerminalStable
<1>2. QED
  BY <1>1, RefInvInit, RefInvStep, PTL DEF FakeSpec
============================================================================
