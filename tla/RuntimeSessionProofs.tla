------------------------ MODULE RuntimeSessionProofs ------------------------
(***************************************************************************)
(* Proofs about RuntimeSession, for every set of caller threads, every     *)
(* timeout and every instance of the fake service beneath.                 *)
(*                                                                         *)
(* SessionGrouping is not inductive: a write whose service.run has         *)
(* returned but whose "if self._session_id is None" has not yet run        *)
(* leaves a job in the registry and _session_id still None.  SessInv says *)
(* what holds then: callers serialise writes, so at most one thread is     *)
(* inside write; while _session_id is None the registry holds at most the *)
(* job of that write, grouped under its own id; once it is set every job  *)
(* carries it.  It also keeps the job a read waits on a real job, which   *)
(* the type of the fetched result needs.                                   *)
(***************************************************************************)
EXTENDS RuntimeSession, FakeRuntimeProofs, TLAPS

SessInv ==
  /\ \A u, v \in Threads : tpc[u] \in WritePcs /\ tpc[v] \in WritePcs => u = v
  /\ sjob # None => sjob \in used
  /\ \A t \in Threads : tpc[t] = "w_sid" => sjob # None
  /\ \A t \in Threads : tpc[t] \in ReadPcs => rjob[t] \in JobIds
  /\ sid # None => sid \in used /\ \A j \in used : group[j] = sid
  /\ sid = None /\ used # {} =>
       /\ used = {sjob}
       /\ group[sjob] = sjob
       /\ \E t \in Threads : tpc[t] = "w_sid"

RInv == IInv /\ SessionTypeOK /\ SessInv

----------------------------------------------------------------------------
\* Steps that leave the fake service alone keep its invariant.
LEMMA FakeUnchanged ==
  ASSUME IInv, UNCHANGED fakeVars
  PROVE  IInv'
BY IInvStep

\* The constants the session's types are built from.
LEMMA SessionConstants ==
  /\ MaxWait \in Nat
  /\ None \notin JobIds
  /\ Results \subseteq Outcomes
  /\ {"ok", "SessionClosed", "AttributeError", "JobTimeout", "JobFailed",
      "JobCancelled", "InfoAttributeError", "info"} \subseteq Outcomes
BY SessionAssumption, FakeRuntimeAssumption DEF MaxWait, Outcomes

LEMMA RInvInit == Init => RInv
<1> SUFFICES ASSUME Init PROVE RInv
  OBVIOUS
<1>1. IInv
  BY IInvInit DEF Init
<1>2. SessionTypeOK
  BY <1>1, SessionConstants, SessionAssumption
  DEF Init, NewSession, SessionTypeOK, IInv, Outcomes, FakeInit
<1>3. SessInv
  BY DEF Init, NewSession, SessInv, FakeInit, WritePcs, ReadPcs
<1>4. QED
  BY <1>1, <1>2, <1>3 DEF RInv

(***************************************************************************)
(* The write's entry check: only a thread with no write in progress       *)
(* anywhere enters, so while _session_id is None the registry is empty.   *)
(***************************************************************************)
LEMMA WriteEntryStep ==
  ASSUME RInv, NEW t \in Threads, NEW c \in BOOLEAN, WriteEntry(t, c)
  PROVE  RInv'
<1>1. /\ tpc[t] = "idle"
      /\ \A u \in Threads : tpc[u] \notin WritePcs
      /\ UNCHANGED <<fakeVars, active, sjob, sid, group, rjob, elapsed, rto, wjob>>
  BY DEF WriteEntry
<1>2. /\ tpc' = [tpc EXCEPT ![t] = "w_run"] \/ tpc' = [tpc EXCEPT ![t] = "idle"]
      /\ incall' \in [Threads -> BOOLEAN]
      /\ outcome' \in [Threads -> Outcomes]
  BY SessionConstants DEF WriteEntry, Return, RInv, SessionTypeOK
<1>3. ~(sid = None /\ used # {})
  BY <1>1 DEF RInv, SessInv, WritePcs
<1>4. IInv'
  BY <1>1, FakeUnchanged DEF RInv
<1>5. SessionTypeOK'
  BY <1>1, <1>2, <1>4 DEF RInv, IInv, SessionTypeOK, WritePcs
<1>6. SessInv'
  BY <1>1, <1>2, <1>3 DEF RInv, SessInv, SessionTypeOK, WritePcs, ReadPcs, fakeVars
<1>7. QED
  BY <1>4, <1>5, <1>6 DEF RInv

(***************************************************************************)
(* service.run: the one writing thread registers a fresh job, grouped     *)
(* under _session_id, or under its own id when that is still None.        *)
(***************************************************************************)
LEMMA WriteRunStep ==
  ASSUME RInv, NEW t \in Threads, WriteRun(t)
  PROVE  RInv'
<1>1. PICK j \in JobIds :
        /\ ProgramRun(j)
        /\ group' = [group EXCEPT ![j] = IF sid = None THEN j ELSE sid]
        /\ sjob' = j
        /\ wjob' = [wjob EXCEPT ![t] = j]
  BY DEF WriteRun
<1>2. /\ tpc[t] = "w_run"
      /\ tpc' = [tpc EXCEPT ![t] = "w_sid"]
      /\ UNCHANGED <<active, sid, rjob, elapsed, rto, incall, outcome>>
  BY DEF WriteRun
<1>3. j \notin used /\ used' = used \cup {j}
  BY <1>1 DEF ProgramRun
<1>4. IInv'
  BY <1>1, ProgramRunStep DEF RInv
<1>5. \A u \in Threads : u # t => tpc[u] \notin WritePcs
  BY <1>2 DEF RInv, SessInv, WritePcs
<1>6. sid = None => used = {}
  BY <1>2, <1>5 DEF RInv, SessInv, WritePcs
<1>7. SessionTypeOK'
  BY <1>1, <1>2, <1>4, SessionConstants DEF RInv, IInv, SessionTypeOK, WritePcs
<1>8. SessInv'
  <2>1. \A u, v \in Threads : tpc'[u] \in WritePcs /\ tpc'[v] \in WritePcs => u = v
    BY <1>2, <1>5 DEF RInv, SessionTypeOK, WritePcs
  <2>2. sjob' # None => sjob' \in used'
    BY <1>1, <1>3
  <2>3. \A u \in Threads : tpc'[u] = "w_sid" => sjob' # None
    BY <1>1, SessionConstants
  <2>4. \A u \in Threads : tpc'[u] \in ReadPcs => rjob'[u] \in JobIds
    BY <1>2 DEF RInv, SessInv, SessionTypeOK, ReadPcs
  <2>5. sid' # None => sid' \in used' /\ \A k \in used' : group'[k] = sid'
    BY <1>1, <1>2, <1>3 DEF RInv, SessInv, SessionTypeOK, TypeOK, IInv
  <2>6. sid' = None /\ used' # {} =>
          /\ used' = {sjob'}
          /\ group'[sjob'] = sjob'
          /\ \E u \in Threads : tpc'[u] = "w_sid"
    BY <1>1, <1>2, <1>3, <1>6 DEF RInv, SessionTypeOK
  <2>7. QED
    BY <2>1, <2>2, <2>3, <2>4, <2>5, <2>6 DEF SessInv
<1>9. QED
  BY <1>4, <1>7, <1>8 DEF RInv

(***************************************************************************)
(* "if self._session_id is None": the first write's job names the session,*)
(* and that job is then the only one registered.                          *)
(***************************************************************************)
LEMMA WriteSetSidStep ==
  ASSUME RInv, NEW t \in Threads, WriteSetSid(t)
  PROVE  RInv'
<1>1. /\ tpc[t] = "w_sid"
      /\ sid' = IF sid = None THEN sjob ELSE sid
      /\ tpc' = [tpc EXCEPT ![t] = "idle"] \/ tpc' = [tpc EXCEPT ![t] = "c_read"]
      /\ incall' \in [Threads -> BOOLEAN]
      /\ outcome' \in [Threads -> Outcomes]
      /\ UNCHANGED <<fakeVars, active, sjob, group, rjob, elapsed, rto, wjob>>
  BY SessionConstants DEF WriteSetSid, Return, RInv, SessionTypeOK
<1>2. sjob # None /\ sjob \in used
  BY <1>1 DEF RInv, SessInv
<1>3. \A u \in Threads : u # t => tpc[u] \notin WritePcs
  BY <1>1 DEF RInv, SessInv, WritePcs
<1>4. sid = None => used = {sjob} /\ group[sjob] = sjob
  BY <1>2 DEF RInv, SessInv
<1>5. IInv'
  BY <1>1, FakeUnchanged DEF RInv
<1>6. SessionTypeOK'
  BY <1>1, <1>2, <1>5 DEF RInv, IInv, SessionTypeOK, TypeOK, WritePcs
<1>7. SessInv'
  <2>1. \A u, v \in Threads : tpc'[u] \in WritePcs /\ tpc'[v] \in WritePcs => u = v
    BY <1>1, <1>3 DEF RInv, SessionTypeOK, WritePcs
  <2>2. \A u \in Threads : tpc'[u] = "w_sid" => sjob' # None
    BY <1>1, <1>2
  <2>3. \A u \in Threads : tpc'[u] \in ReadPcs => rjob'[u] \in JobIds
    BY <1>1 DEF RInv, SessInv, SessionTypeOK, ReadPcs
  <2>4. sid' # None => sid' \in used' /\ \A k \in used' : group'[k] = sid'
    BY <1>1, <1>2, <1>4 DEF RInv, SessInv, fakeVars
  <2>5. sid' # None
    BY <1>1, <1>2
  <2>6. QED
    BY <1>1, <1>2, <2>1, <2>2, <2>3, <2>4, <2>5 DEF SessInv, fakeVars
<1>8. QED
  BY <1>5, <1>6, <1>7 DEF RInv

(***************************************************************************)
(* A step that leaves the registry, _job, _session_id and the groups      *)
(* alone, moves no thread into or out of write, and lets a thread wait    *)
(* only on a job id, keeps SessInv.                                       *)
(***************************************************************************)
LEMMA SessInvFrame ==
  ASSUME SessInv,
         UNCHANGED <<used, sjob, sid, group>>,
         \A u \in Threads : tpc[u] \in WritePcs \/ tpc'[u] \in WritePcs => tpc'[u] = tpc[u],
         \A u \in Threads : tpc'[u] \in ReadPcs => rjob'[u] \in JobIds
  PROVE  SessInv'
<1>1. \A u, v \in Threads : tpc'[u] \in WritePcs /\ tpc'[v] \in WritePcs => u = v
  BY DEF SessInv
<1>2. \A u \in Threads : tpc'[u] = "w_sid" => sjob' # None
  BY DEF SessInv, WritePcs
<1>3. sid' = None /\ used' # {} => \E u \in Threads : tpc'[u] = "w_sid"
  BY DEF SessInv, WritePcs
<1>4. QED
  BY <1>1, <1>2, <1>3 DEF SessInv

(***************************************************************************)
(* read's entry (direct or inside __call__): a read that starts waiting   *)
(* waits on self._job, a registered job.                                  *)
(***************************************************************************)
LEMMA ReadEntryStep ==
  ASSUME RInv, NEW t \in Threads, tpc[t] \in {"idle", "c_read"}, ReadEntry(t)
  PROVE  RInv'
<1>1. /\ tpc' = [tpc EXCEPT ![t] = "idle"] \/ tpc' = [tpc EXCEPT ![t] = "r_poll"]
      /\ tpc'[t] = "r_poll" => rjob'[t] = sjob /\ sjob # None
      /\ rjob' = rjob \/ rjob' = [rjob EXCEPT ![t] = sjob]
      /\ incall' \in [Threads -> BOOLEAN]
      /\ outcome' \in [Threads -> Outcomes]
      /\ elapsed' = [elapsed EXCEPT ![t] = 0]
      /\ rto' = [rto EXCEPT ![t] = IF tpc[t] = "c_read" THEN None ELSE Timeout]
      /\ UNCHANGED <<fakeVars, active, sjob, sid, group, wjob>>
  BY SessionConstants DEF ReadEntry, Return, RInv, SessionTypeOK
<1>2. sjob # None => sjob \in JobIds
  BY DEF RInv, SessInv, IInv, TypeOK
<1>3. IInv'
  BY <1>1, FakeUnchanged DEF RInv
<1>4. SessionTypeOK'
  BY <1>1, <1>2, <1>3, SessionConstants DEF RInv, IInv, SessionTypeOK, ReadPcs
<1>5. SessInv'
  <2>1. \A u \in Threads : tpc'[u] \in ReadPcs => rjob'[u] \in JobIds
    BY <1>1, <1>2 DEF RInv, SessInv, SessionTypeOK, ReadPcs
  <2>2. \A u \in Threads : tpc[u] \in WritePcs \/ tpc'[u] \in WritePcs => tpc'[u] = tpc[u]
    BY <1>1 DEF RInv, SessionTypeOK, WritePcs
  <2>3. QED
    BY <1>1, <2>1, <2>2, SessInvFrame DEF RInv, fakeVars
<1>6. QED
  BY <1>3, <1>4, <1>5 DEF RInv

\* The wait loop in MaxWait: it sleeps only while the timeout is not reached.
LEMMA ElapsedBound ==
  ASSUME RInv, NEW t \in Threads, rto[t] # None, ~TimedOut(t)
  PROVE  elapsed[t] + 1 \in 0..MaxWait
<1>1. rto[t] = Timeout /\ Timeout \in Nat /\ elapsed[t] \in Nat
  BY SessionAssumption DEF RInv, SessionTypeOK, MaxWait
<1>2. elapsed[t] < Timeout
  BY <1>1 DEF TimedOut
<1>3. QED
  BY <1>1, <1>2 DEF MaxWait

(***************************************************************************)
(* One round of RuntimeJob.result's wait loop: the thread raises, goes on *)
(* to the fetch with the same job, or sleeps within the timeout.          *)
(***************************************************************************)
LEMMA ReadPollStep ==
  ASSUME RInv, NEW t \in Threads, ReadPoll(t)
  PROVE  RInv'
<1>1. /\ tpc[t] = "r_poll"
      /\ UNCHANGED <<fakeVars, active, sjob, sid, group, rjob, rto, wjob>>
  BY DEF ReadPoll
<1>2. /\ tpc' = [tpc EXCEPT ![t] = "r_fetch"] \/ tpc' = [tpc EXCEPT ![t] = "idle"]
         \/ tpc' = tpc
      /\ incall' = incall \/ incall' = [incall EXCEPT ![t] = FALSE]
      /\ \/ outcome' = outcome
         \/ \E o \in {"JobFailed", "JobCancelled", "JobTimeout"} :
              outcome' = [outcome EXCEPT ![t] = o]
  BY DEF ReadPoll, Return
<1>9. incall' \in [Threads -> BOOLEAN] /\ outcome' \in [Threads -> Outcomes]
  <2>1. incall' \in [Threads -> BOOLEAN]
    BY <1>2 DEF RInv, SessionTypeOK
  <2>2. {"JobFailed", "JobCancelled", "JobTimeout"} \subseteq Outcomes
    BY SessionConstants
  <2>3. outcome' \in [Threads -> Outcomes]
    BY <1>2, <2>2 DEF RInv, SessionTypeOK
  <2>4. QED
    BY <2>1, <2>3
<1>3. \/ elapsed' = elapsed
      \/ /\ rto[t] = None
         /\ elapsed' = [elapsed EXCEPT ![t] = 0]
      \/ /\ rto[t] # None /\ ~TimedOut(t)
         /\ elapsed' = [elapsed EXCEPT ![t] = @ + 1]
  BY DEF ReadPoll
<1>4. elapsed' \in [Threads -> 0..MaxWait]
  BY <1>3, ElapsedBound, SessionConstants DEF RInv, SessionTypeOK
<1>5. IInv'
  BY <1>1, FakeUnchanged DEF RInv
<1>6. SessionTypeOK'
  BY <1>1, <1>2, <1>4, <1>5, <1>9 DEF RInv, IInv, SessionTypeOK, ReadPcs
<1>7. SessInv'
  <2>1. \A u \in Threads : tpc'[u] \in ReadPcs => rjob'[u] \in JobIds
    BY <1>1, <1>2 DEF RInv, SessInv, SessionTypeOK, ReadPcs
  <2>2. \A u \in Threads : tpc[u] \in WritePcs \/ tpc'[u] \in WritePcs => tpc'[u] = tpc[u]
    BY <1>1, <1>2 DEF RInv, SessionTypeOK, WritePcs
  <2>3. QED
    BY <1>1, <2>1, <2>2, SessInvFrame DEF RInv, fakeVars
<1>8. QED
  BY <1>5, <1>6, <1>7 DEF RInv

\* The fetch returns the job's _result, a value of the registry.
LEMMA ReadFetchStep ==
  ASSUME RInv, NEW t \in Threads, ReadFetch(t)
  PROVE  RInv'
<1>1. /\ tpc[t] = "r_fetch"
      /\ tpc' = [tpc EXCEPT ![t] = "idle"]
      /\ incall' = [incall EXCEPT ![t] = FALSE]
      /\ outcome' = [outcome EXCEPT ![t] = result[rjob[t]]]
      /\ UNCHANGED <<fakeVars, active, sjob, sid, group, rjob, elapsed, rto, wjob>>
  BY DEF ReadFetch, Return
<1>2. result[rjob[t]] \in Outcomes
  BY <1>1, SessionConstants DEF RInv, SessInv, IInv, TypeOK, ReadPcs
<1>3. IInv'
  BY <1>1, FakeUnchanged DEF RInv
<1>4. SessionTypeOK'
  BY <1>1, <1>2, <1>3 DEF RInv, IInv, SessionTypeOK
<1>5. SessInv'
  BY <1>1 DEF RInv, SessInv, SessionTypeOK, WritePcs, ReadPcs, fakeVars
<1>6. QED
  BY <1>3, <1>4, <1>5 DEF RInv

\* info() and close() change only the caller's outcome or _active.
LEMMA InfoCloseStep ==
  ASSUME RInv, NEW t \in Threads, Info(t) \/ Close(t)
  PROVE  RInv'
<1>1. CASE Info(t)
  <2>1. /\ outcome' \in [Threads -> Outcomes]
        /\ UNCHANGED <<fakeVars, active, sjob, sid, group, tpc, rjob, elapsed, rto, incall, wjob>>
    BY <1>1, SessionConstants DEF Info, RInv, SessionTypeOK
  <2>2. IInv'
    BY <2>1, FakeUnchanged DEF RInv
  <2>3. QED
    BY <2>1, <2>2 DEF RInv, SessionTypeOK, SessInv, IInv, fakeVars
<1>2. CASE Close(t)
  <2>1. /\ active' = FALSE
        /\ UNCHANGED <<fakeVars, sjob, sid, group, tpc, rjob, elapsed, rto, incall, wjob, outcome>>
    BY <1>2 DEF Close
  <2>2. IInv'
    BY <2>1, FakeUnchanged DEF RInv
  <2>3. QED
    BY <2>1, <2>2 DEF RInv, SessionTypeOK, SessInv, IInv, fakeVars
<1>3. QED
  BY <1>1, <1>2

(***************************************************************************)
(* The backend's own steps, the test set-up and a caller's cancel are      *)
(* steps of the fake service that hand out no job id.                     *)
(***************************************************************************)
LEMMA FakeStep ==
  ASSUME RInv, FakeInternal \/ FakeSetup \/ CancelJob, UNCHANGED sessionVars
  PROVE  RInv'
<1>1. [FakeNext]_fakeVars
  BY DEF FakeNext, CancelJob
<1>2. IInv'
  BY <1>1, IInvStep DEF RInv
<1>3. used' = used
  BY DEF FakeInternal, FakeSetup, CancelJob, WorkerStart, TaskStep,
         SetJobClasses, SetFinalStatus, JobCancel
<1>4. QED
  BY <1>2, <1>3 DEF RInv, IInv, SessionTypeOK, SessInv, sessionVars

\* RInv is preserved by every step of the session and its backend.
LEMMA RInvStep == RInv /\ [Next]_vars => RInv'
<1> SUFFICES ASSUME RInv, [Next]_vars PROVE RInv'
  OBVIOUS
<1>1. ASSUME NEW t \in Threads, WriteCall(t) \/ PrimitiveCall(t)
      PROVE  RInv'
  BY <1>1, WriteEntryStep DEF WriteCall, PrimitiveCall
<1>2. ASSUME NEW t \in Threads, ReadCall(t) \/ CallRead(t)
      PROVE  RInv'
  BY <1>2, ReadEntryStep DEF ReadCall, CallRead
<1>3. ASSUME NEW t \in Threads, Info(t) \/ Close(t)
      PROVE  RInv'
  BY <1>3, InfoCloseStep
<1>4. ASSUME NEW t \in Threads, InCall(t)
      PROVE  RInv'
  <2>1. CASE WriteRun(t)
    BY <2>1, WriteRunStep
  <2>2. CASE WriteSetSid(t)
    BY <2>2, WriteSetSidStep
  <2>3. CASE CallRead(t)
    BY <2>3, ReadEntryStep DEF CallRead
  <2>4. CASE ReadPoll(t)
    BY <2>4, ReadPollStep
  <2>5. CASE ReadFetch(t)
    BY <2>5, ReadFetchStep
  <2>6. QED
    BY <1>4, <2>1, <2>2, <2>3, <2>4, <2>5 DEF InCall
<1>5. CASE (FakeInternal \/ FakeSetup \/ CancelJob) /\ UNCHANGED sessionVars
  BY <1>5, FakeStep
<1>6. CASE UNCHANGED vars
  <2>1. IInv'
    BY <1>6, FakeUnchanged DEF vars, RInv
  <2>2. QED
    BY <1>6, <2>1 DEF vars, sessionVars, fakeVars, RInv, SessionTypeOK, SessInv, IInv, TypeOK
<1>7. QED
  BY <1>1, <1>2, <1>3, <1>4, <1>5, <1>6 DEF Next

\* SessInv and the types give the grouping property.
LEMMA RInvGrouping == RInv => SessionGrouping
<1> SUFFICES ASSUME RInv PROVE SessionGrouping
  OBVIOUS
<1>1. CASE sid # None
  BY <1>1 DEF RInv, SessInv, SessionGrouping
<1>2. CASE sid = None
  BY <1>2 DEF RInv, SessInv, SessionGrouping
<1>3. QED
  BY <1>1, <1>2

(***************************************************************************)
(* Type correctness of the session: whatever the callers' threads do      *)
(* (writes, __call__, reads with or without a timeout, info, close,       *)
(* cancels) over any fake backend, the session's state stays well typed,  *)
(* a waiting read always names a job, and its clock never passes the      *)
(* timeout.                                                               *)
(***************************************************************************)
THEOREM SessionTypeCorrect == Spec => []SessionTypeOK
<1>1. Init => RInv
  BY RInvInit
<1>2. RInv /\ [Next]_vars => RInv'
  BY RInvStep
<1>3. RInv => SessionTypeOK
  BY DEF RInv
<1>4. QED
  BY <1>1, <1>2, <1>3, PTL DEF Spec

(***************************************************************************)
(* Every job RuntimeSession.write submits carries one session id, the id  *)
(* of the session's first job, and _session_id once set is that id, for  *)
(* any number of threads and jobs, as long as callers serialise writes   *)
(* (spec 5).                                                              *)
(***************************************************************************)
THEOREM SessionGroupingSafety == Spec => []SessionGrouping
<1>1. Init => RInv
  BY RInvInit
<1>2. RInv /\ [Next]_vars => RInv'
  BY RInvStep
<1>3. RInv => SessionGrouping
  BY RInvGrouping
<1>4. QED
  BY <1>1, <1>2, <1>3, PTL DEF Spec
============================================================================
