--------------------------- MODULE ScanEngineProofs ---------------------------
(***************************************************************************)
(* Proofs about ScanEngine for every list of regions and checks, every     *)
(* pool and every set of resources.                                        *)
(***************************************************************************)
EXTENDS ScanEngine, FiniteSetTheorems, TLAPS

LEMMA DivModBounds ==
  ASSUME NEW n \in Nat, NEW m \in Nat, NEW k \in 1 .. m * n
  PROVE  /\ n # 0
         /\ ((k - 1) % n) + 1 \in 1 .. n
         /\ ((k - 1) \div n) + 1 \in 1 .. m
<1>1. n # 0
  <2>1. m * 0 = 0
    OBVIOUS
  <2> QED  BY <2>1
<1>2. n \in Nat /\ n > 0 /\ k - 1 \in Nat /\ k - 1 < m * n
  BY <1>1
<1>3. ((k - 1) % n) + 1 \in 1 .. n
  BY <1>2
<1>4. (k - 1) \div n \in Nat
  BY <1>2
<1>5. n * ((k - 1) \div n) <= k - 1
  BY <1>2
<1>6. (k - 1) \div n < m
  <2> DEFINE q == (k - 1) \div n
  <2>1. q \in Nat /\ n * q < m * n
    BY <1>2, <1>4, <1>5
  <2> HIDE DEF q
  <2>2. ASSUME m <= q PROVE m * n <= n * q
    BY <2>1, <2>2, <1>2
  <2>3. m * n \in Int /\ n * q \in Int
    BY <2>1, <1>2
  <2>4. q < m
    BY <2>1, <2>2, <2>3
  <2> QED  BY <2>4 DEF q
<1> QED  BY <1>1, <1>3, <1>4, <1>6

(***************************************************************************)
(* The list of pairs is a finite list of selected checks, each with a      *)
(* region that was asked for or the home region.                           *)
(***************************************************************************)
LEMMA JobsType ==
  /\ attempted \in Nat
  /\ JobIds = 1 .. attempted
  /\ \A j \in JobIds : Jobs[j].check \in Check /\ Jobs[j].region \in AnyRegion
<1>1. LocalCount \in Nat /\ Len(GlobalChecks) \in Nat /\ Len(LocalChecks) \in Nat
  BY ScanAssumption DEF LocalCount
<1>2. JobIds = 1 .. LocalCount + Len(GlobalChecks)
  BY <1>1 DEF JobIds, Jobs
<1>3. attempted = LocalCount + Len(GlobalChecks)
  BY <1>1 DEF attempted, Jobs
<1>4. ASSUME NEW j \in 1 .. LocalCount
      PROVE  LocalJob(j).check \in Check /\ LocalJob(j).region \in AnyRegion
  <2>1. /\ ((j - 1) % Len(LocalChecks)) + 1 \in DOMAIN LocalChecks
        /\ ((j - 1) \div Len(LocalChecks)) + 1 \in DOMAIN Regions
    BY <1>1, ScanAssumption, DivModBounds DEF LocalCount
  <2> QED  BY <2>1 DEF LocalJob, Check, AnyRegion, Elements
<1>5. ASSUME NEW k \in 1 .. Len(GlobalChecks)
      PROVE  GlobalJob(k).check \in Check /\ GlobalJob(k).region \in AnyRegion
  BY ScanAssumption DEF GlobalJob, Check, AnyRegion, Elements
<1>6. ASSUME NEW j \in JobIds
      PROVE  Jobs[j].check \in Check /\ Jobs[j].region \in AnyRegion
  <2>1. CASE j <= LocalCount
    BY <2>1, <1>1, <1>2, <1>4 DEF Jobs
  <2>2. CASE ~ (j <= LocalCount)
    BY <2>2, <1>1, <1>2, <1>5 DEF Jobs
  <2> QED  BY <2>1, <2>2
<1> QED  BY <1>1, <1>2, <1>3, <1>6

-------------------------------------------------------------------------------
LEMMA ConcatElements ==
  ASSUME NEW S, NEW s \in Seq(S), NEW u \in Seq(S)
  PROVE  Elements(s \o u) = Elements(s) \cup Elements(u)
<1> DEFINE t == s \o u
<1>1. /\ Len(s) \in Nat /\ DOMAIN s = 1 .. Len(s)
      /\ Len(u) \in Nat /\ DOMAIN u = 1 .. Len(u)
      /\ DOMAIN t = 1 .. Len(s) + Len(u)
      /\ \A i \in 1 .. Len(s) : t[i] = s[i]
      /\ \A i \in 1 .. Len(u) : t[Len(s) + i] = u[i]
      /\ \A i \in 1 .. Len(s) + Len(u) : i > Len(s) => t[i] = u[i - Len(s)]
  OBVIOUS
<1> HIDE DEF t
<1>2. {t[i] : i \in DOMAIN t} \subseteq {s[i] : i \in DOMAIN s} \cup {u[i] : i \in DOMAIN u}
  <2> SUFFICES ASSUME NEW i \in DOMAIN t
               PROVE  t[i] \in {s[k] : k \in DOMAIN s} \cup {u[k] : k \in DOMAIN u}
    OBVIOUS
  <2>1. CASE i <= Len(s)
    BY <1>1, <2>1
  <2>2. CASE i > Len(s)
    <3>1. i - Len(s) \in DOMAIN u /\ t[i] = u[i - Len(s)]
      BY <1>1, <2>2
    <3> QED  BY <3>1
  <2> QED  BY <1>1, <2>1, <2>2
<1>3. {s[i] : i \in DOMAIN s} \subseteq {t[i] : i \in DOMAIN t}
  BY <1>1
<1>4. {u[i] : i \in DOMAIN u} \subseteq {t[i] : i \in DOMAIN t}
  <2> SUFFICES ASSUME NEW i \in DOMAIN u PROVE u[i] \in {t[k] : k \in DOMAIN t}
    OBVIOUS
  <2>1. Len(s) + i \in DOMAIN t /\ t[Len(s) + i] = u[i]
    BY <1>1
  <2> QED  BY <2>1
<1> QED  BY <1>2, <1>3, <1>4 DEF Elements, t

LEMMA FunctionIsSeq ==
  ASSUME NEW S, NEW n \in Nat, NEW f \in [1 .. n -> S]
  PROVE  f \in Seq(S)
OBVIOUS

LEMMA FindingsType ==
  ASSUME TypeOK, NEW j \in JobIds
  PROVE  FindingsOf(j) \in Seq(Finding)
<1>1. future[j].found \in Seq(Resource)
  BY DEF TypeOK
<1>2. RegionOf(j) \in AnyRegion
  BY JobsType DEF RegionOf, AnyRegion
<1>3. \A i \in DOMAIN future[j].found :
        [check |-> Jobs[j].check, region |-> RegionOf(j), id |-> future[j].found[i]]
          \in Finding
  BY <1>1, <1>2, JobsType DEF Finding
<1>4. Len(future[j].found) \in Nat /\ DOMAIN future[j].found = 1 .. Len(future[j].found)
  BY <1>1
<1> QED  BY <1>3, <1>4, FunctionIsSeq DEF FindingsOf

(***************************************************************************)
(* Every reachable state is well typed.                                    *)
(***************************************************************************)
LEMMA TypeStep == TypeOK /\ PoolConsistent /\ [Next]_vars => TypeOK'
<1> SUFFICES ASSUME TypeOK, PoolConsistent, [Next]_vars PROVE TypeOK'
  OBVIOUS
<1> USE JobsType DEF TypeOK
<1>1. CASE Submit
  <2>1. next \in JobIds
    BY <1>1 DEF Submit, PoolConsistent, CallerOnTrack
  <2> QED
    BY <1>1, <2>1 DEF Submit, result, FutureState, InState
<1>2. CASE Finish
  <2>1. PICK p \in Rearrangements(DOMAIN findings) :
          findings' = [i \in DOMAIN findings |-> findings[p[i]]]
    BY <1>2 DEF Finish
  <2>2. \A i \in DOMAIN findings : p[i] \in DOMAIN findings
    BY <2>1 DEF Rearrangements
  <2>3. findings' \in Seq(Finding)
    <3>1. Len(findings) \in Nat /\ DOMAIN findings = 1 .. Len(findings)
      OBVIOUS
    <3>2. \A i \in 1 .. Len(findings) : findings'[i] \in Finding
      BY <2>1, <2>2, <3>1
    <3> QED  BY <2>1, <3>1, <3>2, FunctionIsSeq
  <2> QED  BY <1>2, <2>3 DEF Finish, pool
<1>3. ASSUME NEW j \in JobIds, Collect(j) PROVE TypeOK'
  <2>1. FindingsOf(j) \in Seq(Finding)
    BY FindingsType
  <2>2. [check |-> Jobs[j].check, region |-> Jobs[j].region] \in ScanError
    BY DEF ScanError
  <2>3. findings' \in Seq(Finding) /\ errors' \in Seq(ScanError) /\ unavailable' \in Nat
    <3>1. CASE KeepFindings(j)
      BY <3>1, <2>1 DEF KeepFindings
    <3>2. CASE RecordError(j)
      BY <3>2, <2>2 DEF RecordError
    <3>3. CASE CountUnavailable(j)
      BY <3>3 DEF CountUnavailable
    <3> QED  BY <1>3, <3>1, <3>2, <3>3 DEF Collect
  <2> QED  BY <1>3, <2>3 DEF Collect, pool
<1>4. ASSUME NEW w \in Workers, Take(w) PROVE TypeOK'
  <2>1. Head(queue) \in JobIds /\ Tail(queue) \in Seq(JobIds)
    BY <1>4 DEF Take
  <2>2. queue' \in Seq(JobIds)
    BY <1>4, <2>1 DEF Take
  <2>3. worker' \in [Workers -> [job : JobIds \cup {NoJob}, got : Seq(Resource)]]
    <3>1. <<>> \in Seq(Resource)
      OBVIOUS
    <3> QED  BY <1>4, <2>1, <3>1 DEF Take
  <2>4. future' \in [JobIds -> [state : FutureState, found : Seq(Resource)]]
    <3>1. InState("running") \in [state : FutureState, found : Seq(Resource)]
      BY DEF InState, FutureState
    <3> QED  BY <1>4, <2>1, <3>1 DEF Take
  <2> QED  BY <1>4, <2>2, <2>3, <2>4 DEF Take, result
<1>5. ASSUME NEW w \in Workers, Yield(w) PROVE TypeOK'
  <2>1. PICK x \in Resources[Jobs[worker[w].job].check] :
          worker' = [worker EXCEPT ![w] =
                       [job |-> worker[w].job, got |-> Append(worker[w].got, x)]]
    BY <1>5 DEF Yield
  <2>2. worker[w].job \in JobIds
    BY <1>5 DEF Yield
  <2>3. x \in Resource
    BY <2>1, <2>2 DEF Resource
  <2>4. worker' \in [Workers -> [job : JobIds \cup {NoJob}, got : Seq(Resource)]]
    BY <2>1, <2>3
  <2> QED  BY <1>5, <2>4 DEF Yield, result
<1>6. ASSUME NEW w \in Workers, Return(w) PROVE TypeOK'
  BY <1>6 DEF Return, result, Idle, FutureState
<1>7. ASSUME NEW w \in Workers, Raise(w) PROVE TypeOK'
  BY <1>7 DEF Raise, result, Idle, FutureState, InState
<1>8. CASE UNCHANGED vars
  BY <1>8 DEF vars
<1> QED
  BY <1>1, <1>2, <1>3, <1>4, <1>5, <1>6, <1>7, <1>8 DEF Next, Caller, WorkerStep

-------------------------------------------------------------------------------
(***************************************************************************)
(* The pool keeps its books: one worker per running pair, one entry per    *)
(* pending pair, and nothing that was collected ever changes again.        *)
(***************************************************************************)
LEMMA PoolStep == TypeOK /\ PoolConsistent /\ [Next]_vars => PoolConsistent'
<1> SUFFICES ASSUME TypeOK, PoolConsistent, [Next]_vars PROVE PoolConsistent'
  OBVIOUS
<1>t. /\ attempted \in Nat /\ JobIds = 1 .. attempted /\ NoJob \notin JobIds
      /\ next \in 1 .. attempted + 1
      /\ queue \in Seq(JobIds)
      /\ DOMAIN worker = Workers /\ DOMAIN future = JobIds
      /\ \A w \in Workers : worker[w].job \in JobIds \cup {NoJob}
      /\ collected \subseteq JobIds
  BY JobsType DEF TypeOK, NoJob
<1>p. /\ CallerOnTrack /\ RestUnsubmitted /\ QueuePending /\ QueuedOnce
      /\ WorkersRunning /\ OneWorkerEach /\ CollectedFinished
  BY DEF PoolConsistent
<1>q. /\ Len(queue) \in Nat /\ DOMAIN queue = 1 .. Len(queue)
      /\ \A i \in DOMAIN queue : queue[i] \in JobIds
  BY <1>t
<1>f. \A j \in JobIds : Finished(j) => future[j].state \notin {"unsubmitted", "pending", "running"}
  BY DEF Finished, Answered, Failed, Absent, Errors, Unconnected
<1>s. \A j \in JobIds : future'[j] = future[j] /\ Finished(j) => Finished(j)'
  BY DEF Finished, Answered, Failed, Absent
<1>1. CASE Submit
  <2>1. /\ pc = "submitting" /\ next' = next + 1 /\ queue' = Append(queue, next)
        /\ worker' = worker /\ collected' = collected
        /\ pc' = IF next = attempted THEN "collecting" ELSE "submitting"
        /\ future' = [future EXCEPT ![next] = InState("pending")]
    BY <1>1 DEF Submit
  <2>2. next \in JobIds
    BY <2>1, <1>t, <1>p DEF CallerOnTrack
  <2>3. /\ future[next].state = "unsubmitted"
        /\ future'[next].state = "pending"
        /\ \A j \in JobIds : j # next => future'[j] = future[j]
    BY <2>1, <2>2, <1>t, <1>p DEF RestUnsubmitted, InState
  <2>4. /\ DOMAIN queue' = 1 .. Len(queue) + 1
        /\ queue'[Len(queue) + 1] = next
        /\ \A i \in DOMAIN queue : queue'[i] = queue[i]
    BY <2>1, <2>2, <1>t
  <2>5. \A i \in DOMAIN queue : queue[i] # next
    BY <2>3, <1>p DEF QueuePending
  <2>6. CallerOnTrack'
    BY <2>1, <1>t, <1>p DEF CallerOnTrack, attempted, JobIds
  <2>7. RestUnsubmitted'
    BY <2>1, <2>2, <2>3, <1>t, <1>p DEF RestUnsubmitted
  <2>8. QueuePending'
    BY <2>3, <2>4, <2>5, <1>q, <1>p DEF QueuePending
  <2>9. QueuedOnce'
    BY <2>4, <2>5, <1>q, <1>p DEF QueuedOnce
  <2>10. WorkersRunning'
    BY <2>1, <2>3, <1>t, <1>p DEF WorkersRunning
  <2>11. OneWorkerEach'
    BY <2>1, <1>p DEF OneWorkerEach
  <2>12. CollectedFinished'
    BY <2>1, <2>3, <1>t, <1>p, <1>f, <1>s DEF CollectedFinished
  <2> QED  BY <2>6, <2>7, <2>8, <2>9, <2>10, <2>11, <2>12 DEF PoolConsistent
<1>2. CASE Finish
  <2>1. /\ pc' = "done" /\ collected = JobIds
        /\ next' = next /\ queue' = queue /\ worker' = worker
        /\ future' = future /\ collected' = collected
    BY <1>2 DEF Finish, pool
  <2> QED
    BY <2>1, <1>p DEF PoolConsistent, CallerOnTrack, RestUnsubmitted, QueuePending, QueuedOnce,
      WorkersRunning, OneWorkerEach, CollectedFinished, Finished, Answered, Failed, Absent
<1>3. ASSUME NEW j \in JobIds, Collect(j) PROVE PoolConsistent'
  <2>1. /\ pc = "collecting" /\ pc' = pc /\ collected' = collected \cup {j}
        /\ next' = next /\ queue' = queue /\ worker' = worker /\ future' = future
    BY <1>3 DEF Collect, pool
  <2>2. Finished(j)
    BY <1>3 DEF Collect, KeepFindings, RecordError, CountUnavailable, Finished
  <2>3. CollectedFinished'
    BY <2>1, <2>2, <1>p, <1>s, <1>t DEF CollectedFinished
  <2> QED
    BY <2>1, <2>3, <1>p DEF PoolConsistent, CallerOnTrack, RestUnsubmitted, QueuePending,
      QueuedOnce, WorkersRunning, OneWorkerEach
<1>4. ASSUME NEW w \in Workers, Take(w) PROVE PoolConsistent'
  <2> DEFINE h == Head(queue)
  <2>1. /\ queue # <<>> /\ queue' = Tail(queue)
        /\ worker' = [worker EXCEPT ![w] = [job |-> h, got |-> <<>>]]
        /\ future' = [future EXCEPT ![h] = InState("running")]
        /\ pc' = pc /\ next' = next /\ collected' = collected
    BY <1>4 DEF Take
  <2>2. /\ Len(queue) > 0 /\ h = queue[1] /\ h \in JobIds
        /\ DOMAIN queue' = 1 .. Len(queue) - 1
        /\ \A i \in DOMAIN queue' : queue'[i] = queue[i + 1] /\ i + 1 \in DOMAIN queue
    BY <2>1, <1>t
  <2> HIDE DEF h
  <2>3. future[h].state = "pending"
    BY <2>2, <1>q, <1>p DEF QueuePending
  <2>4. future'[h].state = "running" /\ \A j \in JobIds : j # h => future'[j] = future[j]
    BY <2>1, <2>2, <1>t DEF InState
  <2>5. \A i \in DOMAIN queue' : queue'[i] # h /\ queue'[i] \in JobIds
    BY <2>2, <1>q, <1>p DEF QueuedOnce
  <2>6. worker'[w].job = h /\ \A v \in Workers : v # w => worker'[v] = worker[v]
    BY <2>1, <1>t
  <2>7. \A v \in Workers : worker[v].job # h
    BY <2>2, <2>3, <1>t, <1>p DEF WorkersRunning
  <2>8. CallerOnTrack'
    BY <2>1, <1>p DEF CallerOnTrack
  <2>9. RestUnsubmitted'
    BY <2>1, <2>3, <2>4, <1>p DEF RestUnsubmitted
  <2>10. QueuePending'
    BY <2>2, <2>4, <2>5, <1>p DEF QueuePending
  <2>11. QueuedOnce'
    <3>1. ASSUME NEW i \in DOMAIN queue', NEW k \in DOMAIN queue', queue'[i] = queue'[k]
          PROVE  i = k
      <4>1. i + 1 = k + 1
        BY <2>2, <3>1, <1>p DEF QueuedOnce
      <4> QED  BY <4>1, <2>2, <1>q
    <3> QED  BY <3>1 DEF QueuedOnce
  <2>12. WorkersRunning'
    BY <2>4, <2>6, <2>7, <1>t, <1>p DEF WorkersRunning
  <2>13. OneWorkerEach'
    BY <2>6, <2>7, <1>p DEF OneWorkerEach
  <2>14. CollectedFinished'
    BY <2>1, <2>3, <2>4, <1>t, <1>p, <1>f, <1>s DEF CollectedFinished
  <2> QED  BY <2>8, <2>9, <2>10, <2>11, <2>12, <2>13, <2>14 DEF PoolConsistent
<1>5. ASSUME NEW w \in Workers, Yield(w) PROVE PoolConsistent'
  <2>1. /\ pc' = pc /\ next' = next /\ queue' = queue /\ future' = future
        /\ collected' = collected
    BY <1>5 DEF Yield
  <2>2. \A v \in Workers : worker'[v].job = worker[v].job
    BY <1>5, <1>t DEF Yield
  <2>3. WorkersRunning' /\ OneWorkerEach'
    BY <2>1, <2>2, <1>p DEF WorkersRunning, OneWorkerEach
  <2> QED
    BY <2>1, <2>3, <1>p, <1>s, <1>t DEF PoolConsistent, CallerOnTrack, RestUnsubmitted,
      QueuePending, QueuedOnce, CollectedFinished
<1>6. ASSUME NEW w \in Workers, Return(w) \/ Raise(w) PROVE PoolConsistent'
  <2> DEFINE r == worker[w].job
  <2>1. /\ r # NoJob /\ worker' = [worker EXCEPT ![w] = Idle]
        /\ \E f : f.state \in {"returned"} \cup Exceptions /\ future' = [future EXCEPT ![r] = f]
        /\ pc' = pc /\ next' = next /\ queue' = queue /\ collected' = collected
    BY <1>6 DEF Return, Raise, InState
  <2>2. r \in JobIds
    BY <2>1, <1>t
  <2>3. /\ future'[r].state \in {"returned"} \cup Exceptions
        /\ \A j \in JobIds : j # r => future'[j] = future[j]
    BY <2>1, <2>2, <1>t
  <2>4. worker'[w].job = NoJob /\ \A v \in Workers : v # w => worker'[v] = worker[v]
    BY <2>1, <1>t DEF Idle
  <2>5. future[r].state = "running" /\ \A v \in Workers : v # w => worker[v].job # r
    BY <2>1, <1>p DEF WorkersRunning, OneWorkerEach
  <2> HIDE DEF r
  <2>6. CallerOnTrack'
    BY <2>1, <1>p DEF CallerOnTrack
  <2>7. RestUnsubmitted'
    BY <2>1, <2>3, <2>5, <1>p DEF RestUnsubmitted
  <2>8. QueuePending'
    BY <2>1, <2>3, <2>5, <1>q, <1>p DEF QueuePending
  <2>9. QueuedOnce'
    BY <2>1, <1>p DEF QueuedOnce
  <2>10. WorkersRunning'
    BY <2>3, <2>4, <2>5, <1>t, <1>p DEF WorkersRunning
  <2>11. OneWorkerEach'
    BY <2>4, <1>p DEF OneWorkerEach
  <2>12. CollectedFinished'
    BY <2>1, <2>3, <2>5, <1>t, <1>p, <1>f, <1>s DEF CollectedFinished
  <2> QED  BY <2>6, <2>7, <2>8, <2>9, <2>10, <2>11, <2>12 DEF PoolConsistent
<1>7. CASE UNCHANGED vars
  BY <1>7, <1>p DEF vars, PoolConsistent, CallerOnTrack, RestUnsubmitted, QueuePending,
    QueuedOnce, WorkersRunning, OneWorkerEach, CollectedFinished, Finished, Answered, Failed, Absent
<1> QED
  BY <1>1, <1>2, <1>3, <1>4, <1>5, <1>6, <1>7 DEF Next, Caller, WorkerStep

-------------------------------------------------------------------------------
(***************************************************************************)
(* A collected future never changes: no worker still holds its pair and    *)
(* the queue does not either.                                              *)
(***************************************************************************)
LEMMA CollectedFrozen ==
  ASSUME TypeOK, PoolConsistent, [Next]_vars
  PROVE  \A j \in collected : future'[j] = future[j]
<1>t. /\ attempted \in Nat /\ JobIds = 1 .. attempted
      /\ next \in 1 .. attempted + 1
      /\ queue \in Seq(JobIds)
      /\ DOMAIN future = JobIds /\ collected \subseteq JobIds
  BY JobsType DEF TypeOK
<1>1. \A j \in collected : future[j].state \notin {"unsubmitted", "pending", "running"}
  BY DEF PoolConsistent, CollectedFinished, Finished, Answered, Failed, Absent, Errors, Unconnected
<1>2. CASE Submit
  <2>1. next \in JobIds /\ future[next].state = "unsubmitted"
    BY <1>2, <1>t DEF Submit, PoolConsistent, CallerOnTrack, RestUnsubmitted
  <2> QED  BY <1>2, <2>1, <1>1, <1>t DEF Submit
<1>3. ASSUME NEW w \in Workers, Take(w) PROVE \A j \in collected : future'[j] = future[j]
  <2>1. Head(queue) = queue[1] /\ 1 \in DOMAIN queue
    BY <1>3, <1>t DEF Take
  <2>2. future[Head(queue)].state = "pending"
    BY <2>1 DEF PoolConsistent, QueuePending
  <2> QED  BY <1>3, <2>2, <1>1, <1>t DEF Take
<1>4. ASSUME NEW w \in Workers, Return(w) \/ Raise(w)
      PROVE  \A j \in collected : future'[j] = future[j]
  <2>1. future[worker[w].job].state = "running"
    BY <1>4 DEF Return, Raise, PoolConsistent, WorkersRunning
  <2> QED  BY <1>4, <2>1, <1>1, <1>t DEF Return, Raise
<1>5. ASSUME future' = future PROVE \A j \in collected : future'[j] = future[j]
  BY <1>5
<1> QED
  BY <1>2, <1>3, <1>4, <1>5
  DEF Next, Caller, WorkerStep, Finish, Collect, Yield, vars

(***************************************************************************)
(* The three lists of the result account for the collected pairs.          *)
(***************************************************************************)
LEMMA SettledStep ==
  TypeOK /\ PoolConsistent /\ Settled /\ [Next]_vars => Settled'
<1> SUFFICES ASSUME TypeOK, PoolConsistent, Settled, [Next]_vars PROVE Settled'
  OBVIOUS
<1>t. JobIds = 1 .. attempted /\ attempted \in Nat /\ collected \subseteq JobIds
  BY JobsType DEF TypeOK
<1>u. findings \in Seq(Finding) /\ errors \in Seq(ScanError) /\ unavailable \in Nat
  BY DEF TypeOK
<1>z. \A j \in collected : future'[j] = future[j]
  BY CollectedFrozen
<1>y. \A j \in JobIds : future'[j] = future[j] =>
        /\ Failed(j)' = Failed(j) /\ Absent(j)' = Absent(j) /\ Answered(j)' = Answered(j)
        /\ FindingsOf(j)' = FindingsOf(j)
  BY DEF Failed, Absent, Answered, FindingsOf, RegionOf
<1>x. /\ {k \in collected : Failed(k)'} = FailedPairs
      /\ {k \in collected : Absent(k)'} = AbsentPairs
      /\ {k \in collected : Answered(k)'} = {k \in collected : Answered(k)}
      /\ \A k \in collected : FindingsOf(k)' = FindingsOf(k)
  BY <1>t, <1>z, <1>y DEF FailedPairs, AbsentPairs
<1>1. ASSUME UNCHANGED <<collected, errors, unavailable>>, Elements(findings)' = Elements(findings)
      PROVE  Settled'
  BY <1>1, <1>x DEF Settled, FailedPairs, AbsentPairs, FoundBy
<1>2. ASSUME NEW j \in JobIds, Collect(j) PROVE Settled'
  <2>1. /\ j \notin collected /\ collected' = collected \cup {j} /\ future' = future
    BY <1>2 DEF Collect
  <2>2. /\ IsFiniteSet(FailedPairs) /\ Cardinality(FailedPairs) \in Nat
        /\ IsFiniteSet(AbsentPairs) /\ Cardinality(AbsentPairs) \in Nat
        /\ j \notin FailedPairs /\ j \notin AbsentPairs
    <3>1. IsFiniteSet(JobIds)
      BY <1>t, FS_Interval
    <3>2. FailedPairs \in SUBSET JobIds /\ AbsentPairs \in SUBSET JobIds
      BY <1>t DEF FailedPairs, AbsentPairs
    <3> QED  BY <3>1, <3>2, <2>1, FS_Subset, FS_CardinalityType DEF FailedPairs, AbsentPairs
  <2>3. /\ FailedPairs' = IF Failed(j) THEN FailedPairs \cup {j} ELSE FailedPairs
        /\ AbsentPairs' = IF Absent(j) THEN AbsentPairs \cup {j} ELSE AbsentPairs
    BY <2>1, <1>y, <1>t DEF FailedPairs, AbsentPairs
  <2>4. FoundBy(collected)' =
          IF Answered(j) THEN FoundBy(collected) \cup Elements(FindingsOf(j)) ELSE FoundBy(collected)
    <3>1. \A k \in JobIds : Answered(k)' = Answered(k) /\ FindingsOf(k)' = FindingsOf(k)
      BY <2>1, <1>y
    <3>2. Elements(FindingsOf(j))' = Elements(FindingsOf(j))
      BY <3>1 DEF Elements
    <3>3. {k \in collected' : Answered(k)'} =
            IF Answered(j) THEN {k \in collected : Answered(k)} \cup {j}
            ELSE {k \in collected : Answered(k)}
      BY <2>1, <3>1, <1>t
    <3>4. \A k \in JobIds : Elements(FindingsOf(k)') = Elements(FindingsOf(k))
      BY <3>1
    <3> QED  BY <3>1, <3>3, <3>4, <1>t DEF FoundBy
  <2>5. CASE KeepFindings(j)
    <3>1. Answered(j) /\ ~ Failed(j) /\ ~ Absent(j)
      BY <2>5 DEF KeepFindings, Answered, Failed, Absent, Errors, Unconnected
    <3>2. findings' = findings \o FindingsOf(j) /\ errors' = errors /\ unavailable' = unavailable
      BY <2>5 DEF KeepFindings
    <3>3. Elements(findings') = Elements(findings) \cup Elements(FindingsOf(j))
      BY <3>2, <1>u, FindingsType, ConcatElements
    <3> QED  BY <2>3, <2>4, <3>1, <3>2, <3>3 DEF Settled
  <2>6. CASE RecordError(j)
    <3>1. ~ Answered(j) /\ Failed(j) /\ ~ Absent(j)
      BY <2>6 DEF RecordError, Answered, Failed, Absent, Errors, Unconnected
    <3>2. findings' = findings /\ Len(errors') = Len(errors) + 1 /\ unavailable' = unavailable
      BY <2>6, <1>u DEF RecordError
    <3>3. Cardinality(FailedPairs') = Cardinality(FailedPairs) + 1
      BY <2>2, <2>3, <3>1, FS_AddElement
    <3> QED  BY <2>3, <2>4, <3>1, <3>2, <3>3 DEF Settled
  <2>7. CASE CountUnavailable(j)
    <3>1. ~ Answered(j) /\ ~ Failed(j) /\ Absent(j)
      BY <2>7 DEF CountUnavailable, Answered, Failed, Absent, Errors, Unconnected
    <3>2. findings' = findings /\ errors' = errors /\ unavailable' = unavailable + 1
      BY <2>7 DEF CountUnavailable
    <3>3. Cardinality(AbsentPairs') = Cardinality(AbsentPairs) + 1
      BY <2>2, <2>3, <3>1, FS_AddElement
    <3> QED  BY <2>3, <2>4, <3>1, <3>2, <3>3 DEF Settled
  <2> QED  BY <1>2, <2>5, <2>6, <2>7 DEF Collect
<1>3. CASE Finish
  <2>1. PICK p \in Rearrangements(DOMAIN findings) :
          findings' = [i \in DOMAIN findings |-> findings[p[i]]]
    BY <1>3 DEF Finish
  <2>2. /\ p \in [DOMAIN findings -> DOMAIN findings]
        /\ \A y \in DOMAIN findings : \E x \in DOMAIN findings : p[x] = y
    BY DEF Rearrangements
  <2>3. Elements(findings') = Elements(findings)
    BY <2>1, <2>2 DEF Elements
  <2> QED  BY <1>1, <1>3, <2>3 DEF Finish, Elements
<1>4. CASE Submit \/ \E w \in Workers : WorkerStep(w)
  BY <1>1, <1>4 DEF Submit, WorkerStep, Take, Yield, Return, Raise, result, Elements
<1>5. CASE UNCHANGED vars
  BY <1>1, <1>5 DEF vars, Elements
<1> QED  BY <1>2, <1>3, <1>4, <1>5 DEF Next, Caller

-------------------------------------------------------------------------------
LEMMA InitHolds == Init => TypeOK /\ PoolConsistent /\ Settled
<1> SUFFICES ASSUME Init PROVE TypeOK /\ PoolConsistent /\ Settled
  OBVIOUS
<1>t. attempted \in Nat /\ JobIds = 1 .. attempted
  BY JobsType
<1>2. TypeOK
  BY <1>t DEF Init, TypeOK, InState, Idle, FutureState
<1>5. CallerOnTrack
  BY <1>t DEF Init, CallerOnTrack
<1>6. PoolConsistent
  BY <1>5 DEF Init, PoolConsistent, RestUnsubmitted, QueuePending, QueuedOnce, WorkersRunning,
    OneWorkerEach, CollectedFinished, InState, Idle
<1>7. Elements(findings) = {} /\ FoundBy(collected) = {}
  BY DEF Init, Elements, FoundBy
<1>8. FailedPairs = {} /\ AbsentPairs = {}
  BY DEF Init, FailedPairs, AbsentPairs
<1>9. Settled
  BY <1>7, <1>8, FS_EmptySet DEF Init, Settled
<1> QED  BY <1>2, <1>6, <1>9

IInv == TypeOK /\ PoolConsistent /\ Settled

LEMMA InductiveInvariant == Spec => []IInv
<1>1. Init => IInv
  BY InitHolds DEF IInv
<1>2. IInv /\ [Next]_vars => IInv'
  BY TypeStep, PoolStep, SettledStep DEF IInv
<1> QED  BY <1>1, <1>2, PTL DEF Spec

(***************************************************************************)
(* Type correctness of every reachable state of every scan (engine.py:     *)
(* 168-210).                                                               *)
(***************************************************************************)
THEOREM TypeCorrect == Spec => []TypeOK
<1>1. IInv => TypeOK
  BY DEF IInv
<1> QED  BY <1>1, InductiveInvariant, PTL

(***************************************************************************)
(* For every number of workers and pairs, each pair is run by one worker,  *)
(* once, and a collected future is final (engine.py:185-190).              *)
(***************************************************************************)
THEOREM PoolIsConsistent == Spec => []PoolConsistent
<1>1. IInv => PoolConsistent
  BY DEF IInv
<1> QED  BY <1>1, InductiveInvariant, PTL

(***************************************************************************)
(* In every interleaving the result accounts for exactly the pairs         *)
(* collected: errors for the failed ones, the counter for the absent ones, *)
(* findings for the ones that answered (engine.py:190-207).                *)
(***************************************************************************)
THEOREM EveryPairIsAccounted == Spec => []Settled
<1>1. IInv => Settled
  BY DEF IInv
<1> QED  BY <1>1, InductiveInvariant, PTL

-------------------------------------------------------------------------------
(***************************************************************************)
(* Every collected pair came out in exactly one of three ways, so the two  *)
(* counters add up to the number of pairs only if no pair answered.        *)
(***************************************************************************)
LEMMA CompletelyFailedIsHonest ==
  ASSUME IInv, collected = JobIds
  PROVE  CompletelyFailed <=> JobIds # {} /\ {j \in JobIds : Answered(j)} = {}
<1>t. JobIds = 1 .. attempted /\ attempted \in Nat
  BY JobsType
<1> DEFINE Settling == FailedPairs \cup AbsentPairs
<1>1. /\ IsFiniteSet(JobIds) /\ Cardinality(JobIds) = attempted
  BY <1>t, FS_Interval
<1>2. Settling \subseteq JobIds /\ FailedPairs \subseteq JobIds /\ AbsentPairs \subseteq JobIds
  BY DEF IInv, TypeOK, FailedPairs, AbsentPairs
<1>3. FailedPairs \cap AbsentPairs = {}
  BY DEF FailedPairs, AbsentPairs, Failed, Absent, Errors, Unconnected
<1>4. IsFiniteSet(FailedPairs) /\ IsFiniteSet(AbsentPairs)
  BY <1>1, <1>2, FS_Subset
<1>5. Cardinality(Settling) = Cardinality(FailedPairs) + Cardinality(AbsentPairs)
  <2>1. Cardinality(FailedPairs \cap AbsentPairs) = 0
    BY <1>3, FS_EmptySet
  <2>2. Cardinality(FailedPairs) \in Nat /\ Cardinality(AbsentPairs) \in Nat
    BY <1>4, FS_CardinalityType
  <2>3. Cardinality(Settling) =
          Cardinality(FailedPairs) + Cardinality(AbsentPairs) - Cardinality(FailedPairs \cap AbsentPairs)
    BY <1>4, FS_Union, Zenon
  <2> QED  BY <2>1, <2>2, <2>3
<1>6. Settling = JobIds <=> {j \in JobIds : Answered(j)} = {}
  <2>1. \A j \in JobIds : j \in Settling <=> ~ Answered(j)
    BY DEF IInv, PoolConsistent, CollectedFinished, Finished, FailedPairs, AbsentPairs,
      Answered, Failed, Absent, Errors, Unconnected
  <2> QED  BY <2>1, <1>2
<1>7. Cardinality(Settling) = Cardinality(JobIds) <=> Settling = JobIds
  BY <1>1, <1>2, FS_Subset
<1>8. Len(errors) + unavailable = Cardinality(Settling)
  BY <1>5 DEF IInv, Settled
<1> HIDE DEF Settling
<1>9. JobIds # {} <=> attempted > 0
  BY <1>t
<1> QED  BY <1>1, <1>6, <1>7, <1>8, <1>9 DEF CompletelyFailed

-------------------------------------------------------------------------------
(***************************************************************************)
(* The refinement: the verdicts and the report that the scan's state       *)
(* stands for.                                                             *)
(***************************************************************************)
Verdicts == [j \in JobIds |-> VerdictOf(j)]
Report == IF pc = "done" THEN Published ELSE NothingYet

LEMMA SameCardinality == \A S : Contract!Cardinality(S) = Cardinality(S)
BY DEF Contract!Cardinality, Cardinality, Contract!IsFiniteSet, IsFiniteSet

\* What the caller is given at the end is the summary of the verdicts.
LEMMA PublishedIsSummary ==
  ASSUME IInv, collected = JobIds
  PROVE  Published = Contract!Summary
<1>t. JobIds = 1 .. attempted /\ attempted \in Nat
  BY JobsType
<1>1. \A j \in JobIds :
        /\ Verdicts[j].is = IF Answered(j) THEN "answered" ELSE IF Failed(j) THEN "failed" ELSE "absent"
        /\ Verdicts[j].found = IF Answered(j) THEN Elements(FindingsOf(j)) ELSE {}
  BY DEF Verdicts, VerdictOf
<1>2. \A j \in JobIds : Finished(j) /\ ~ (Failed(j) /\ Absent(j))
        /\ ~ (Answered(j) /\ Failed(j)) /\ ~ (Answered(j) /\ Absent(j))
  BY DEF IInv, PoolConsistent, CollectedFinished, Finished, Answered, Failed, Absent, Errors,
    Unconnected
<1>3. {j \in JobIds : Verdicts[j].is = "failed"} = FailedPairs
  <2>1. \A j \in JobIds : Verdicts[j].is = "failed" <=> Failed(j)
    BY <1>1, <1>2
  <2> QED  BY <2>1 DEF FailedPairs
<1>4. {j \in JobIds : Verdicts[j].is = "absent"} = AbsentPairs
  <2>1. \A j \in JobIds : Verdicts[j].is = "absent" <=> Absent(j)
    BY <1>1, <1>2 DEF Finished
  <2> QED  BY <2>1 DEF AbsentPairs
<1>5. {j \in JobIds : Verdicts[j].is = "answered"} = {j \in JobIds : Answered(j)}
  <2>1. \A j \in JobIds : Verdicts[j].is = "answered" <=> Answered(j)
    BY <1>1
  <2> QED  BY <2>1
<1>6. UNION {Verdicts[j].found : j \in JobIds} = FoundBy(collected)
  <2>1. FoundBy(collected) \subseteq UNION {Verdicts[j].found : j \in JobIds}
    BY <1>1 DEF FoundBy
  <2>2. UNION {Verdicts[j].found : j \in JobIds} \subseteq FoundBy(collected)
    <3> SUFFICES ASSUME NEW j \in JobIds, NEW f \in Verdicts[j].found PROVE f \in FoundBy(collected)
      OBVIOUS
    <3>1. Answered(j) /\ f \in Elements(FindingsOf(j))
      BY <1>1
    <3> QED  BY <3>1 DEF FoundBy
  <2> QED  BY <2>1, <2>2
<1>7. CompletelyFailed <=> JobIds # {} /\ {j \in JobIds : Answered(j)} = {}
  BY CompletelyFailedIsHonest
<1>8. /\ Len(errors) = Cardinality(FailedPairs) /\ unavailable = Cardinality(AbsentPairs)
      /\ Elements(findings) = FoundBy(collected)
  BY DEF IInv, Settled
<1>9. CompletelyFailed \in BOOLEAN
  BY DEF CompletelyFailed
<1> QED
  BY <1>3, <1>4, <1>5, <1>6, <1>7, <1>8, <1>9, SameCardinality
  DEF Published, Contract!Summary, Contract!Came, Verdicts

LEMMA ContractInitHolds == Init => Contract!ContractInit
<1> SUFFICES ASSUME Init PROVE Contract!ContractInit
  OBVIOUS
<1>1. IInv
  BY InitHolds DEF IInv
<1>2. Verdicts = [j \in JobIds |-> Contract!Open]
  BY DEF Init, Verdicts, VerdictOf, Contract!Open
<1>3. CASE attempted = 0
  <2>1. JobIds = {} /\ collected = JobIds /\ pc = "done"
    BY <1>3, JobsType DEF Init
  <2>2. Report = Contract!Summary
    BY <1>1, <2>1, PublishedIsSummary DEF Report
  <2> QED  BY <1>2, <2>1, <2>2 DEF Contract!ContractInit, Verdicts, Report
<1>4. CASE attempted # 0
  <2>1. Report = Contract!NotYet
    BY <1>4 DEF Init, Report, NothingYet, Contract!NotYet
  <2> QED  BY <1>2, <2>1 DEF Contract!ContractInit, Verdicts, Report
<1> QED  BY <1>3, <1>4

LEMMA ContractStep == IInv /\ [Next]_vars => [Contract!ContractNext]_(Contract!contractVars)
<1> SUFFICES ASSUME IInv, [Next]_vars
             PROVE  [Contract!ContractNext]_(Contract!contractVars)
  OBVIOUS
<1>t. JobIds = 1 .. attempted /\ attempted \in Nat /\ collected \subseteq JobIds /\ TypeOK
  BY JobsType DEF IInv, TypeOK
<1>f. \A j \in collected : future'[j] = future[j]
  BY CollectedFrozen DEF IInv
<1>v. \A j \in JobIds : future'[j] = future[j] /\ (j \in collected' <=> j \in collected)
        => VerdictOf(j)' = VerdictOf(j)
  BY DEF VerdictOf, Answered, Failed, FindingsOf, RegionOf, Elements
<1>w. \A j \in JobIds : j \notin collected /\ j \notin collected' => VerdictOf(j)' = VerdictOf(j)
  BY DEF VerdictOf
<1>2. CASE Submit
  <2>1. pc # "done" /\ pc' # "done" /\ collected' = collected
    BY <1>2 DEF Submit
  <2>2. \A j \in JobIds : VerdictOf(j)' = VerdictOf(j)
    BY <2>1, <1>f, <1>v, <1>w
  <2> QED  BY <2>1, <2>2 DEF Contract!contractVars, NothingYet
<1>3. CASE Finish
  <2>1. pc = "collecting" /\ pc' = "done" /\ collected = JobIds
    BY <1>3 DEF Finish
  <2>2. UNCHANGED <<collected, future, errors, unavailable>>
    BY <1>3 DEF Finish
  <2>3. \A j \in JobIds : VerdictOf(j)' = VerdictOf(j)
    BY <2>1, <2>2, <1>f, <1>v
  <2>4. Elements(findings') = Elements(findings)
    <3>1. PICK p \in Rearrangements(DOMAIN findings) :
            findings' = [i \in DOMAIN findings |-> findings[p[i]]]
      BY <1>3 DEF Finish
    <3>2. /\ p \in [DOMAIN findings -> DOMAIN findings]
          /\ \A y \in DOMAIN findings : \E x \in DOMAIN findings : p[x] = y
      BY DEF Rearrangements
    <3> QED  BY <3>1, <3>2 DEF Elements
  <2>5. Published' = Published
    BY <2>2, <2>4 DEF Published, CompletelyFailed, Elements
  <2>6. Published = Contract!Summary
    BY <2>1, PublishedIsSummary
  <2>7. Contract!Came("open") = {}
    BY <2>1 DEF Contract!Came, VerdictOf
  <2> QED
    BY <2>1, <2>3, <2>5, <2>6, <2>7
    DEF Contract!ContractNext, Contract!Publish, NothingYet
<1>4. ASSUME NEW j \in JobIds, Collect(j)
      PROVE  Contract!ContractNext
  <2>1. /\ pc = "collecting" /\ pc' = pc /\ j \notin collected /\ collected' = collected \cup {j}
        /\ future' = future
    BY <1>4 DEF Collect
  <2>2. \A k \in JobIds : k # j => VerdictOf(k)' = VerdictOf(k)
    BY <2>1, <1>v
  <2>3. VerdictOf(j) = Contract!Open
    BY <2>1 DEF VerdictOf, Contract!Open
  <2>4. FoundBy({j}) \subseteq Finding
    <3>1. FindingsOf(j) \in Seq(Finding)
      BY <1>t, FindingsType
    <3>2. Elements(FindingsOf(j)) \subseteq Finding
      BY <3>1 DEF Elements
    <3> QED  BY <3>2 DEF FoundBy
  <2>5. Answered(j)' = Answered(j) /\ Failed(j)' = Failed(j)
          /\ Elements(FindingsOf(j))' = Elements(FindingsOf(j))
    BY <2>1 DEF Answered, Failed, FindingsOf, RegionOf, Elements
  <2>6. Answered(j) => Elements(FindingsOf(j)) \subseteq Finding
    BY <2>4 DEF FoundBy
  <2>7. /\ VerdictOf(j)' \in Contract!Verdict
        /\ VerdictOf(j)'.is # "open"
        /\ VerdictOf(j)'.is # "answered" => VerdictOf(j)'.found = {}
    BY <2>1, <2>5, <2>6 DEF VerdictOf, Contract!Verdict
  <2>8. Contract!Settle(j)
    <3> DEFINE V == [k \in JobIds |-> VerdictOf(k)]
    <3>1. V[j] = VerdictOf(j) /\ V'[j] = VerdictOf(j)'
      OBVIOUS
    <3>2. V' = [V EXCEPT ![j] = V'[j]]
      BY <2>2, <3>1
    <3>3. UNCHANGED (IF pc = "done" THEN Published ELSE NothingYet)
      BY <2>1 DEF NothingYet
    <3> QED  BY <2>3, <2>7, <3>1, <3>2, <3>3 DEF Contract!Settle
  <2> QED  BY <2>8 DEF Contract!ContractNext
<1>5. CASE \E w \in Workers : WorkerStep(w)
  <2>1. UNCHANGED <<pc, collected, findings, errors, unavailable>>
    BY <1>5 DEF WorkerStep, Take, Yield, Return, Raise, result
  <2>2. \A j \in JobIds : VerdictOf(j)' = VerdictOf(j)
    BY <2>1, <1>f, <1>v, <1>w
  <2> QED
    BY <2>1, <2>2 DEF Contract!contractVars, Published, NothingYet, CompletelyFailed, Elements
<1>6. CASE UNCHANGED vars
  BY <1>6 DEF vars, Contract!contractVars, VerdictOf, Answered, Failed, FindingsOf, RegionOf,
    Elements, Published, NothingYet, CompletelyFailed
<1> QED  BY <1>2, <1>3, <1>4, <1>5, <1>6 DEF Next, Caller

(***************************************************************************)
(* For every scan, whatever the order of completion: each pair is settled  *)
(* once, and what the caller is handed is the sum of those verdicts, with  *)
(* completely_failed saying truly that no pair answered (engine.py:53-60,  *)
(* 185-210).                                                               *)
(***************************************************************************)
THEOREM ScanMeetsContract == Spec => MeetsContract
<1>1. Init => Contract!ContractInit
  BY ContractInitHolds
<1>2. IInv /\ [Next]_vars => [Contract!ContractNext]_(Contract!contractVars)
  BY ContractStep
<1> QED  BY <1>1, <1>2, InductiveInvariant, PTL DEF Spec, MeetsContract, Contract!ContractSpec

-------------------------------------------------------------------------------
(***************************************************************************)
(* That no finding is lost or doubled: each place of the report holds what *)
(* one place of one pair's list yielded, and each of those has one place.  *)
(***************************************************************************)
NoRepeat(s) == \A i, k \in DOMAIN s : s[i] = s[k] => i = k

YieldsOnce ==
  /\ \A w \in Workers : NoRepeat(worker[w].got)
  /\ \A j \in JobIds : NoRepeat(future[j].found) /\ (Answered(j) \/ future[j].found = <<>>)

YieldedBy(J) == {p \in J \X Nat : p[2] \in DOMAIN future[p[1]].found}

Placed(place) ==
  /\ place \in [DOMAIN findings -> YieldedBy(collected)]
  /\ \A i, k \in DOMAIN findings : place[i] = place[k] => i = k
  /\ \A p \in YieldedBy(collected) : \E i \in DOMAIN findings : place[i] = p
  /\ \A i \in DOMAIN findings : findings[i] = FindingsOf(place[i][1])[place[i][2]]

Kept == \E place : Placed(place)

Sorted ==
  pc = "done" =>
    \A i, k \in DOMAIN findings : i < k => ~ SortsBefore(findings[k], findings[i])

LEMMA AppendRepeatsNothing ==
  ASSUME NEW S, NEW s \in Seq(S), NEW x \in S, x \notin Elements(s), NoRepeat(s)
  PROVE  NoRepeat(Append(s, x))
<1>1. /\ Len(s) \in Nat /\ DOMAIN s = 1 .. Len(s) /\ DOMAIN Append(s, x) = 1 .. Len(s) + 1
      /\ Append(s, x)[Len(s) + 1] = x /\ \A i \in DOMAIN s : Append(s, x)[i] = s[i]
  OBVIOUS
<1>2. \A i \in DOMAIN s : s[i] # x
  BY DEF Elements
<1>3. \A i \in 1 .. Len(s) + 1 : i \in DOMAIN s \/ i = Len(s) + 1
  BY <1>1
<1> QED BY <1>1, <1>2, <1>3 DEF NoRepeat

\* A check's list never holds a resource twice, and a check that raises has none.
LEMMA YieldsOnceStep == TypeOK /\ PoolConsistent /\ YieldsOnce /\ [Next]_vars => YieldsOnce'
<1> SUFFICES ASSUME TypeOK, PoolConsistent, YieldsOnce, [Next]_vars PROVE YieldsOnce'
  OBVIOUS
<1>t. /\ worker \in [Workers -> [job : JobIds \cup {NoJob}, got : Seq(Resource)]]
      /\ future \in [JobIds -> [state : FutureState, found : Seq(Resource)]]
  BY DEF TypeOK
<1>e. NoRepeat(<<>>)
  BY DEF NoRepeat
<1>1. ASSUME NEW j, NEW f, NoRepeat(f.found), f.state = "returned" \/ f.found = <<>>,
             future' = [future EXCEPT ![j] = f]
      PROVE  \A i \in JobIds :
               NoRepeat(future'[i].found) /\ (Answered(i)' \/ future'[i].found = <<>>)
  BY <1>1, <1>t DEF YieldsOnce, Answered
<1>2. ASSUME future' = future
      PROVE  \A i \in JobIds :
               NoRepeat(future'[i].found) /\ (Answered(i)' \/ future'[i].found = <<>>)
  BY <1>2 DEF YieldsOnce, Answered
<1>3. ASSUME NEW v, NEW g, NoRepeat(g.got), worker' = [worker EXCEPT ![v] = g]
      PROVE  \A w \in Workers : NoRepeat(worker'[w].got)
  BY <1>3, <1>t DEF YieldsOnce
<1>4. ASSUME worker' = worker PROVE \A w \in Workers : NoRepeat(worker'[w].got)
  BY <1>4 DEF YieldsOnce
<1>5. CASE Submit
  <2>1. future' = [future EXCEPT ![next] = InState("pending")] /\ InState("pending").found = <<>>
    BY <1>5 DEF Submit, InState
  <2>2. worker' = worker
    BY <1>5 DEF Submit
  <2>3. \A i \in JobIds : NoRepeat(future'[i].found) /\ (Answered(i)' \/ future'[i].found = <<>>)
    BY <2>1, <1>1, <1>e
  <2> QED BY <2>2, <2>3, <1>4 DEF YieldsOnce
<1>6. ASSUME NEW w \in Workers, Take(w) PROVE YieldsOnce'
  <2> DEFINE g == [job |-> Head(queue), got |-> <<>>]
  <2>1. /\ future' = [future EXCEPT ![Head(queue)] = InState("running")]
        /\ InState("running").found = <<>>
        /\ worker' = [worker EXCEPT ![w] = g] /\ g.got = <<>>
    BY <1>6 DEF Take, InState
  <2> HIDE DEF g
  <2>2. \A i \in JobIds : NoRepeat(future'[i].found) /\ (Answered(i)' \/ future'[i].found = <<>>)
    BY <2>1, <1>1, <1>e
  <2>3. \A v \in Workers : NoRepeat(worker'[v].got)
    BY <2>1, <1>3, <1>e
  <2> QED BY <2>2, <2>3 DEF YieldsOnce
<1>7. ASSUME NEW w \in Workers, Yield(w) PROVE YieldsOnce'
  <2>1. PICK x \in Resources[Jobs[worker[w].job].check] \ Elements(worker[w].got) :
          worker' = [worker EXCEPT ![w] =
                       [job |-> worker[w].job, got |-> Append(worker[w].got, x)]]
    BY <1>7 DEF Yield
  <2>2. worker[w].got \in Seq(Resource \cup {x})
    BY <1>t
  <2>3. NoRepeat(Append(worker[w].got, x))
    BY <2>1, <2>2, AppendRepeatsNothing DEF YieldsOnce
  <2> DEFINE g == [job |-> worker[w].job, got |-> Append(worker[w].got, x)]
  <2>4. NoRepeat(g.got) /\ worker' = [worker EXCEPT ![w] = g] /\ future' = future
    BY <1>7, <2>1, <2>3 DEF Yield
  <2> HIDE DEF g
  <2> QED BY <2>4, <1>2, <1>3 DEF YieldsOnce
<1>8. ASSUME NEW w \in Workers, Return(w) PROVE YieldsOnce'
  <2> DEFINE f == [state |-> "returned", found |-> worker[w].got]
             j == worker[w].job
  <2>1. /\ future' = [future EXCEPT ![j] = f] /\ f.state = "returned" /\ f.found = worker[w].got
        /\ worker' = [worker EXCEPT ![w] = Idle] /\ Idle.got = <<>>
    BY <1>8 DEF Return, Idle
  <2>2. NoRepeat(f.found)
    BY DEF YieldsOnce
  <2> HIDE DEF f, j
  <2> QED BY <2>1, <2>2, <1>1, <1>3, <1>e DEF YieldsOnce
<1>9. ASSUME NEW w \in Workers, Raise(w) PROVE YieldsOnce'
  <2> DEFINE j == worker[w].job
  <2>1. PICK e \in Exceptions : future' = [future EXCEPT ![j] = InState(e)]
    BY <1>9 DEF Raise
  <2>2. InState(e).found = <<>> /\ worker' = [worker EXCEPT ![w] = Idle] /\ Idle.got = <<>>
    BY <1>9 DEF Raise, Idle, InState
  <2> HIDE DEF j
  <2> QED BY <2>1, <2>2, <1>1, <1>3, <1>e DEF YieldsOnce
<1>10. ASSUME future' = future, worker' = worker PROVE YieldsOnce'
  BY <1>2, <1>4, <1>10 DEF YieldsOnce
<1> QED
  BY <1>5, <1>6, <1>7, <1>8, <1>9, <1>10 DEF Next, Caller, WorkerStep, Finish, Collect, pool, vars

\* What was kept stays in its place while nothing is collected.
LEMMA KeptStays ==
  ASSUME TypeOK, PoolConsistent, Kept, [Next]_vars, findings' = findings, collected' = collected
  PROVE  Kept'
<1>1. PICK place : Placed(place)
  BY DEF Kept
<1>2. \A j \in collected : future'[j] = future[j] /\ FindingsOf(j)' = FindingsOf(j)
  BY CollectedFrozen DEF FindingsOf, RegionOf
<1>3. YieldedBy(collected)' = YieldedBy(collected)
  BY <1>2 DEF YieldedBy
<1>4. \A i \in DOMAIN findings : place[i][1] \in collected
  BY <1>1 DEF Placed, YieldedBy
<1>5. Placed(place)'
  BY <1>1, <1>2, <1>3, <1>4 DEF Placed
<1> QED BY <1>5 DEF Kept

\* The answer of a pair is put after those before it.
LEMMA KeptCollects ==
  ASSUME TypeOK, YieldsOnce, Kept, NEW j \in JobIds, Collect(j)
  PROVE  Kept'
<1>1. PICK place : Placed(place)
  BY DEF Kept
<1>2. future' = future /\ collected' = collected \cup {j} /\ j \notin collected
  BY DEF Collect
<1>3. \A k \in JobIds : FindingsOf(k)' = FindingsOf(k)
  BY <1>2 DEF FindingsOf, RegionOf
<1>4. YieldedBy(collected)' = YieldedBy(collected) \cup ({j} \X DOMAIN future[j].found)
  <2>1. future[j].found \in Seq(Resource)
    BY DEF TypeOK
  <2>2. DOMAIN future[j].found \subseteq Nat
    BY <2>1
  <2> QED BY <1>2, <2>2 DEF YieldedBy
<1>t. findings \in Seq(Finding) /\ FindingsOf(j) \in Seq(Finding) /\ collected \subseteq JobIds
  BY FindingsType DEF TypeOK
<1>5. CASE KeepFindings(j)
  <2>n. PICK n \in Nat : n = Len(findings)
    BY <1>t
  <2>m. PICK m \in Nat : m = Len(FindingsOf(j))
    BY <1>t
  <2> DEFINE to == [i \in 1 .. n + m |-> IF i <= n THEN place[i] ELSE <<j, i - n>>]
  <2>1. findings' = findings \o FindingsOf(j)
    BY <1>5 DEF KeepFindings
  <2>2. /\ n \in Nat /\ m \in Nat /\ DOMAIN findings = 1 .. n /\ DOMAIN FindingsOf(j) = 1 .. m
        /\ DOMAIN findings' = 1 .. n + m
        /\ \A i \in 1 .. n : findings'[i] = findings[i]
        /\ \A i \in 1 .. n + m : ~ (i <= n) => findings'[i] = FindingsOf(j)[i - n] /\ i - n \in 1 .. m
    BY <2>1, <2>n, <2>m, <1>t
  <2>3. DOMAIN future[j].found = 1 .. m
    BY <2>2 DEF FindingsOf
  <2>p. /\ \A i, k \in 1 .. n : place[i] = place[k] => i = k
        /\ \A i \in 1 .. n : to[i] = place[i]
        /\ \A i \in 1 .. n + m : i <= n => i \in 1 .. n
    BY <1>1, <2>2 DEF Placed
  <2>4. \A i \in 1 .. n : place[i] \in YieldedBy(collected) /\ place[i][1] \in collected
    BY <1>1, <2>2 DEF Placed, YieldedBy
  <2>5. to \in [1 .. n + m -> YieldedBy(collected)']
    BY <1>4, <2>2, <2>3, <2>4
  <2>6. ASSUME NEW i \in 1 .. n + m, NEW k \in 1 .. n + m, to[i] = to[k] PROVE i = k
    <3>1. CASE i <= n /\ k <= n
      <4> HIDE DEF to
      <4> QED BY <2>6, <2>p, <3>1
    <3>2. CASE ~ (i <= n) /\ ~ (k <= n)
      <4>1. <<j, i - n>> = <<j, k - n>>
        BY <2>6, <3>2
      <4>2. i - n = k - n
        BY <4>1
      <4> QED BY <4>2, <2>2
    <3>3. ASSUME NEW a \in 1 .. n + m, NEW b \in 1 .. n + m, a <= n, ~ (b <= n) PROVE to[a] # to[b]
      <4>1. a \in 1 .. n /\ to[a] = place[a] /\ to[b] = <<j, b - n>>
        BY <3>3, <2>2
      <4>2. to[a][1] \in collected /\ to[b][1] = j
        BY <4>1, <2>4
      <4> QED BY <4>2, <1>2
    <3> QED BY <2>6, <3>1, <3>2, <3>3
  <2>7. ASSUME NEW p \in YieldedBy(collected)' PROVE \E i \in 1 .. n + m : to[i] = p
    <3>1. CASE p \in YieldedBy(collected)
      <4>1. PICK i \in 1 .. n : place[i] = p
        BY <1>1, <2>2, <3>1 DEF Placed
      <4>2. i \in 1 .. n + m /\ to[i] = p
        BY <4>1, <2>2
      <4> QED BY <4>2
    <3>2. CASE p \in {j} \X DOMAIN future[j].found
      <4>1. PICK k \in 1 .. m : p = <<j, k>>
        BY <3>2, <2>3
      <4>2. n + k \in 1 .. n + m /\ ~ (n + k <= n) /\ (n + k) - n = k
        BY <2>2
      <4>3. to[n + k] = p
        BY <4>1, <4>2
      <4> QED BY <4>2, <4>3
    <3> QED BY <3>1, <3>2, <1>4
  <2>8. ASSUME NEW i \in 1 .. n + m
        PROVE  findings'[i] = FindingsOf(to[i][1])'[to[i][2]]
    <3>1. CASE i <= n
      <4>1. i \in 1 .. n /\ to[i] = place[i]
        BY <3>1, <2>2
      <4>2. findings'[i] = FindingsOf(place[i][1])[place[i][2]]
        BY <4>1, <2>2, <1>1 DEF Placed
      <4>3. place[i][1] \in JobIds
        BY <4>1, <2>4, <1>t
      <4>4. FindingsOf(place[i][1])' = FindingsOf(place[i][1])
        BY <4>3, <1>3
      <4> HIDE DEF to
      <4> QED BY <4>1, <4>2, <4>4
    <3>2. CASE ~ (i <= n)
      <4>1. to[i] = <<j, i - n>> /\ findings'[i] = FindingsOf(j)[i - n]
        BY <3>2, <2>2
      <4> QED BY <4>1, <1>3
    <3> QED BY <3>1, <3>2
  <2> HIDE DEF to
  <2>9. Placed(to)'
    BY <2>2, <2>5, <2>6, <2>7, <2>8 DEF Placed
  <2> QED BY <2>9 DEF Kept
<1>6. CASE RecordError(j) \/ CountUnavailable(j)
  <2>1. findings' = findings /\ future[j].found = <<>>
    BY <1>6 DEF RecordError, CountUnavailable, Failed, Absent, Errors, Unconnected, YieldsOnce, Answered
  <2>2. YieldedBy(collected)' = YieldedBy(collected)
    BY <2>1, <1>4
  <2>3. \A i \in DOMAIN findings : place[i][1] \in JobIds
    BY <1>1, <1>t DEF Placed, YieldedBy
  <2>4. Placed(place)'
    BY <2>1, <2>2, <2>3, <1>1, <1>3 DEF Placed
  <2> QED BY <2>4 DEF Kept
<1> QED BY <1>5, <1>6 DEF Collect

\* Sorting moves every finding to one place.
LEMMA KeptSorts ==
  ASSUME TypeOK, Kept, Finish
  PROVE  Kept' /\ Sorted'
<1>1. PICK place : Placed(place)
  BY DEF Kept
<1>2. PICK n \in Nat : DOMAIN findings = 1 .. n
  BY DEF TypeOK
<1>3. PICK p \in Rearrangements(1 .. n) :
        StablySorts(p, findings) /\ findings' = [i \in 1 .. n |-> findings[p[i]]]
  BY <1>2 DEF Finish
<1>4. /\ p \in [1 .. n -> 1 .. n]
      /\ \A y \in 1 .. n : \E x \in 1 .. n : p[x] = y
  BY DEF Rearrangements
<1>5. \A i, k \in 1 .. n : p[i] = p[k] => i = k
  <2>1. p \in Surjection(1 .. n, 1 .. n)
    BY <1>4 DEF Surjection
  <2>2. p \in Injection(1 .. n, 1 .. n)
    BY <2>1, FS_Interval, FS_SurjSameCardinalityImpliesInj
  <2> QED BY <2>2 DEF Injection, IsInjective
<1>6. future' = future /\ collected' = collected
  BY DEF Finish
<1>7. YieldedBy(collected)' = YieldedBy(collected) /\ \A j \in JobIds : FindingsOf(j)' = FindingsOf(j)
  BY <1>6 DEF YieldedBy, FindingsOf, RegionOf
<1>8. /\ \A i \in 1 .. n : place[i] \in YieldedBy(collected) /\ place[i][1] \in JobIds
      /\ \A i, k \in 1 .. n : place[i] = place[k] => i = k
      /\ \A q \in YieldedBy(collected) : \E i \in 1 .. n : place[i] = q
      /\ \A i \in 1 .. n : findings[i] = FindingsOf(place[i][1])[place[i][2]]
  BY <1>1, <1>2 DEF Placed, YieldedBy, TypeOK
<1> DEFINE to == [i \in 1 .. n |-> place[p[i]]]
<1>9. Placed(to)'
  <2>1. DOMAIN findings' = 1 .. n /\ \A i \in 1 .. n : findings'[i] = findings[p[i]]
    BY <1>3
  <2>2. to \in [1 .. n -> YieldedBy(collected)']
    <3>1. \A i \in 1 .. n : to[i] \in YieldedBy(collected)
      BY <1>4, <1>8
    <3>2. to \in [1 .. n -> YieldedBy(collected)]
      BY <3>1
    <3> HIDE DEF to
    <3> QED BY <1>7, <3>2
  <2>3. \A i, k \in 1 .. n : to[i] = to[k] => i = k
    BY <1>4, <1>5, <1>8
  <2>4. \A q \in YieldedBy(collected)' : \E i \in 1 .. n : to[i] = q
    <3> SUFFICES ASSUME NEW q \in YieldedBy(collected) PROVE \E i \in 1 .. n : to[i] = q
      BY <1>7
    <3>1. PICK k \in 1 .. n : place[k] = q
      BY <1>8
    <3>2. PICK i \in 1 .. n : p[i] = k
      BY <1>4
    <3> QED BY <3>1, <3>2
  <2>5. \A i \in 1 .. n : findings'[i] = FindingsOf(to[i][1])'[to[i][2]]
    <3> SUFFICES ASSUME NEW i \in 1 .. n PROVE findings'[i] = FindingsOf(to[i][1])'[to[i][2]]
      OBVIOUS
    <3>1. p[i] \in 1 .. n /\ to[i] = place[p[i]]
      BY <1>4
    <3>2. FindingsOf(place[p[i]][1])' = FindingsOf(place[p[i]][1])
      BY <3>1, <1>7, <1>8
    <3>3. findings[p[i]] = FindingsOf(place[p[i]][1])[place[p[i]][2]]
      BY <3>1, <1>8
    <3> HIDE DEF to
    <3> QED BY <2>1, <3>1, <3>2, <3>3
  <2> HIDE DEF to
  <2> QED BY <2>1, <2>2, <2>3, <2>4, <2>5 DEF Placed
<1>10. Sorted'
  <2>0. DOMAIN findings' = 1 .. n /\ \A i \in 1 .. n : findings'[i] = findings[p[i]]
    BY <1>3
  <2> SUFFICES ASSUME NEW i \in 1 .. n, NEW k \in 1 .. n, i < k
               PROVE  ~ SortsBefore(findings[p[k]], findings[p[i]])
    BY <2>0 DEF Sorted, SortsBefore
  <2>1. \/ SortsBefore(findings[p[i]], findings[p[k]])
        \/ ~ SortsBefore(findings[p[k]], findings[p[i]])
    BY <1>2, <1>3 DEF StablySorts
  <2>2. \A x \in 1 .. n : findings[x].id \in Resource /\ findings[x].region \in Nat
    <3>1. AnyRegion \subseteq Nat
      <4>1. Home \in Nat
        BY ScanAssumption DEF Home, DefaultHome
      <4>2. Elements(Regions) \subseteq Nat
        BY ScanAssumption DEF Elements
      <4> QED BY <4>1, <4>2 DEF AnyRegion, GlobalRegion
    <3>2. \A x \in 1 .. n : findings[x] \in Finding
      BY <1>2 DEF TypeOK
    <3> QED BY <3>1, <3>2 DEF Finding
  <2>3. \A x \in 1 .. n : Cost[findings[x].id] \in Nat /\ findings[x].id \in Nat
    BY <2>2, ScanAssumption
  <2>4. p[i] \in 1 .. n /\ p[k] \in 1 .. n
    BY <1>4
  <2> DEFINE f == findings[p[i]]
             g == findings[p[k]]
  <2>5. /\ Cost[f.id] \in Nat /\ f.id \in Nat /\ f.region \in Nat
        /\ Cost[g.id] \in Nat /\ g.id \in Nat /\ g.region \in Nat
    BY <2>2, <2>3, <2>4
  <2>6. SortsBefore(f, g) \/ ~ SortsBefore(g, f)
    BY <2>1
  <2> HIDE DEF f, g
  <2>7. ~ SortsBefore(g, f)
    BY <2>5, <2>6 DEF SortsBefore
  <2> QED BY <2>7 DEF f, g
<1> QED BY <1>9, <1>10 DEF Kept

ReportInv == IInv /\ YieldsOnce /\ Kept /\ Sorted

LEMMA ReportInit == Init => ReportInv
<1> SUFFICES ASSUME Init PROVE ReportInv
  OBVIOUS
<1>1. IInv
  BY InitHolds DEF IInv
<1>2. YieldsOnce
  BY DEF Init, YieldsOnce, NoRepeat, Idle, InState
<1>3. findings = <<>> /\ collected = {} /\ DOMAIN findings = {}
  BY DEF Init
<1>4. YieldedBy(collected) = {}
  BY <1>3 DEF YieldedBy
<1>5. Placed(<<>>)
  BY <1>3, <1>4 DEF Placed
<1>6. Sorted
  BY <1>3 DEF Sorted
<1> QED BY <1>1, <1>2, <1>5, <1>6 DEF ReportInv, Kept

LEMMA ReportStep == ReportInv /\ [Next]_vars => ReportInv'
<1> SUFFICES ASSUME ReportInv, [Next]_vars PROVE ReportInv'
  OBVIOUS
<1>0. TypeOK /\ PoolConsistent /\ YieldsOnce /\ Kept /\ Sorted
  BY DEF ReportInv, IInv
<1>1. IInv'
  BY TypeStep, PoolStep, SettledStep DEF ReportInv, IInv
<1>2. YieldsOnce'
  BY <1>0, YieldsOnceStep
<1>3. CASE Finish
  BY <1>0, <1>1, <1>2, <1>3, KeptSorts DEF ReportInv
<1>4. ASSUME NEW j \in JobIds, Collect(j) PROVE ReportInv'
  <2>1. Kept'
    BY <1>0, <1>4, KeptCollects
  <2>2. Sorted'
    BY <1>4 DEF Collect, Sorted
  <2> QED BY <1>1, <1>2, <2>1, <2>2 DEF ReportInv
<1>5. ASSUME findings' = findings, collected' = collected, pc' = "done" => pc = "done"
      PROVE  ReportInv'
  <2>1. Kept'
    BY <1>0, <1>5, KeptStays
  <2>2. Sorted'
    BY <1>0, <1>5 DEF Sorted, SortsBefore
  <2> QED BY <1>1, <1>2, <2>1, <2>2 DEF ReportInv
<1>6. CASE Submit
  BY <1>5, <1>6 DEF Submit, result
<1>7. ASSUME NEW w \in Workers, WorkerStep(w) PROVE ReportInv'
  BY <1>5, <1>7 DEF WorkerStep, Take, Yield, Return, Raise, result
<1>8. CASE UNCHANGED vars
  BY <1>5, <1>8 DEF vars
<1> QED BY <1>3, <1>4, <1>6, <1>7, <1>8 DEF Next, Caller

LEMMA ReportHolds == Spec => []ReportInv
BY ReportInit, ReportStep, PTL DEF Spec

\* A list of resources without repetition is no longer than there are resources.
LEMMA NoLongerThanResources ==
  ASSUME NEW s \in Seq(Resource), NoRepeat(s)
  PROVE  DOMAIN s \subseteq 1 .. Cardinality(Resource)
<1>1. IsFiniteSet(Resource)
  <2>1. ASSUME NEW T, NEW c \in Seq(T) PROVE IsFiniteSet(Elements(c))
    <3>1. IsFiniteSet(DOMAIN c)
      BY FS_Interval
    <3>2. c \in Surjection(DOMAIN c, Elements(c))
      BY DEF Surjection, Elements
    <3> QED BY <3>1, <3>2, FS_Surjection
  <2>2. IsFiniteSet(Check)
    BY <2>1, FS_Union, ScanAssumption DEF Check
  <2> DEFINE S == {Resources[c] : c \in Check}
             f == [c \in Check |-> Resources[c]]
  <2>3. f \in Surjection(Check, S)
    BY DEF Surjection
  <2>4. IsFiniteSet(S)
    <3> HIDE DEF f, S
    <3> QED BY <2>2, <2>3, FS_Surjection
  <2>5. \A T \in S : IsFiniteSet(T)
    BY ScanAssumption
  <2>6. IsFiniteSet(UNION S)
    <3> HIDE DEF S
    <3> QED BY <2>4, <2>5, FS_UNION
  <2> QED BY <2>6 DEF Resource
<1>2. s \in Injection(1 .. Len(s), Resource)
  BY DEF Injection, IsInjective, NoRepeat
<1>3. Cardinality(1 .. Len(s)) <= Cardinality(Resource)
  BY <1>1, <1>2, FS_Injection
<1>4. Len(s) \in Nat /\ DOMAIN s = 1 .. Len(s)
  OBVIOUS
<1>5. Cardinality(1 .. Len(s)) = Len(s)
  BY <1>4, FS_Interval
<1>6. Cardinality(Resource) \in Nat
  BY <1>1, FS_CardinalityType
<1> QED BY <1>3, <1>4, <1>5, <1>6

LEMMA EveryFindingIsReported == ReportInv => ReportIsComplete
<1> SUFFICES ASSUME ReportInv, pc = "done" PROVE ReportIsComplete
  BY DEF ReportIsComplete
<1>1. PICK place : Placed(place)
  BY DEF ReportInv, Kept
<1>2. collected = JobIds
  BY DEF ReportInv, IInv, PoolConsistent, CallerOnTrack
<1>3. IsFiniteSet(DOMAIN findings)
  BY FS_Interval DEF ReportInv, IInv, TypeOK
<1>4. ASSUME NEW f \in Finding
      PROVE  Cardinality(Occurrences(f)) = Cardinality(Yielded(f))
  <2>1. \A p : p \in Yielded(f) <=>
               p \in YieldedBy(collected) /\ FindingsOf(p[1])[p[2]] = f
    <3>1. ASSUME NEW j \in JobIds
          PROVE  DOMAIN future[j].found \subseteq 1 .. Cardinality(Resource)
      BY NoLongerThanResources DEF ReportInv, IInv, TypeOK, YieldsOnce
    <3>2. 1 .. Cardinality(Resource) \subseteq Nat
      OBVIOUS
    <3> QED BY <1>2, <3>1, <3>2 DEF Yielded, YieldedBy
  <2> DEFINE S == Occurrences(f)
             T == Yielded(f)
             at == [i \in S |-> place[i]]
  <2>2. S \subseteq DOMAIN findings /\ \A i \in DOMAIN findings : i \in S <=> findings[i] = f
    BY DEF Occurrences
  <2> HIDE DEF S, T
  <2>3. \A i \in S : place[i] \in T
    BY <2>1, <2>2, <1>1 DEF Placed, T
  <2>4. \A i, k \in S : place[i] = place[k] => i = k
    BY <2>2, <1>1 DEF Placed
  <2>5. \A p \in T : \E i \in S : place[i] = p
    <3> SUFFICES ASSUME NEW p \in T PROVE \E i \in S : place[i] = p
      OBVIOUS
    <3>1. p \in YieldedBy(collected) /\ FindingsOf(p[1])[p[2]] = f
      BY <2>1 DEF T
    <3>2. PICK i \in DOMAIN findings : place[i] = p
      BY <3>1, <1>1 DEF Placed
    <3>3. findings[i] = f
      BY <3>1, <3>2, <1>1 DEF Placed
    <3> QED BY <2>2, <3>2, <3>3
  <2>6. at \in Bijection(S, T)
    BY <2>3, <2>4, <2>5 DEF Bijection, Injection, Surjection, IsInjective
  <2>7. ExistsBijection(S, T)
    BY <2>6 DEF ExistsBijection
  <2>8. IsFiniteSet(S)
    BY <1>3, <2>2, FS_Subset
  <2>9. Cardinality(T) = Cardinality(S)
    BY <2>7, <2>8, FS_Bijection
  <2> QED BY <2>9 DEF S, T
<1>5. \A i, k \in DOMAIN findings : i < k => ~ SortsBefore(findings[k], findings[i])
  BY DEF ReportInv, Sorted
<1> QED BY <1>4, <1>5 DEF ReportIsComplete

(***************************************************************************)
(* Each region and each check is named once.                               *)
(***************************************************************************)
NamedOnce == NoRepeat(Regions) /\ NoRepeat(LocalChecks) /\ NoRepeat(GlobalChecks)

\* A finding's check and region tell which pair it is of.
LEMMA PairOfFinding ==
  ASSUME NamedOnce, NEW i \in JobIds, NEW j \in JobIds,
         Jobs[i].check = Jobs[j].check, RegionOf(i) = RegionOf(j)
  PROVE  i = j
<1> DEFINE m == Len(Regions)
           n == Len(LocalChecks)
<1>1. /\ m \in Nat /\ n \in Nat /\ LocalCount = m * n /\ m * n \in Nat
      /\ Len(GlobalChecks) \in Nat
      /\ DOMAIN Regions = 1 .. m /\ DOMAIN LocalChecks = 1 .. n
      /\ DOMAIN GlobalChecks = 1 .. Len(GlobalChecks)
      /\ \A r \in DOMAIN Regions : Regions[r] # GlobalRegion
  BY ScanAssumption DEF LocalCount
<1>2. JobIds = 1 .. LocalCount + Len(GlobalChecks)
  BY <1>1 DEF JobIds, Jobs
<1>3. ASSUME NEW k \in JobIds, k <= LocalCount
      PROVE  /\ k \in 1 .. m * n /\ n # 0
             /\ ((k - 1) % n) + 1 \in 1 .. n /\ ((k - 1) \div n) + 1 \in 1 .. m
             /\ Jobs[k].check = LocalChecks[((k - 1) % n) + 1]
             /\ RegionOf(k) = Regions[((k - 1) \div n) + 1]
  <2>1. k \in 1 .. m * n
    BY <1>1, <1>2, <1>3
  <2>2. Jobs[k] = LocalJob(k)
    BY <1>1, <1>2, <1>3 DEF Jobs
  <2>3. n # 0 /\ ((k - 1) % n) + 1 \in 1 .. n /\ ((k - 1) \div n) + 1 \in 1 .. m
    BY <1>1, <2>1, DivModBounds
  <2> QED BY <1>3, <2>1, <2>2, <2>3 DEF LocalJob, RegionOf
<1>4. ASSUME NEW k \in JobIds, ~ (k <= LocalCount)
      PROVE  /\ k - LocalCount \in DOMAIN GlobalChecks /\ RegionOf(k) = GlobalRegion
             /\ Jobs[k].check = GlobalChecks[k - LocalCount]
  BY <1>1, <1>2, <1>4 DEF Jobs, GlobalJob, RegionOf
<1>5. CASE i <= LocalCount /\ j <= LocalCount
  <2>1. ((i - 1) % n) + 1 = ((j - 1) % n) + 1
    BY <1>1, <1>3, <1>5 DEF NamedOnce, NoRepeat
  <2>2. ((i - 1) \div n) + 1 = ((j - 1) \div n) + 1
    BY <1>1, <1>3, <1>5 DEF NamedOnce, NoRepeat
  <2>3. \A k \in 1 .. m * n : k - 1 = n * ((k - 1) \div n) + ((k - 1) % n)
    BY <1>1, <1>3, <1>5
  <2>4. i \in 1 .. m * n /\ j \in 1 .. m * n
    BY <1>3, <1>5
  <2>5. i - 1 = j - 1
    <3>1. (i - 1) % n = (j - 1) % n /\ (i - 1) \div n = (j - 1) \div n
      BY <2>1, <2>2, <2>4, <1>1, <1>3, <1>5
    <3> QED BY <2>3, <2>4, <3>1
  <2> QED BY <2>4, <2>5
<1>6. CASE ~ (i <= LocalCount) /\ ~ (j <= LocalCount)
  <2>1. i - LocalCount = j - LocalCount
    BY <1>4, <1>6 DEF NamedOnce, NoRepeat
  <2> QED BY <2>1, <1>1, <1>2
<1>7. CASE i <= LocalCount <=> ~ (j <= LocalCount)
  BY <1>1, <1>3, <1>4, <1>7
<1> QED BY <1>5, <1>6, <1>7

LEMMA NothingReportedTwice == NamedOnce /\ ReportInv => EachResourceReportedOnce
<1> SUFFICES ASSUME NamedOnce, ReportInv,
                    NEW i \in DOMAIN findings, NEW k \in DOMAIN findings, findings[i] = findings[k]
             PROVE  i = k
  BY DEF EachResourceReportedOnce
<1>1. PICK place : Placed(place)
  BY DEF ReportInv, Kept
<1>2. PICK a \in JobIds, x \in Nat : place[i] = <<a, x>> /\ x \in DOMAIN future[a].found
  <2>1. place[i] \in YieldedBy(collected) /\ collected \subseteq JobIds
    BY <1>1 DEF Placed, ReportInv, IInv, TypeOK
  <2> QED BY <2>1 DEF YieldedBy
<1>3. PICK b \in JobIds, y \in Nat : place[k] = <<b, y>> /\ y \in DOMAIN future[b].found
  <2>1. place[k] \in YieldedBy(collected) /\ collected \subseteq JobIds
    BY <1>1 DEF Placed, ReportInv, IInv, TypeOK
  <2> QED BY <2>1 DEF YieldedBy
<1>4. findings[i] = FindingsOf(a)[x] /\ findings[k] = FindingsOf(b)[y]
  BY <1>1, <1>2, <1>3 DEF Placed
<1>5. /\ FindingsOf(a)[x].check = Jobs[a].check /\ FindingsOf(a)[x].region = RegionOf(a)
      /\ FindingsOf(a)[x].id = future[a].found[x]
      /\ FindingsOf(b)[y].check = Jobs[b].check /\ FindingsOf(b)[y].region = RegionOf(b)
      /\ FindingsOf(b)[y].id = future[b].found[y]
  BY <1>2, <1>3 DEF FindingsOf
<1>6. Jobs[a].check = Jobs[b].check /\ RegionOf(a) = RegionOf(b) /\ future[a].found[x] = future[b].found[y]
  BY <1>4, <1>5
<1>7. a = b
  BY <1>6, PairOfFinding
<1>8. x = y
  BY <1>2, <1>3, <1>6, <1>7 DEF ReportInv, YieldsOnce, NoRepeat
<1> QED BY <1>1, <1>2, <1>3, <1>7, <1>8 DEF Placed

(***************************************************************************)
(* For every number of pairs, workers and resources and every order of     *)
(* completion, the finished report holds each finding as often as it was   *)
(* yielded by a check that answered, in the order of engine.py:209.        *)
(***************************************************************************)
THEOREM ReportsAreComplete == Spec => []ReportIsComplete
BY ReportHolds, EveryFindingIsReported, PTL

(***************************************************************************)
(* If regions and checks are named once each, no finding is in the result  *)
(* twice, at any moment: the global checks are run in one region only      *)
(* (engine.py:175-180).                                                    *)
(***************************************************************************)
THEOREM ReportedOnce == NamedOnce => (Spec => []EachResourceReportedOnce)
<1> SUFFICES ASSUME NamedOnce PROVE Spec => []EachResourceReportedOnce
  OBVIOUS
<1>1. ReportInv => EachResourceReportedOnce
  BY NothingReportedTwice
<1> QED BY <1>1, ReportHolds, PTL
===============================================================================
