------------------------------ MODULE ScanEngine ------------------------------
(***************************************************************************)
(* zombiescan.engine.scan: the fan-out of (check, region) pairs over a     *)
(* thread pool and the collection of their futures into one ScanResult.    *)
(* Three kinds of actor interleave: the caller's thread, which submits all *)
(* pairs and then collects futures in the order they complete; the pool's  *)
(* workers, each running one check at a time; and AWS, which decides what  *)
(* a check yields and whether it raises, possibly halfway.                 *)
(*                                                                         *)
(* Names (of regions and of resources) are naturals standing for their     *)
(* place in alphabetical order, which is all the report's order uses.      *)
(***************************************************************************)
EXTENDS Naturals, Sequences, FiniteSets

CONSTANTS
  Regions,       \* the regions to scan, in the order given
  LocalChecks,   \* the selected checks with scope "regional", in order
  GlobalChecks,  \* the selected checks with scope "global", in order
  Workers,       \* the threads of the pool: max_workers of them
  Resources,     \* Resources[c]: the resources check c can report in a pair
  Cost           \* Cost[x]: the monthly cost of resource x

GlobalRegion == 0    \* the region "global", as findings of global checks name it
DefaultHome == 1     \* "us-east-1"

Elements(s) == {s[i] : i \in DOMAIN s}
Check == Elements(LocalChecks) \cup Elements(GlobalChecks)
Resource == UNION {Resources[c] : c \in Check}

ASSUME ScanAssumption ==
  /\ Regions \in Seq(Nat \ {GlobalRegion})
  /\ LocalChecks \in Seq(STRING)
  /\ GlobalChecks \in Seq(STRING)
  /\ IsFiniteSet(Workers) /\ Workers # {}
  /\ \A c \in Check : c \in DOMAIN Resources /\ IsFiniteSet(Resources[c])
  /\ Resource \subseteq Nat
  /\ Cost \in [Resource -> Nat]

-------------------------------------------------------------------------------
(***************************************************************************)
(* The pairs. A regional check runs in every region, a global one only in  *)
(* the home region. The list is region-major, as the comprehension has it. *)
(***************************************************************************)
LocalCount == Len(Regions) * Len(LocalChecks)

Home == IF Regions # <<>> THEN Regions[1] ELSE DefaultHome

LocalJob(k) ==
  [check |-> LocalChecks[((k - 1) % Len(LocalChecks)) + 1],
   region |-> Regions[((k - 1) \div Len(LocalChecks)) + 1]]

GlobalJob(k) == [check |-> GlobalChecks[k], region |-> Home]

\* Mutant of Jobs: global checks fanned out over the regions like the others.
JobsGlobalPerRegion ==
  [k \in 1 .. LocalCount + Len(Regions) * Len(GlobalChecks) |->
     IF k <= LocalCount THEN LocalJob(k)
     ELSE [check |-> GlobalChecks[((k - LocalCount - 1) % Len(GlobalChecks)) + 1],
           region |-> Regions[((k - LocalCount - 1) \div Len(GlobalChecks)) + 1]]]

Jobs ==
  [k \in 1 .. LocalCount + Len(GlobalChecks) |->
     IF k <= LocalCount THEN LocalJob(k) ELSE GlobalJob(k - LocalCount)]

JobIds == DOMAIN Jobs
attempted == Len(Jobs)

NoJob == 0
Idle == [job |-> NoJob, got |-> <<>>]

(***************************************************************************)
(* How a check can end. A ClientError is recorded as an error whatever its *)
(* code; EndpointConnectionError is raised by botocore both for a service  *)
(* that has no endpoint in the region and for a connection that could not  *)
(* be made.                                                                *)
(***************************************************************************)
Unconnected == {"no endpoint", "network down"}
Errors == {"client error", "other exception"}
Exceptions == Unconnected \cup Errors
FutureState == {"unsubmitted", "pending", "running", "returned"} \cup Exceptions

AnyRegion == Elements(Regions) \cup {Home, GlobalRegion}
Finding == [check : Check, region : AnyRegion, id : Resource]
ScanError == [check : Check, region : AnyRegion]

VARIABLES
  pc,           \* where scan() is: "submitting", "collecting" or "done"
  next,         \* the next pair to submit
  queue,        \* the pool's work queue, first in first out
  worker,       \* worker[w]: the pair w runs and what its check yielded so far
  future,       \* future[j]: the state of pair j's future, and its result
  collected,    \* the futures as_completed has handed out
  findings,     \* ScanResult.findings
  errors,       \* ScanResult.errors
  unavailable   \* ScanResult.unavailable

pool == <<queue, worker>>
result == <<findings, errors, unavailable>>
vars == <<pc, next, queue, worker, future, collected, findings, errors, unavailable>>

InState(s) == [state |-> s, found |-> <<>>]

TypeOK ==
  /\ pc \in {"submitting", "collecting", "done"}
  /\ next \in 1 .. attempted + 1
  /\ queue \in Seq(JobIds)
  /\ worker \in [Workers -> [job : JobIds \cup {NoJob}, got : Seq(Resource)]]
  /\ future \in [JobIds -> [state : FutureState, found : Seq(Resource)]]
  /\ collected \in SUBSET JobIds
  /\ findings \in Seq(Finding)
  /\ errors \in Seq(ScanError)
  /\ unavailable \in Nat

(***************************************************************************)
(* A scan with nothing to do returns at once, before any pool exists.      *)
(***************************************************************************)
Init ==
  /\ pc = IF attempted = 0 THEN "done" ELSE "submitting"
  /\ next = 1
  /\ queue = <<>>
  /\ worker = [w \in Workers |-> Idle]
  /\ future = [j \in JobIds |-> InState("unsubmitted")]
  /\ collected = {}
  /\ findings = <<>>
  /\ errors = <<>>
  /\ unavailable = 0

-------------------------------------------------------------------------------
(***************************************************************************)
(* The caller's thread: submit every pair. Workers start meanwhile.        *)
(***************************************************************************)
\* Mutant of Submit: the bound of the loop is one too far.
SubmitOneTooMany ==
  /\ pc = "submitting"
  /\ queue' = Append(queue, next)
  /\ future' = [future EXCEPT ![next] = InState("pending")]
  /\ next' = next + 1
  /\ pc' = IF next > attempted THEN "collecting" ELSE "submitting"
  /\ UNCHANGED <<worker, collected, result>>

Submit ==
  /\ pc = "submitting"
  /\ queue' = Append(queue, next)
  /\ future' = [future EXCEPT ![next] = InState("pending")]
  /\ next' = next + 1
  /\ pc' = IF next = attempted THEN "collecting" ELSE "submitting"
  /\ UNCHANGED <<worker, collected, result>>

(***************************************************************************)
(* The pool: a worker takes the oldest pair; the check's generator yields  *)
(* findings one by one into the list _run_one builds; the check returns    *)
(* that list or raises, in which case the list is lost with the call.      *)
(***************************************************************************)
\* Mutant of Take: the pair stays in the queue, for another worker to take.
TakeLeavingItQueued(w) ==
  /\ worker[w] = Idle
  /\ queue # <<>>
  /\ worker' = [worker EXCEPT ![w] = [job |-> Head(queue), got |-> <<>>]]
  /\ future' = [future EXCEPT ![Head(queue)] = InState("running")]
  /\ UNCHANGED <<pc, next, queue, collected, result>>

Take(w) ==
  /\ worker[w] = Idle
  /\ queue # <<>>
  /\ queue' = Tail(queue)
  /\ worker' = [worker EXCEPT ![w] = [job |-> Head(queue), got |-> <<>>]]
  /\ future' = [future EXCEPT ![Head(queue)] = InState("running")]
  /\ UNCHANGED <<pc, next, collected, result>>

Yield(w) ==
  /\ worker[w].job # NoJob
  /\ \E x \in Resources[Jobs[worker[w].job].check] \ Elements(worker[w].got) :
       worker' = [worker EXCEPT ![w] = [job |-> worker[w].job, got |-> Append(worker[w].got, x)]]
  /\ UNCHANGED <<pc, next, queue, future, collected, result>>

Return(w) ==
  /\ worker[w].job # NoJob
  /\ future' = [future EXCEPT ![worker[w].job] =
                  [state |-> "returned", found |-> worker[w].got]]
  /\ worker' = [worker EXCEPT ![w] = Idle]
  /\ UNCHANGED <<pc, next, queue, collected, result>>

Raise(w) ==
  /\ worker[w].job # NoJob
  /\ \E e \in Exceptions :
       future' = [future EXCEPT ![worker[w].job] = InState(e)]
  /\ worker' = [worker EXCEPT ![w] = Idle]
  /\ UNCHANGED <<pc, next, queue, collected, result>>

-------------------------------------------------------------------------------
(***************************************************************************)
(* The caller's thread: collect each completed future once.                *)
(***************************************************************************)
RegionOf(j) == IF j <= LocalCount THEN Jobs[j].region ELSE GlobalRegion

FindingsOf(j) ==
  [i \in DOMAIN future[j].found |->
     [check |-> Jobs[j].check, region |-> RegionOf(j), id |-> future[j].found[i]]]

Answered(j) == future[j].state = "returned"

\* Mutant of Failed: only a ClientError is caught, other exceptions are not.
FailedClientErrorOnly(j) == future[j].state = "client error"

Failed(j) == future[j].state \in Errors
Absent(j) == future[j].state \in Unconnected

\* Mutant of KeepFindings: the answer of a pair replaces those before it.
KeepLastFindings(j) ==
  /\ Answered(j)
  /\ findings' = FindingsOf(j)
  /\ UNCHANGED <<errors, unavailable>>

KeepFindings(j) ==
  /\ Answered(j)
  /\ findings' = findings \o FindingsOf(j)
  /\ UNCHANGED <<errors, unavailable>>

RecordError(j) ==
  /\ Failed(j)
  /\ errors' = Append(errors, [check |-> Jobs[j].check, region |-> Jobs[j].region])
  /\ UNCHANGED <<findings, unavailable>>

\* Mutant of CountUnavailable: the absent pair is also listed as an error.
CountUnavailableTwice(j) ==
  /\ Absent(j)
  /\ unavailable' = unavailable + 1
  /\ errors' = Append(errors, [check |-> Jobs[j].check, region |-> Jobs[j].region])
  /\ UNCHANGED findings

CountUnavailable(j) ==
  /\ Absent(j)
  /\ unavailable' = unavailable + 1
  /\ UNCHANGED <<findings, errors>>

Collect(j) ==
  /\ pc = "collecting"
  /\ j \notin collected
  /\ KeepFindings(j) \/ RecordError(j) \/ CountUnavailable(j)
  /\ collected' = collected \cup {j}
  /\ UNCHANGED <<pc, next, pool, future>>

(***************************************************************************)
(* The report's order: dearest first, then region, then resource. sort is  *)
(* stable, so findings equal in all three stay in the order they were      *)
(* collected.                                                              *)
(***************************************************************************)
SortsBefore(f, g) ==
  \/ Cost[f.id] > Cost[g.id]
  \/ Cost[f.id] = Cost[g.id] /\ f.region < g.region
  \/ Cost[f.id] = Cost[g.id] /\ f.region = g.region /\ f.id < g.id

Rearrangements(S) == {p \in [S -> S] : \A y \in S : \E x \in S : p[x] = y}

StablySorts(p, s) ==
  \A i, k \in DOMAIN s : i < k =>
    \/ SortsBefore(s[p[i]], s[p[k]])
    \/ ~ SortsBefore(s[p[k]], s[p[i]]) /\ p[i] < p[k]

Finish ==
  /\ pc = "collecting"
  /\ collected = JobIds
  /\ \E p \in Rearrangements(DOMAIN findings) :
       /\ StablySorts(p, findings)
       /\ findings' = [i \in DOMAIN findings |-> findings[p[i]]]
  /\ pc' = "done"
  /\ UNCHANGED <<next, pool, future, collected, errors, unavailable>>

\* Mutant of CompletelyFailed: forgets the pairs counted as unavailable.
CompletelyFailedErrorsOnly == attempted > 0 /\ Len(errors) = attempted

\* ScanResult.completely_failed
CompletelyFailed == attempted > 0 /\ Len(errors) + unavailable = attempted

-------------------------------------------------------------------------------
Caller == Submit \/ Finish \/ \E j \in JobIds : Collect(j)
WorkerStep(w) == Take(w) \/ Yield(w) \/ Return(w) \/ Raise(w)

Next == Caller \/ \E w \in Workers : WorkerStep(w)

Spec == Init /\ [][Next]_vars

(***************************************************************************)
(* The caller's thread never waits for anything but a future, and every    *)
(* AWS call ends (botocore's timeouts), so each thread keeps moving.       *)
(***************************************************************************)
FairSpec == Spec /\ WF_vars(Caller) /\ \A w \in Workers : WF_vars(WorkerStep(w))
-------------------------------------------------------------------------------
(***************************************************************************)
(* The pool hands every pair to one worker, once: what is queued is        *)
(* pending and queued once, what runs runs on one worker, and what was     *)
(* collected is finished for good (engine.py:185-190).                     *)
(***************************************************************************)
Finished(j) == Answered(j) \/ Failed(j) \/ Absent(j)

CallerOnTrack ==
  /\ pc = "submitting" => next <= attempted
  /\ pc = "done" => collected = JobIds
RestUnsubmitted == \A j \in JobIds : j >= next => future[j].state = "unsubmitted"
QueuePending == \A i \in DOMAIN queue : future[queue[i]].state = "pending"
QueuedOnce == \A i, k \in DOMAIN queue : queue[i] = queue[k] => i = k
WorkersRunning ==
  \A w \in Workers : worker[w].job # NoJob => future[worker[w].job].state = "running"
OneWorkerEach ==
  \A v, w \in Workers : worker[v].job = worker[w].job => v = w \/ worker[v].job = NoJob
CollectedFinished == \A j \in collected : Finished(j)

PoolConsistent ==
  /\ CallerOnTrack /\ RestUnsubmitted /\ QueuePending /\ QueuedOnce
  /\ WorkersRunning /\ OneWorkerEach /\ CollectedFinished

(***************************************************************************)
(* At every moment of the collection the three lists of the ScanResult     *)
(* account for exactly the futures collected so far: an error per failed   *)
(* pair, one count per absent pair, and the findings of the pairs that     *)
(* answered (engine.py:190-207).                                           *)
(***************************************************************************)
FailedPairs == {j \in collected : Failed(j)}
AbsentPairs == {j \in collected : Absent(j)}
FoundBy(J) == UNION {Elements(FindingsOf(j)) : j \in {k \in J : Answered(k)}}

Settled ==
  /\ Len(errors) = Cardinality(FailedPairs)
  /\ unavailable = Cardinality(AbsentPairs)
  /\ Elements(findings) = FoundBy(collected)

Occurrences(f) == {i \in DOMAIN findings : findings[i] = f}
Yielded(f) ==
  {p \in JobIds \X (1 .. Cardinality(Resource)) :
     p[2] \in DOMAIN future[p[1]].found /\ FindingsOf(p[1])[p[2]] = f}

(***************************************************************************)
(* Whatever the order in which futures complete, the finished report holds *)
(* every finding an answering check yielded, as often as it was yielded,   *)
(* and in the order the report promises (engine.py:193, 209).              *)
(***************************************************************************)
ReportIsComplete ==
  pc = "done" =>
    /\ \A f \in Finding : Cardinality(Occurrences(f)) = Cardinality(Yielded(f))
    /\ \A i, k \in DOMAIN findings : i < k => ~ SortsBefore(findings[k], findings[i])

(***************************************************************************)
(* No resource is reported, and priced into the total, twice: "one Route   *)
(* 53 health check is reported seventeen times and the waste total is      *)
(* seventeen times too large" (engine.py:175-180).                         *)
(***************************************************************************)
EachResourceReportedOnce ==
  \A i, k \in DOMAIN findings : findings[i] = findings[k] => i = k

(***************************************************************************)
(* The scan implements ScanContract: collecting a future settles its pair, *)
(* finishing publishes the sums, and everything else is invisible.         *)
(***************************************************************************)
VerdictOf(j) ==
  IF j \notin collected THEN [is |-> "open", found |-> {}]
  ELSE [is |-> IF Answered(j) THEN "answered" ELSE IF Failed(j) THEN "failed" ELSE "absent",
        found |-> IF Answered(j) THEN Elements(FindingsOf(j)) ELSE {}]

Published ==
  [published |-> TRUE, found |-> Elements(findings), errors |-> Len(errors),
   unavailable |-> unavailable, completely_failed |-> CompletelyFailed]

NothingYet ==
  [published |-> FALSE, found |-> {}, errors |-> 0, unavailable |-> 0,
   completely_failed |-> FALSE]

Contract == INSTANCE ScanContract WITH
  Job <- JobIds, AnyFinding <- Finding,
  verdict <- [j \in JobIds |-> VerdictOf(j)],
  report <- IF pc = "done" THEN Published ELSE NothingYet

MeetsContract == Contract!ContractSpec

(***************************************************************************)
(* One slow or failing region never keeps the scan from ending: every      *)
(* future is collected and the result is returned (engine.py:185-210).     *)
(***************************************************************************)
Terminates == <>(pc = "done")
===============================================================================
