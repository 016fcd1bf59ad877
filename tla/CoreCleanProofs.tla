---------------------------- MODULE CoreCleanProofs ---------------------------
(***************************************************************************)
(* Proofs about the clean command with the shipped cleaners: what CleanRun *)
(* guarantees of the order of any plan's steps, together with what the     *)
(* plans are, for every report and every interleaving.                     *)
(***************************************************************************)
EXTENDS CoreClean, CleanRunProofs

(***************************************************************************)
(* A plan is backed up when each call that takes data with it comes right  *)
(* after its backup. Of a fixed plan that can be read off the calls.       *)
(***************************************************************************)
CallsBackedUp(ops) ==
  \A k \in DOMAIN ops, b \in BackupFor :
    ops[k] = b[2] => k - 1 \in DOMAIN ops /\ ops[k - 1] = b[1]

PlanBackedUp(steps) ==
  \A k \in DOMAIN steps, b \in BackupFor :
    steps[k].operation = b[2] =>
      /\ k - 1 \in DOMAIN steps /\ steps[k - 1].operation = b[1]
      /\ steps[k - 1].target = steps[k].target /\ steps[k - 1].region = steps[k].region

LEMMA StorageBackedUp == \A plan \in StoragePlans : CallsBackedUp(plan[2])
BY DEF StoragePlans, CallsBackedUp, BackupFor

LEMMA NetworkBackedUp == \A plan \in NetworkPlans : CallsBackedUp(plan[2])
BY DEF NetworkPlans, CallsBackedUp, BackupFor

LEMMA DataBackedUp == \A plan \in DataPlans : CallsBackedUp(plan[2])
BY DEF DataPlans, CallsBackedUp, BackupFor

LEMMA LightsailBackedUp == \A plan \in LightsailPlans : CallsBackedUp(plan[2])
BY DEF LightsailPlans, CallsBackedUp, BackupFor

LEMMA FixedBackedUp == \A plan \in FixedPlans : CallsBackedUp(plan[2])
BY StorageBackedUp, NetworkBackedUp, DataBackedUp, LightsailBackedUp DEF FixedPlans

LEMMA CallsForBackedUp ==
  ASSUME NEW check \in CLEANERS, check \notin Looking
  PROVE  CallsBackedUp(CallsFor(check))
<1>1. \E plan \in FixedPlans : plan[1] = check
  BY DEF CLEANERS
<1>2. (CHOOSE plan \in FixedPlans : plan[1] = check) \in FixedPlans
  BY <1>1
<1> QED  BY <1>2, FixedBackedUp DEF CallsFor

LEMMA StepInFields ==
  \A region, operation, target :
    /\ StepIn(region, operation, target).operation = operation
    /\ StepIn(region, operation, target).target = target
    /\ StepIn(region, operation, target).region = region
BY DEF StepIn

(***************************************************************************)
(* Which plan each check gets, step by step.                               *)
(***************************************************************************)
LEMMA FixedPlanSteps ==
  ASSUME NEW f, NEW u, f.check \in CLEANERS, f.check \notin Looking
  PROVE  /\ DOMAIN Plan(f, u) = DOMAIN CallsFor(f.check)
         /\ \A k \in DOMAIN Plan(f, u) : Plan(f, u)[k] = On(CallsFor(f.check)[k], f.id)
<1>1. Plan(f, u) = [k \in DOMAIN CallsFor(f.check) |-> On(CallsFor(f.check)[k], f.id)]
  BY DEF Plan, Looking
<1> QED  BY <1>1

LEMMA AmiPlanSteps ==
  ASSUME NEW f, NEW u, f.check = "unused-ami", f.details.snapshot_ids \in Seq(Resource),
         NEW k \in DOMAIN Plan(f, u)
  PROVE  \/ Plan(f, u)[k] = On("ec2.deregister_image", f.id)
         \/ \E j \in DOMAIN f.details.snapshot_ids :
              Plan(f, u)[k] = On("ec2.delete_snapshot", f.details.snapshot_ids[j])
<1> DEFINE ids == f.details.snapshot_ids
           tail == [j \in DOMAIN ids |-> On("ec2.delete_snapshot", ids[j])]
           head == On("ec2.deregister_image", f.id)
<1>1. Plan(f, u) = <<head>> \o tail
  BY DEF Plan, clean_unused_ami
<1>2. Len(ids) \in Nat /\ DOMAIN ids = 1 .. Len(ids)
  OBVIOUS
<1>3. tail \in [1 .. Len(ids) -> {On("ec2.delete_snapshot", ids[j]) : j \in DOMAIN ids}]
  BY <1>2
<1>4. tail \in Seq({On("ec2.delete_snapshot", ids[j]) : j \in DOMAIN ids})
  BY <1>2, <1>3, FunctionIsSeq
<1>5. \A j \in DOMAIN tail : tail[j] = On("ec2.delete_snapshot", ids[j]) /\ j \in DOMAIN ids
  OBVIOUS
<1> HIDE DEF tail, head
<1>6. (<<head>> \o tail)[k] = head \/ \E j \in DOMAIN tail : (<<head>> \o tail)[k] = tail[j]
  <2>1. k \in 1 .. 1 + Len(tail)
    BY <1>1, <1>4
  <2>2. CASE k = 1
    BY <2>2, <1>4
  <2>3. CASE k # 1
    <3>1. k - 1 \in 1 .. Len(tail) /\ DOMAIN tail = 1 .. Len(tail)
      BY <2>1, <2>3, <1>4
    <3>2. (<<head>> \o tail)[k] = tail[k - 1]
      BY <2>1, <2>3, <1>4
    <3> QED  BY <3>1, <3>2
  <2> QED  BY <2>2, <2>3
<1> QED  BY <1>1, <1>5, <1>6 DEF head

LEMMA UploadPlanSteps ==
  ASSUME NEW f, NEW u, f.check = "incomplete-multipart-upload",
         NEW k \in DOMAIN Plan(f, u)
  PROVE  /\ Plan(f, u)[k] = On("s3.abort_multipart_upload", SetToSeq(u)[k])
         /\ k \in 1 .. Cardinality(u)
<1>1. Plan(f, u) = [j \in 1 .. Cardinality(u) |-> On("s3.abort_multipart_upload", SetToSeq(u)[j])]
  BY DEF Plan, clean_incomplete_multipart_upload
<1> QED  BY <1>1

LEMMA OtherPlanSteps ==
  ASSUME NEW f, NEW u, NEW k \in DOMAIN Plan(f, u),
         f.check \in {"idle-load-balancer", "unused-route53-zone",
                      "lightsail-orphaned-snapshot"}
  PROVE  \/ \E op \in {"elbv2.delete_load_balancer", "route53.delete_hosted_zone",
                       "lightsail.delete_instance_snapshot", "lightsail.delete_disk_snapshot"} :
              Plan(f, u)[k] = On(op, f.id)
         \/ /\ f.check = "unused-route53-zone" /\ f.details.namespace # NoNamespace
            /\ Plan(f, u)[k] = StepIn(f.details.namespace.region,
                                      "servicediscovery.delete_namespace",
                                      f.details.namespace.id)
<1>1. CASE f.check = "idle-load-balancer"
  <2>1. Plan(f, u) \in {<<On("elbv2.delete_load_balancer", f.id)>>, <<>>}
    BY <1>1 DEF Plan, clean_idle_load_balancer
  <2> QED  BY <2>1
<1>2. CASE f.check = "unused-route53-zone"
  <2>1. Plan(f, u) = clean_unused_route53_zone(f)
    BY <1>2 DEF Plan
  <2> QED  BY <1>2, <2>1 DEF clean_unused_route53_zone
<1>3. CASE f.check = "lightsail-orphaned-snapshot"
  <2>1. Plan(f, u) \in {<<On("lightsail.delete_instance_snapshot", f.id)>>,
                        <<On("lightsail.delete_disk_snapshot", f.id)>>}
    BY <1>3 DEF Plan, clean_lightsail_orphaned_snapshot
  <2> QED  BY <2>1
<1> QED  BY <1>1, <1>2, <1>3

LEMMA PlanIsBackedUp ==
  ASSUME NEW f \in Findings, NEW u, f.check \in CLEANERS
  PROVE  PlanBackedUp(Plan(f, u))
<1>1. CASE f.check \notin Looking
  <2>1. CallsBackedUp(CallsFor(f.check))
    BY <1>1, CallsForBackedUp
  <2> QED  BY <1>1, <2>1, FixedPlanSteps, StepInFields DEF CallsBackedUp, PlanBackedUp, On
<1>2. CASE f.check \in Looking
  <2>1. ASSUME NEW k \in DOMAIN Plan(f, u)
        PROVE  Plan(f, u)[k].operation \in
                 {"ec2.deregister_image", "ec2.delete_snapshot", "s3.abort_multipart_upload",
                  "elbv2.delete_load_balancer", "route53.delete_hosted_zone",
                  "lightsail.delete_instance_snapshot", "lightsail.delete_disk_snapshot",
                  "servicediscovery.delete_namespace"}
    <3>1. CASE f.check = "unused-ami"
      <4>1. f.details.snapshot_ids \in Seq(Resource)
        BY <3>1, ReportedAssumption
      <4> QED  BY <3>1, <4>1, AmiPlanSteps, StepInFields DEF On
    <3>2. CASE f.check = "incomplete-multipart-upload"
      BY <3>2, UploadPlanSteps, StepInFields DEF On
    <3>3. CASE f.check \in {"idle-load-balancer", "unused-route53-zone",
                            "lightsail-orphaned-snapshot"}
      BY <3>3, OtherPlanSteps, StepInFields DEF On
    <3> QED  BY <1>2, <3>1, <3>2, <3>3 DEF Looking
  <2> QED  BY <2>1 DEF PlanBackedUp, BackupFor
<1> QED  BY <1>1, <1>2

\* What is planned is where the finding is, or in the region the step names.
LEMMA PlanIsNear ==
  ASSUME NEW f \in Findings, NEW u \in SUBSET UploadsOf(f), f.check \in CLEANERS,
         NEW k \in DOMAIN Plan(f, u)
  PROVE  \/ Plan(f, u)[k].region = OwnRegion /\ Near(f, Plan(f, u)[k].target)
         \/ /\ Plan(f, u)[k].region \in Region
            /\ Plan(f, u)[k].target \in Resource =>
                 Lives[Plan(f, u)[k].target] = Plan(f, u)[k].region
<1>0. Near(f, f.id)
  BY ReportedAssumption
<1>1. CASE f.check \notin Looking
  BY <1>0, <1>1, FixedPlanSteps, StepInFields DEF On
<1>2. CASE f.check = "unused-ami"
  <2>1. /\ f.details.snapshot_ids \in Seq(Resource)
        /\ \A j \in DOMAIN f.details.snapshot_ids : Near(f, f.details.snapshot_ids[j])
    BY <1>2, ReportedAssumption
  <2> QED  BY <1>0, <1>2, <2>1, AmiPlanSteps, StepInFields DEF On
<1>3. CASE f.check = "incomplete-multipart-upload"
  <2>1. IsFiniteSet(u) /\ \A r \in u : Near(f, r)
    BY ReportedAssumption, FS_Subset
  <2>2. PICK e : e \in Bijection(1 .. Cardinality(u), u)
    BY <2>1, FS_CardinalityType DEF ExistsBijection
  <2>3. e \in [1 .. Cardinality(u) -> u] /\ IsInjective(e)
    BY <2>2 DEF Bijection, Injection
  <2>4. SetToSeq(u) \in [1 .. Cardinality(u) -> u]
    BY <2>3 DEF SetToSeq
  <2>5. k \in 1 .. Cardinality(u) /\ Plan(f, u)[k] = On("s3.abort_multipart_upload", SetToSeq(u)[k])
    BY <1>3, UploadPlanSteps
  <2> QED  BY <2>1, <2>4, <2>5, StepInFields DEF On
<1>4. CASE f.check \in {"idle-load-balancer", "unused-route53-zone",
                        "lightsail-orphaned-snapshot"}
  <2>1. f.check = "unused-route53-zone" /\ f.details.namespace # NoNamespace =>
          /\ f.details.namespace.region \in Region
          /\ f.details.namespace.id \in Resource =>
               Lives[f.details.namespace.id] = f.details.namespace.region
    BY ReportedAssumption
  <2> QED  BY <1>0, <1>4, <2>1, OtherPlanSteps, StepInFields DEF On
<1> QED  BY <1>1, <1>2, <1>3, <1>4 DEF Looking

-------------------------------------------------------------------------------
(***************************************************************************)
(* What is sent is what the shipped cleaners planned for the finding, to   *)
(* where the runner points the client.                                     *)
(***************************************************************************)
PlansAreShipped ==
  \A i \in DOMAIN outcomes :
    outcomes[i].steps # <<>> =>
      /\ findings[i].check \in CLEANERS
      /\ \E u \in SUBSET UploadsOf(findings[i]) : outcomes[i].steps = Plan(findings[i], u)

CallsAreAimed == \A n \in DOMAIN calls : calls[n].region = Where(StepOf(n), findings[calls[n].of])

Shipped == RunInvariant /\ PlansAreShipped /\ CallsAreAimed

PlansStay ==
  /\ findings' = findings /\ DOMAIN outcomes' = DOMAIN outcomes
  /\ \A i \in DOMAIN outcomes : outcomes'[i].steps = outcomes[i].steps

\* A step reads the report, plans one finding, or leaves findings and plans alone.
LEMMA StepKinds ==
  ASSUME RunInvariant, [Next]_vars
  PROVE  \/ Load \/ PlanNext
         \/ PlansStay /\ calls' = calls
         \/ PlansStay /\ \E reply \in Reply : Send(reply)
<1>t. TypeOK /\ OnTrack
  BY DEF RunInvariant
<1>1. CASE Refuse \/ RefuseForeignReport \/ RefuseNoData \/ Show \/ LoopEnds \/ Report
  BY <1>1 DEF Refuse, RefuseForeignReport, RefuseNoData, Show, LoopEnds, Report, command, PlansStay
<1>2. CASE \E i \in DOMAIN outcomes : Proceed(i) \/ Approve(i) \/ Quit(i)
  BY <1>2 DEF Proceed, Approve, Quit, command, PlansStay
<1>3. ASSUME NEW i \in DOMAIN outcomes, Decline(i)
      PROVE  PlansStay /\ calls' = calls
  BY <1>3, <1>t DEF Decline, command, PlansStay, TypeOK
<1>4. ASSUME NEW reply \in Reply, StepReturns(reply) \/ StepRaises(reply)
      PROVE  PlansStay /\ \E r \in Reply : Send(r)
  <2>1. Send(reply) /\ findings' = findings
    BY <1>4 DEF StepReturns, StepRaises, command
  <2>2. turn \in DOMAIN outcomes
    BY <2>1, <1>t, SendType
  <2>3. PICK st, n : Become(st, n)
    BY <1>4 DEF StepReturns, StepRaises
  <2> QED BY <2>1, <2>2, <2>3, <1>t, BecomeChanges DEF PlansStay
<1>5. CASE Interrupt \/ NoClient \/ AuditUnwritable
  BY <1>5 DEF Interrupt, NoClient, AuditUnwritable, Abort, command, PlansStay
<1>6. CASE InterruptCall
  BY <1>6 DEF InterruptCall, Abort, command, PlansStay, Reply
<1>7. CASE World \/ UNCHANGED vars
  BY <1>7 DEF World, BackupSettles, UploadMoves, vars, command, PlansStay
<1> QED
  BY <1>1, <1>2, <1>3, <1>4, <1>5, <1>6, <1>7 DEF Next, Work, Start, Operator, Crash

\* What plan_for makes of a finding comes from its shipped cleaner.
LEMMA PlanForShipped ==
  ASSUME TypeOK, NEW f \in Findings, NEW o \in plan_for(f), o.steps # <<>>
  PROVE  f.check \in CLEANERS /\ \E u \in SUBSET UploadsOf(f) : o.steps = Plan(f, u)
<1>1. HasPlanner(f) /\ o = Yielded(Planner(f, there))
  BY DEF plan_for, Unsupported, CouldNotPlan
<1>2. f.check \in Cleanable /\ o.steps = Planner(f, there)
  BY <1>1 DEF HasPlanner, Yielded, Planned, Unsupported
<1>3. there \in SUBSET Resource
  BY DEF TypeOK
<1>4. f.check \in CLEANERS /\ Planner(f, there) = Plan(f, there \cap UploadsOf(f))
  BY <1>2, <1>3, ShippedAssumption
<1> QED  BY <1>2, <1>4

LEMMA PlansStep == Shipped /\ [Next]_vars => PlansAreShipped'
<1> SUFFICES ASSUME Shipped, [Next]_vars PROVE PlansAreShipped'
  OBVIOUS
<1>t. RunInvariant /\ TypeOK /\ OnTrack /\ PlansAreShipped
  BY DEF Shipped, RunInvariant
<1>1. CASE Load
  <2>1. outcomes' = outcomes /\ DOMAIN outcomes = {}
    BY <1>1, <1>t DEF Load, OnTrack, BeforeTheLoop
  <2> QED BY <2>1 DEF PlansAreShipped
<1>2. CASE PlanNext
  <2>1. PICK o \in plan_for(findings[Len(outcomes) + 1]) : outcomes' = Append(outcomes, o)
    BY <1>2 DEF PlanNext
  <2>2. findings[Len(outcomes) + 1] \in Findings /\ findings' = findings
    BY <1>2, <1>t DEF PlanNext, TypeOK, command
  <2>3. o \in Outcome
    BY <2>2, <1>t, PlanForType
  <2>4. /\ DOMAIN outcomes' = 1 .. Len(outcomes) + 1 /\ DOMAIN outcomes = 1 .. Len(outcomes)
        /\ Len(outcomes) \in Nat /\ outcomes'[Len(outcomes) + 1] = o
        /\ \A i \in DOMAIN outcomes : outcomes'[i] = outcomes[i]
    BY <2>1, <2>3, <1>t DEF TypeOK
  <2> SUFFICES ASSUME NEW i \in DOMAIN outcomes', outcomes'[i].steps # <<>>
               PROVE  /\ findings[i].check \in CLEANERS
                      /\ \E u \in SUBSET UploadsOf(findings[i]) :
                           outcomes'[i].steps = Plan(findings[i], u)
    BY <2>2 DEF PlansAreShipped
  <2>5. CASE i = Len(outcomes) + 1
    BY <2>2, <2>4, <2>5, <1>t, PlanForShipped
  <2>6. CASE i \in DOMAIN outcomes
    BY <2>4, <2>6, <1>t DEF PlansAreShipped
  <2> QED BY <2>4, <2>5, <2>6
<1>3. CASE PlansStay
  BY <1>3, <1>t DEF PlansStay, PlansAreShipped
<1> QED BY <1>1, <1>2, <1>3, <1>t, StepKinds

LEMMA AimStep == Shipped /\ [Next]_vars => CallsAreAimed'
<1> SUFFICES ASSUME Shipped, [Next]_vars PROVE CallsAreAimed'
  OBVIOUS
<1>t. RunInvariant /\ TypeOK /\ OnTrack /\ StepsInOrder /\ CallsAreAimed
  BY DEF Shipped, RunInvariant
<1>0. \A n \in DOMAIN calls : /\ calls[n].of \in DOMAIN outcomes
                              /\ calls[n].region = Where(StepOf(n), findings[calls[n].of])
  BY <1>t DEF StepsInOrder, CallsAreAimed
<1>1. CASE Load \/ PlanNext
  <2>1. calls' = calls /\ DOMAIN calls = {}
    BY <1>1, <1>t DEF Load, PlanNext, OnTrack, BeforeTheLoop
  <2> QED BY <2>1 DEF CallsAreAimed
<1>2. CASE PlansStay /\ calls' = calls
  BY <1>0, <1>2 DEF PlansStay, CallsAreAimed, StepOf, Where
<1>3. ASSUME PlansStay, NEW reply \in Reply, Send(reply)
      PROVE  CallsAreAimed'
  <2>1. /\ DOMAIN calls = 1 .. Len(calls) /\ Len(calls) \in Nat
        /\ DOMAIN calls' = 1 .. Len(calls) + 1
        /\ \A n \in DOMAIN calls : calls'[n] = calls[n]
        /\ calls'[Len(calls) + 1].of = turn /\ calls'[Len(calls) + 1].step = step
    BY <1>3, <1>t, SendLogs
  <2>2. turn \in DOMAIN outcomes
    BY <1>3, <1>t, SendType
  <2>3. calls'[Len(calls) + 1].region = Where(current.steps[step], findings[turn])
    BY <1>3, <1>t DEF Send, TypeOK
  <2>4. \A n : n = Len(calls) + 1 => StepOf(n)' = current.steps[step]
    BY <1>3, <2>1, <2>2 DEF StepOf, PlansStay, current
  <2>5. \A n \in DOMAIN calls : StepOf(n)' = StepOf(n)
    BY <1>0, <1>3, <2>1 DEF StepOf, PlansStay
  <2> SUFFICES ASSUME NEW n \in DOMAIN calls'
               PROVE  calls'[n].region = Where(StepOf(n)', findings[calls'[n].of])
    BY <1>3 DEF CallsAreAimed, PlansStay, Where
  <2>6. CASE n = Len(calls) + 1
    BY <2>1, <2>3, <2>4, <2>6
  <2>7. CASE n \in DOMAIN calls
    BY <1>0, <2>1, <2>5, <2>7
  <2> QED BY <2>1, <2>6, <2>7
<1> QED BY <1>1, <1>2, <1>3, <1>t, StepKinds

LEMMA ShippedHolds == Spec => []Shipped
<1>1. Init => Shipped
  <2>1. Init => DOMAIN outcomes = {} /\ DOMAIN calls = {}
    BY DEF Init
  <2> QED BY <2>1, InitInvariant DEF Shipped, PlansAreShipped, CallsAreAimed
<1>2. Shipped /\ [Next]_vars => Shipped'
  BY InvariantStep, PlansStep, AimStep DEF Shipped
<1> QED BY <1>1, <1>2, PTL DEF Spec

\* A call's step is a step of a shipped plan of a finding of the report.
LEMMA CallsAreShipped ==
  ASSUME Shipped, NEW n \in DOMAIN calls
  PROVE  /\ findings[calls[n].of] \in Findings /\ findings[calls[n].of].check \in CLEANERS
         /\ StepOf(n) \in Step
         /\ \E u \in SUBSET UploadsOf(findings[calls[n].of]) :
              outcomes[calls[n].of].steps = Plan(findings[calls[n].of], u)
         /\ calls[n].step \in DOMAIN outcomes[calls[n].of].steps
         /\ calls[n].step \in Nat
<1>1. calls[n].of \in DOMAIN outcomes /\ calls[n].step \in DOMAIN outcomes[calls[n].of].steps
  BY DEF Shipped, RunInvariant, StepsInOrder
<1>2. outcomes[calls[n].of] \in Outcome /\ calls[n].of \in DOMAIN findings
  BY <1>1 DEF Shipped, RunInvariant, OnTrack, InTheLoop, TypeOK
<1>3. outcomes[calls[n].of].steps \in Seq(Step)
  BY <1>2 DEF Outcome
<1>4. findings[calls[n].of] \in Findings
  BY <1>2 DEF Shipped, RunInvariant, TypeOK
<1>5. outcomes[calls[n].of].steps # <<>>
  BY <1>1
<1> QED BY <1>1, <1>3, <1>4, <1>5 DEF Shipped, PlansAreShipped, StepOf

(***************************************************************************)
(* Nothing a backup could keep is deleted before AWS has accepted its      *)
(* backup (core/cleaners.py:17-26, 96-111, lightsail/cleaners.py:17-34,    *)
(* 49-59): the cleaner plans the backup right before, for the same target, *)
(* and the runner does not go past a step that raised.                     *)
(***************************************************************************)
THEOREM BackupsComeFirst == Spec => []BackedUpFirst
<1>1. Shipped => BackedUpFirst
  <2> SUFFICES ASSUME Shipped, NEW n \in DOMAIN calls, NEW b \in BackupFor,
                      StepOf(n).operation = b[2]
               PROVE  \E m \in 1 .. n - 1 :
                        /\ StepOf(m).operation = b[1]
                        /\ StepOf(m).target = StepOf(n).target
                        /\ calls[m].region = calls[n].region
                        /\ calls[m].reply \in Returned
    BY DEF BackedUpFirst
  <2> DEFINE i == calls[n].of
             k == calls[n].step
             steps == outcomes[i].steps
  <2>1. /\ findings[i] \in Findings /\ findings[i].check \in CLEANERS
        /\ \E u \in SUBSET UploadsOf(findings[i]) : steps = Plan(findings[i], u)
        /\ k \in DOMAIN steps /\ k \in Nat /\ StepOf(n) = steps[k]
    BY CallsAreShipped DEF StepOf
  <2>2. PlanBackedUp(steps)
    BY <2>1, PlanIsBackedUp
  <2>3. /\ k - 1 \in DOMAIN steps /\ steps[k - 1].operation = b[1]
        /\ steps[k - 1].target = steps[k].target /\ steps[k - 1].region = steps[k].region
    BY <2>1, <2>2 DEF PlanBackedUp
  <2>4. TypeOK /\ StepsInOrder /\ CallsAreAimed
    BY DEF Shipped, RunInvariant
  <2>5. k - 1 \in 1 .. k - 1
    <3>1. i \in DOMAIN outcomes
      BY <2>4 DEF StepsInOrder
    <3>2. outcomes[i] \in Outcome
      BY <3>1, <2>4 DEF TypeOK
    <3>3. steps \in Seq(Step)
      BY <3>2 DEF Outcome
    <3> QED BY <2>1, <2>3, <3>3
  <2>6. PICK m \in 1 .. n - 1 : IsCall(m, i, k - 1) /\ calls[m].reply \in Returned
    BY <2>4, <2>5 DEF StepsInOrder
  <2>7. m \in DOMAIN calls /\ StepOf(m) = steps[k - 1] /\ calls[m].of = i
    <3>1. m \in DOMAIN calls
      BY <2>4 DEF TypeOK
    <3> QED BY <2>6, <3>1 DEF IsCall, StepOf
  <2>8. /\ calls[m].region = Where(steps[k - 1], findings[i])
        /\ calls[n].region = Where(steps[k], findings[i])
    BY <2>1, <2>4, <2>7 DEF CallsAreAimed
  <2>9. calls[m].region = calls[n].region
    BY <2>3, <2>8 DEF Where
  <2> QED BY <2>1, <2>3, <2>6, <2>7, <2>9
<1> QED BY <1>1, ShippedHolds, PTL

(***************************************************************************)
(* Every call goes where its target lives (cleaners.py:39-44,              *)
(* core/cleaners.py:297-307, clean.py:106-114).                            *)
(***************************************************************************)
THEOREM CallsReachTheirTarget == Spec => []CallsGoHome
<1>1. Shipped => CallsGoHome
  <2> SUFFICES ASSUME Shipped, NEW n \in DOMAIN calls
               PROVE  calls[n].region = IF Lives[StepOf(n).target] = GlobalRegion THEN Home
                                        ELSE Lives[StepOf(n).target]
    BY DEF CallsGoHome
  <2> DEFINE f == findings[calls[n].of]
             s == StepOf(n)
  <2>1. f \in Findings /\ s \in Step
    BY CallsAreShipped
  <2>2. calls[n].region = Where(s, f)
    BY DEF Shipped, CallsAreAimed
  <2>3. \/ s.region = OwnRegion /\ Near(f, s.target)
        \/ s.region \in Region /\ (s.target \in Resource => Lives[s.target] = s.region)
    BY CallsAreShipped, PlanIsNear DEF StepOf
  <2>4. s.target \in Resource
    BY <2>1 DEF Step
  <2>5. NoRegion = OwnRegion /\ NoRegion \notin Region /\ GlobalRegion \notin Region
    BY ShippedAssumption, CleanAssumption
  <2> HIDE DEF f, s
  <2> QED BY <2>2, <2>3, <2>4, <2>5 DEF Where, Near, s
<1> QED BY <1>1, ShippedHolds, PTL
===============================================================================
