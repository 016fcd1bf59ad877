---------------------------- MODULE CleanRunProofs ----------------------------
(***************************************************************************)
(* Proofs about CleanRun for every set of cleaners, every report and every *)
(* behaviour of the operator and of AWS.                                   *)
(***************************************************************************)
EXTENDS CleanRun, FiniteSetTheorems, TLAPS

(***************************************************************************)
(* Where the command is decides what it may have done: nothing is sent     *)
(* before the apply loop, the loop is entered with --apply only, and what  *)
(* is being applied was planned and agreed to.                             *)
(***************************************************************************)
BeforeTheLoop ==
  /\ pc \in {"starting", "planning"} => calls = <<>> /\ turn = 0 /\ answers = {}
  /\ pc = "starting" => outcomes = <<>>
  /\ pc = "planning" => ~ ForeignReport

InTheLoop ==
  /\ turn \in 0 .. Len(outcomes) /\ Len(outcomes) <= Len(findings)
  /\ pc \in {"asking", "applying"} => opt.apply /\ ~ ForeignReport
  /\ pc \in {"asking", "applying"} =>
       \A j \in Nat, a \in {"y", "n", "a", "q"} : <<j, a>> \in answers => j <= turn
  /\ all_remaining => opt.yes \/ \E j \in 1 .. turn : <<j, "a">> \in answers

AtTheTurn ==
  /\ pc = "applying" =>
       /\ turn \in DOMAIN outcomes /\ current.status = "planned"
       /\ AgreedTo(turn) /\ <<turn, "n">> \notin answers /\ <<turn, "q">> \notin answers
  /\ pc \in {"asking", "reporting", "ended"} /\ turn # 0 => current.status # "planned"

PlannedGoesOn ==
  \A i \in DOMAIN outcomes :
    outcomes[i].status = "planned" => outcomes[i].results < Len(outcomes[i].steps)

CallsSoFar == \A n \in DOMAIN calls : calls[n].of \in 1 .. turn

OnTrack == BeforeTheLoop /\ InTheLoop /\ AtTheTurn /\ PlannedGoesOn /\ CallsSoFar

-------------------------------------------------------------------------------
LEMMA FunctionIsSeq ==
  ASSUME NEW S, NEW n \in Nat, NEW f \in [1 .. n -> S]
  PROVE  f \in Seq(S)
OBVIOUS

LEMMA PlanForType ==
  ASSUME TypeOK, NEW f \in Findings, NEW o \in plan_for(f)
  PROVE  o \in Outcome
<1>1. Unsupported \in Outcome /\ CouldNotPlan \in Outcome
  BY DEF Unsupported, CouldNotPlan, Outcome, Status
<1>2. HasPlanner(f) => Planner(f, there) \in Seq(Step)
  BY CleanAssumption DEF HasPlanner, TypeOK
<1>3. HasPlanner(f) => Yielded(Planner(f, there)) \in Outcome
  BY <1>1, <1>2 DEF Yielded, Planned, Outcome, Status
<1> QED  BY <1>1, <1>3 DEF plan_for

LEMMA WhereType ==
  ASSUME NEW s \in Step, NEW f \in Findings
  PROVE  Where(s, f) \in Region
<1>1. s.region \in Region \cup {NoRegion} /\ f.region \in Region \cup {GlobalRegion}
  BY CleanAssumption DEF Step
<1>2. Home \in Region /\ NoRegion \notin Region /\ GlobalRegion \notin Region
  BY CleanAssumption
<1> QED  BY <1>1, <1>2 DEF Where

LEMMA OutcomesType ==
  ASSUME outcomes \in Seq(Outcome), NEW i \in DOMAIN outcomes,
         NEW st \in Status, NEW n \in Nat
  PROVE  [outcomes EXCEPT ![i] = [steps |-> outcomes[i].steps, status |-> st, results |-> n]]
           \in Seq(Outcome)
<1>0. outcomes[i] \in Outcome
  OBVIOUS
<1>1. outcomes[i].steps \in Seq(Step)
  BY <1>0 DEF Outcome
<1>2. [steps |-> outcomes[i].steps, status |-> st, results |-> n] \in Outcome
  BY <1>1 DEF Outcome
<1> QED  BY <1>2

\* What a call leaves behind is well typed.
LEMMA SendType ==
  ASSUME TypeOK, OnTrack, NEW reply \in Reply, Send(reply)
  PROVE  /\ calls' \in Seq(Call) /\ there' \subseteq Resource
         /\ copy' \in [Resource -> {"none", "pending", "landed", "failed"}]
         /\ turn \in DOMAIN outcomes /\ step \in DOMAIN current.steps /\ step \in Nat
<1>1. pc = "applying"
  BY DEF Send
<1>2. /\ turn \in DOMAIN outcomes /\ turn \in Nat \ {0} /\ current \in Outcome
      /\ current.results < Len(current.steps)
  BY <1>1 DEF OnTrack, AtTheTurn, PlannedGoesOn, TypeOK, current
<1>3. current.steps \in Seq(Step) /\ current.results \in Nat
  BY <1>2 DEF Outcome
<1>4. step \in DOMAIN current.steps /\ step \in Nat \ {0}
  BY <1>2, <1>3 DEF step
<1>5. current.steps[step] \in Step
  BY <1>3, <1>4
<1>6. findings[turn] \in Findings
  BY <1>2 DEF TypeOK, OnTrack, InTheLoop
<1> DEFINE c == [of |-> turn, step |-> step,
                 region |-> Where(current.steps[step], findings[turn]), reply |-> reply]
<1>7. c \in Call
  BY <1>2, <1>4, <1>5, <1>6, WhereType DEF Call
<1>8. calls' = Append(calls, c)
  BY DEF Send
<1> HIDE DEF c
<1>9. calls' \in Seq(Call)
  BY <1>7, <1>8 DEF TypeOK
<1>10. /\ there' = there \/ \E r : there' = there \ {r}
       /\ copy' = copy \/ copy' = [copy EXCEPT ![current.steps[step].target] = "pending"]
  BY DEF Send, aws
<1>11. /\ there' \subseteq Resource
       /\ copy' \in [Resource -> {"none", "pending", "landed", "failed"}]
  BY <1>10 DEF TypeOK
<1> QED  BY <1>2, <1>4, <1>9, <1>11

(***************************************************************************)
(* Every reachable state is well typed.                                    *)
(***************************************************************************)
LEMMA TypeStep == TypeOK /\ OnTrack /\ [Next]_vars => TypeOK'
<1> SUFFICES ASSUME TypeOK, OnTrack, [Next]_vars PROVE TypeOK'
  OBVIOUS
<1>1. CASE Refuse \/ RefuseForeignReport \/ RefuseNoData
  BY <1>1 DEF Refuse, RefuseForeignReport, RefuseNoData, End, command, aws, TypeOK, NoExit
<1>2. CASE Load
  <2>1. findings' \in Seq(Findings)
    <3>1. PICK s \in Reports :
            LET kept == {i \in DOMAIN s : Wanted(s[i])} IN
            \E e \in [1 .. Cardinality(kept) -> kept] : findings' = [i \in DOMAIN e |-> s[e[i]]]
      BY <1>2 DEF Load, Given
    <3> DEFINE kept == {i \in DOMAIN s : Wanted(s[i])}
    <3>2. s \in Seq(Findings)
      BY CleanAssumption
    <3>3. Len(s) \in Nat /\ DOMAIN s = 1 .. Len(s) /\ kept \subseteq 1 .. Len(s)
      BY <3>2
    <3>4. Cardinality(kept) \in Nat
      <4>1. IsFiniteSet(1 .. Len(s))
        BY <3>3, FS_Interval
      <4>2. kept \in SUBSET (1 .. Len(s))
        BY <3>3
      <4> HIDE DEF kept
      <4> QED  BY <4>1, <4>2, FS_Subset, FS_CardinalityType
    <3>5. PICK e \in [1 .. Cardinality(kept) -> kept] : findings' = [i \in DOMAIN e |-> s[e[i]]]
      BY <3>1
    <3>6. findings' \in [1 .. Cardinality(kept) -> Findings]
      BY <3>2, <3>3, <3>5
    <3> QED  BY <3>4, <3>6, FunctionIsSeq
  <2> QED  BY <1>2, <2>1 DEF Load, End, aws, TypeOK, NoExit
<1>3. CASE PlanNext
  <2>1. findings[Len(outcomes) + 1] \in Findings
    BY <1>3 DEF PlanNext, TypeOK
  <2>2. outcomes' \in Seq(Outcome)
    BY <1>3, <2>1, PlanForType DEF PlanNext, TypeOK
  <2> QED  BY <1>3, <2>2 DEF PlanNext, command, aws, TypeOK
<1>4. CASE Show \/ LoopEnds
  BY <1>4 DEF Show, LoopEnds, command, aws, TypeOK
<1>5. CASE Report
  <2>1. <<>> \in Seq(Outcome) /\ opt.apply \in BOOLEAN
    BY CleanAssumption DEF TypeOK, OptionType
  <2>2. audit' \in [applied : BOOLEAN, actions : Seq(Outcome)]
    BY <1>5, <2>1 DEF Report, audit_document, NoAudit, TypeOK
  <2> QED  BY <1>5, <2>2 DEF Report, End, ExitStatus, NoExit, command, aws, TypeOK
<1>6. ASSUME NEW i \in DOMAIN outcomes, Proceed(i) \/ Approve(i) \/ Decline(i) \/ Quit(i)
      PROVE  TypeOK'
  <2>1. i \in Nat
    BY DEF TypeOK
  <2>2. [outcomes EXCEPT ![i] = [steps |-> outcomes[i].steps, status |-> "skipped", results |-> 0]]
          \in Seq(Outcome)
    BY OutcomesType DEF TypeOK, Status
  <2>3. answers' \subseteq Nat \X {"y", "n", "a", "q"}
    BY <1>6, <2>1 DEF Proceed, Approve, Decline, Quit, Said, TypeOK
  <2> QED
    BY <1>6, <2>1, <2>2, <2>3 DEF Proceed, Approve, Decline, Quit, command, aws, TypeOK
<1>7. ASSUME NEW reply \in Reply, StepReturns(reply) \/ StepRaises(reply)
      PROVE  TypeOK'
  <2>1. Send(reply)
    BY <1>7 DEF StepReturns, StepRaises
  <2>2. /\ calls' \in Seq(Call) /\ there' \subseteq Resource
        /\ copy' \in [Resource -> {"none", "pending", "landed", "failed"}]
        /\ turn \in DOMAIN outcomes /\ step \in Nat
    BY <2>1, SendType
  <2>3. current \in Outcome /\ outcomes \in Seq(Outcome)
    BY <2>2 DEF current, TypeOK
  <2>4. current.results \in Nat
    BY <2>3 DEF Outcome
  <2>5. \E st \in Status, n \in Nat : Become(st, n)
    BY <1>7, <2>2, <2>4 DEF StepReturns, StepRaises, Status
  <2>6. outcomes' \in Seq(Outcome)
    BY <2>2, <2>3, <2>5, OutcomesType DEF Become, current
  <2> QED  BY <1>7, <2>2, <2>6 DEF StepReturns, StepRaises, command, TypeOK
<1>8. CASE Interrupt \/ NoClient \/ AuditUnwritable
  BY <1>8 DEF Interrupt, NoClient, AuditUnwritable, Abort, command, aws, TypeOK
<1>9. CASE InterruptCall
  <2>1. PICK reply \in Reply : Send(reply) /\ Abort
    BY <1>9 DEF InterruptCall, Reply
  <2>2. /\ calls' \in Seq(Call) /\ there' \subseteq Resource
        /\ copy' \in [Resource -> {"none", "pending", "landed", "failed"}]
    BY <2>1, SendType
  <2> QED  BY <2>1, <2>2 DEF Abort, command, TypeOK
<1>10. CASE World
  <2>1. there' \subseteq Resource
    BY <1>10, CleanAssumption DEF World, BackupSettles, UploadMoves, TypeOK
  <2>2. copy' \in [Resource -> {"none", "pending", "landed", "failed"}]
    BY <1>10 DEF World, BackupSettles, UploadMoves, TypeOK
  <2> QED  BY <1>10, <2>1, <2>2 DEF World, BackupSettles, UploadMoves, command, TypeOK
<1>11. CASE UNCHANGED vars
  BY <1>11 DEF vars, TypeOK
<1> QED
  BY <1>1, <1>2, <1>3, <1>4, <1>5, <1>6, <1>7, <1>8, <1>9, <1>10, <1>11
  DEF Next, Work, Start, Operator, Crash

-------------------------------------------------------------------------------
\* A call is logged under the outcome at the turn, which is being applied.
LEMMA SendLogs ==
  ASSUME TypeOK, OnTrack, NEW reply \in Reply, Send(reply)
  PROVE  /\ pc = "applying"
         /\ Len(calls) \in Nat /\ DOMAIN calls = 1 .. Len(calls)
         /\ DOMAIN calls' = 1 .. Len(calls) + 1
         /\ \A n \in DOMAIN calls : calls'[n] = calls[n]
         /\ calls'[Len(calls) + 1].of = turn /\ calls'[Len(calls) + 1].step = step
         /\ calls'[Len(calls) + 1].reply = reply
<1> DEFINE c == [of |-> turn, step |-> step,
                 region |-> Where(current.steps[step], findings[turn]), reply |-> reply]
<1>1. c.of = turn /\ c.step = step /\ c.reply = reply
  OBVIOUS
<1>2. calls' = Append(calls, c) /\ pc = "applying"
  BY DEF Send
<1> HIDE DEF c
<1>3. calls \in Seq(Call)
  BY DEF TypeOK
<1>4. /\ Len(calls) \in Nat /\ DOMAIN calls = 1 .. Len(calls)
      /\ DOMAIN calls' = 1 .. Len(calls) + 1
      /\ \A n \in DOMAIN calls : calls'[n] = calls[n]
      /\ calls'[Len(calls) + 1] = c
  BY <1>2, <1>3
<1> QED  BY <1>1, <1>2, <1>4

\* Becoming something else at the turn changes that outcome only.
LEMMA BecomeChanges ==
  ASSUME TypeOK, turn \in DOMAIN outcomes, NEW st, NEW n, Become(st, n)
  PROVE  /\ DOMAIN outcomes' = DOMAIN outcomes /\ Len(outcomes') = Len(outcomes)
         /\ outcomes'[turn].status = st /\ outcomes'[turn].results = n
         /\ outcomes'[turn].steps = outcomes[turn].steps
         /\ \A i \in DOMAIN outcomes : i # turn => outcomes'[i] = outcomes[i]
<1>1. outcomes \in Seq(Outcome)
  BY DEF TypeOK
<1> QED  BY <1>1 DEF Become, current

LEMMA OnTrackStep == TypeOK /\ OnTrack /\ [Next]_vars => OnTrack'
<1> SUFFICES ASSUME TypeOK, OnTrack, [Next]_vars PROVE OnTrack'
  OBVIOUS
<1>t. /\ outcomes \in Seq(Outcome) /\ findings \in Seq(Findings) /\ turn \in Nat
      /\ Len(outcomes) \in Nat /\ DOMAIN outcomes = 1 .. Len(outcomes) /\ Len(findings) \in Nat
  BY DEF TypeOK
<1>p. BeforeTheLoop /\ InTheLoop /\ AtTheTurn /\ PlannedGoesOn /\ CallsSoFar
  BY DEF OnTrack
<1> USE DEF command, aws
<1>1. CASE Refuse \/ RefuseForeignReport \/ RefuseNoData
  BY <1>1, <1>p DEF Refuse, RefuseForeignReport, RefuseNoData, End, OnTrack, BeforeTheLoop,
    InTheLoop, AtTheTurn, PlannedGoesOn, CallsSoFar, AgreedTo, current, ForeignReport
<1>2. CASE Load
  <2>1. Len(findings') \in Nat
    BY <1>2, TypeStep DEF TypeOK
  <2>2. outcomes = <<>> /\ outcomes' = outcomes /\ turn = 0 /\ turn' = 0 /\ calls' = calls
          /\ answers' = answers /\ opt' = opt /\ pc' \in {"planning", "ended"}
          /\ all_remaining' = all_remaining /\ ~ ForeignReport /\ calls = <<>> /\ answers = {}
    BY <1>2, <1>p DEF Load, End, BeforeTheLoop
  <2> QED
    BY <2>1, <2>2, <1>p DEF OnTrack, BeforeTheLoop, InTheLoop, AtTheTurn, PlannedGoesOn, CallsSoFar,
      ForeignReport
<1>3. CASE PlanNext
  <2>1. PICK o \in plan_for(findings[Len(outcomes) + 1]) : outcomes' = Append(outcomes, o)
    BY <1>3 DEF PlanNext
  <2>2. findings[Len(outcomes) + 1] \in Findings
    BY <1>3, <1>t DEF PlanNext
  <2>3. o \in Outcome
    BY <2>1, <2>2, PlanForType
  <2>4. o.status = "planned" => o.results < Len(o.steps)
    <3>1. CASE o = Unsupported \/ o = CouldNotPlan
      BY <3>1 DEF Unsupported, CouldNotPlan
    <3>2. CASE o # Unsupported /\ o # CouldNotPlan
      <4>1. o.steps # <<>> /\ o.results = 0
        BY <2>1, <3>2 DEF plan_for, Yielded, Planned
      <4>2. o.steps \in Seq(Step)
        BY <2>3 DEF Outcome
      <4> QED  BY <4>1, <4>2
    <3> QED  BY <3>1, <3>2
  <2>5. /\ DOMAIN outcomes' = 1 .. Len(outcomes) + 1 /\ Len(outcomes') = Len(outcomes) + 1
        /\ outcomes'[Len(outcomes) + 1] = o
        /\ \A i \in DOMAIN outcomes : outcomes'[i] = outcomes[i]
    BY <2>1, <2>3, <1>t
  <2>6. PlannedGoesOn'
    BY <2>4, <2>5, <1>t, <1>p DEF PlannedGoesOn
  <2>7. Len(outcomes) + 1 <= Len(findings) /\ turn = 0 /\ pc = "planning"
    BY <1>3, <1>t, <1>p DEF PlanNext, BeforeTheLoop
  <2> QED
    BY <1>3, <2>5, <2>6, <2>7, <1>t, <1>p DEF PlanNext, OnTrack, BeforeTheLoop, InTheLoop, AtTheTurn,
      CallsSoFar, ForeignReport
<1>4. CASE Show \/ LoopEnds \/ Report
  <2>1. UNCHANGED <<opt, findings, outcomes, turn, all_remaining, answers, calls>>
    BY <1>4 DEF Show, LoopEnds, Report
  <2>2. /\ pc \in {"planning", "asking", "reporting"} /\ pc' \in {"asking", "reporting", "ended"}
        /\ pc = "planning" => turn = 0 /\ (pc' = "asking" => opt.apply) /\ ~ ForeignReport
        /\ pc' = "asking" => pc = "planning"
    BY <1>4, <1>p DEF Show, LoopEnds, Report, End, BeforeTheLoop
  <2>3. BeforeTheLoop' /\ PlannedGoesOn' /\ CallsSoFar'
    BY <2>1, <2>2, <1>p DEF BeforeTheLoop, PlannedGoesOn, CallsSoFar
  <2>4. InTheLoop'
    <3>1. pc' \in {"asking", "applying"} => opt'.apply /\ ~ ForeignReport'
      BY <2>1, <2>2 DEF ForeignReport
    <3>2. pc' \in {"asking", "applying"} => answers' = {}
      BY <2>1, <2>2, <1>p DEF BeforeTheLoop
    <3>3. all_remaining' => opt'.yes \/ \E j \in 1 .. turn' : <<j, "a">> \in answers'
      BY <2>1, <1>p DEF InTheLoop
    <3>4. turn' \in 0 .. Len(outcomes') /\ Len(outcomes') <= Len(findings')
      BY <2>1, <1>p DEF InTheLoop
    <3> QED  BY <3>1, <3>2, <3>3, <3>4 DEF InTheLoop
  <2>5. AtTheTurn'
    BY <2>1, <2>2, <1>p DEF AtTheTurn, current
  <2> QED  BY <2>3, <2>4, <2>5 DEF OnTrack
<1>5. ASSUME NEW i \in DOMAIN outcomes, Proceed(i) \/ Approve(i)
      PROVE  OnTrack'
  <2>1. /\ pc = "asking" /\ pc' = "applying" /\ turn < i /\ turn' = i /\ i \in 1 .. Len(outcomes)
        /\ outcomes[i].status = "planned"
        /\ UNCHANGED <<opt, findings, outcomes, calls>>
    BY <1>5, <1>t DEF Proceed, Approve, Asking, IsNext
  <2>2. opt.apply /\ ~ ForeignReport
          /\ \A j \in Nat, a \in {"y", "n", "a", "q"} : <<j, a>> \in answers => j <= turn
    BY <2>1, <1>p DEF InTheLoop
  <2>3. /\ answers \subseteq answers'
        /\ \A j \in Nat, a \in {"y", "n", "a", "q"} :
             <<j, a>> \in answers' => <<j, a>> \in answers \/ (j = i /\ a \in {"y", "a"})
    BY <1>5 DEF Proceed, Approve, Said
  <2>4. all_remaining' => opt.yes \/ \E j \in 1 .. i : <<j, "a">> \in answers'
    <3>1. CASE Proceed(i)
      BY <3>1, <2>1, <1>t, <1>p DEF Proceed, InTheLoop
    <3>2. CASE Approve(i)
      <4>1. all_remaining' => <<i, "a">> \in answers'
        BY <3>2 DEF Approve, Said
      <4> QED  BY <4>1, <2>1
    <3> QED  BY <1>5, <3>1, <3>2
  <2>5. AgreedTo(i)'
    <3>1. CASE Proceed(i)
      BY <3>1, <2>1, <2>4 DEF Proceed, AgreedTo
    <3>2. CASE Approve(i)
      <4>1. PICK a \in {"y", "a"} : <<i, a>> \in answers'
        BY <3>2 DEF Approve, Said
      <4> QED  BY <4>1, <2>1 DEF AgreedTo
    <3> QED  BY <1>5, <3>1, <3>2
  <2>6. <<i, "n">> \notin answers' /\ <<i, "q">> \notin answers'
    <3>1. <<i, "n">> \notin answers /\ <<i, "q">> \notin answers
      <4>1. i \in Nat /\ ~ (i <= turn)
        BY <2>1, <1>t
      <4> QED  BY <4>1, <2>2
    <3>2. /\ <<i, "n">> \in answers' => <<i, "n">> \in answers
          /\ <<i, "q">> \in answers' => <<i, "q">> \in answers
      <4>1. PICK a \in {"y", "a"} : answers' \subseteq answers \cup {<<i, a>>}
        BY <1>5 DEF Proceed, Approve, Said
      <4>2. <<i, "n">> # <<i, a>> /\ <<i, "q">> # <<i, a>>
        OBVIOUS
      <4> QED  BY <4>1, <4>2
    <3> QED  BY <3>1, <3>2
  <2>7. InTheLoop'
    <3>1. turn' \in 0 .. Len(outcomes') /\ Len(outcomes') <= Len(findings')
      BY <2>1, <1>t, <1>p DEF InTheLoop
    <3>2. opt'.apply /\ ~ ForeignReport'
      BY <2>1, <2>2 DEF ForeignReport
    <3>3. \A j \in Nat, a \in {"y", "n", "a", "q"} : <<j, a>> \in answers' => j <= turn'
      <4>1. SUFFICES ASSUME NEW j \in Nat, NEW a \in {"y", "n", "a", "q"}, <<j, a>> \in answers'
                     PROVE  j <= turn'
        OBVIOUS
      <4>2. j <= turn \/ j = i
        BY <4>1, <2>2, <2>3
      <4> QED  BY <4>2, <2>1, <1>t
    <3>4. all_remaining' => opt'.yes \/ \E j \in 1 .. turn' : <<j, "a">> \in answers'
      BY <2>1, <2>4
    <3> QED  BY <3>1, <3>2, <3>3, <3>4 DEF InTheLoop
  <2>8. AtTheTurn'
    <3>1. AgreedTo(turn)'
      BY <2>1, <2>5 DEF AgreedTo
    <3>2. current'.status = "planned" /\ turn' \in DOMAIN outcomes'
      BY <2>1 DEF current
    <3>3. <<turn', "n">> \notin answers' /\ <<turn', "q">> \notin answers'
      BY <2>1, <2>6
    <3> QED  BY <2>1, <3>1, <3>2, <3>3 DEF AtTheTurn
  <2>9. CallsSoFar'
    BY <2>1, <1>t, <1>p DEF CallsSoFar
  <2> QED
    BY <2>1, <2>7, <2>8, <2>9, <1>p DEF OnTrack, BeforeTheLoop, PlannedGoesOn
<1>6. ASSUME NEW i \in DOMAIN outcomes, Decline(i)
      PROVE  OnTrack'
  <2>1. /\ pc = "asking" /\ pc' = pc /\ turn < i /\ turn' = i /\ i \in 1 .. Len(outcomes)
        /\ UNCHANGED <<opt, findings, all_remaining, calls>>
    BY <1>6, <1>t DEF Decline, Asking, IsNext
  <2>2. /\ DOMAIN outcomes' = DOMAIN outcomes /\ Len(outcomes') = Len(outcomes)
        /\ outcomes'[i].status = "skipped"
        /\ \A j \in DOMAIN outcomes : j # i => outcomes'[j] = outcomes[j]
    BY <1>6, <1>t DEF Decline
  <2>3. opt.apply /\ ~ ForeignReport
          /\ \A j \in Nat, a \in {"y", "n", "a", "q"} : <<j, a>> \in answers => j <= turn
    BY <2>1, <1>p DEF InTheLoop
  <2>4. /\ ~ all_remaining
        /\ \A j \in Nat, a \in {"y", "n", "a", "q"} : <<j, a>> \in answers' => <<j, a>> \in answers \/ j = i
    BY <1>6 DEF Decline, Said
  <2>5. InTheLoop'
    BY <2>1, <2>2, <2>3, <2>4, <1>t, <1>p DEF InTheLoop, ForeignReport
  <2>6. AtTheTurn' /\ PlannedGoesOn' /\ CallsSoFar'
    BY <2>1, <2>2, <1>t, <1>p DEF AtTheTurn, PlannedGoesOn, CallsSoFar, current
  <2> QED  BY <2>1, <2>5, <2>6 DEF OnTrack, BeforeTheLoop
<1>7. ASSUME NEW i \in DOMAIN outcomes, Quit(i)
      PROVE  OnTrack'
  <2>1. /\ pc = "asking" /\ pc' = "reporting" /\ UNCHANGED <<opt, findings, outcomes, turn, all_remaining, calls>>
        /\ answers \subseteq answers'
    BY <1>7 DEF Quit, Asking, Said
  <2> QED
    BY <2>1, <1>p DEF OnTrack, BeforeTheLoop, InTheLoop, AtTheTurn, PlannedGoesOn, CallsSoFar,
      current
<1>8. ASSUME NEW reply \in Reply, StepReturns(reply) \/ StepRaises(reply)
      PROVE  OnTrack'
  <2>1. Send(reply) /\ turn \in DOMAIN outcomes /\ step \in DOMAIN current.steps /\ step \in Nat
    BY <1>8, SendType DEF StepReturns, StepRaises
  <2>2. /\ pc = "applying" /\ Len(calls) \in Nat /\ DOMAIN calls = 1 .. Len(calls)
        /\ DOMAIN calls' = 1 .. Len(calls) + 1
        /\ \A n \in DOMAIN calls : calls'[n] = calls[n]
        /\ calls'[Len(calls) + 1].of = turn
    BY <2>1, SendLogs
  <2>3. UNCHANGED <<opt, findings, turn, all_remaining, answers>> /\ pc' \in {"asking", "applying"}
    BY <1>8 DEF StepReturns, StepRaises
  <2>4. current.steps \in Seq(Step)
    <3>1. current \in Outcome
      BY <2>1, <1>t DEF current
    <3> QED  BY <3>1 DEF Outcome
  <2>5. PICK st, n : /\ Become(st, n)
                     /\ pc' = "applying" => st = "planned" /\ n = step /\ step # Len(current.steps)
                     /\ pc' = "asking" => st # "planned"
    BY <1>8 DEF StepReturns, StepRaises
  <2>6. /\ DOMAIN outcomes' = DOMAIN outcomes /\ Len(outcomes') = Len(outcomes)
        /\ outcomes'[turn].status = st /\ outcomes'[turn].results = n
        /\ outcomes'[turn].steps = outcomes[turn].steps
        /\ \A i \in DOMAIN outcomes : i # turn => outcomes'[i] = outcomes[i]
    BY <2>1, <2>5, BecomeChanges
  <2>7. PlannedGoesOn'
    <3>1. st = "planned" => n < Len(outcomes'[turn].steps)
      BY <2>1, <2>3, <2>4, <2>5, <2>6 DEF current
    <3> QED  BY <3>1, <2>6, <1>p DEF PlannedGoesOn
  <2>8. AtTheTurn'
    BY <2>2, <2>3, <2>5, <2>6, <2>1, <1>p DEF AtTheTurn, current, AgreedTo
  <2>9. CallsSoFar'
    <3>1. turn \in 1 .. turn
      BY <2>1, <1>t
    <3> QED  BY <3>1, <2>2, <2>3, <1>p DEF CallsSoFar
  <2>10. InTheLoop'
    BY <2>2, <2>3, <2>6, <1>p DEF InTheLoop, ForeignReport
  <2> QED  BY <2>3, <2>7, <2>8, <2>9, <2>10 DEF OnTrack, BeforeTheLoop
<1>9. CASE Interrupt \/ NoClient \/ AuditUnwritable
  <2>1. pc' = "aborted" /\ UNCHANGED <<opt, findings, outcomes, turn, all_remaining, answers, calls>>
    BY <1>9 DEF Interrupt, NoClient, AuditUnwritable, Abort
  <2> QED
    BY <2>1, <1>p DEF OnTrack, BeforeTheLoop, InTheLoop, AtTheTurn, PlannedGoesOn, CallsSoFar
<1>10. CASE InterruptCall
  <2>1. PICK reply \in Reply : Send(reply) /\ Abort
    BY <1>10 DEF InterruptCall, Reply
  <2>2. /\ pc = "applying" /\ Len(calls) \in Nat /\ DOMAIN calls = 1 .. Len(calls)
        /\ DOMAIN calls' = 1 .. Len(calls) + 1
        /\ \A n \in DOMAIN calls : calls'[n] = calls[n]
        /\ calls'[Len(calls) + 1].of = turn
    BY <2>1, SendLogs
  <2>3. turn \in 1 .. turn
    BY <2>2, <1>t, <1>p DEF AtTheTurn
  <2>4. CallsSoFar'
    BY <2>1, <2>2, <2>3, <1>p DEF CallsSoFar, Abort
  <2> QED
    BY <2>1, <2>2, <2>4, <1>p DEF Abort, OnTrack, BeforeTheLoop, InTheLoop, AtTheTurn, PlannedGoesOn
<1>11. CASE World \/ UNCHANGED vars
  <2>1. UNCHANGED <<opt, findings, pc, outcomes, turn, all_remaining, answers, calls>>
    BY <1>11 DEF World, BackupSettles, UploadMoves, vars
  <2> QED
    BY <2>1, <1>p DEF OnTrack, BeforeTheLoop, InTheLoop, AtTheTurn, PlannedGoesOn, CallsSoFar,
      current, AgreedTo, ForeignReport
<1> QED
  BY <1>1, <1>2, <1>3, <1>4, <1>5, <1>6, <1>7, <1>8, <1>9, <1>10, <1>11
  DEF Next, Work, Start, Operator, Crash

-------------------------------------------------------------------------------
\* What the log says of a step changes with the call that is made, no other.
LEMMA SendRecords ==
  ASSUME TypeOK, OnTrack, NEW reply \in Reply, Send(reply), NEW i, NEW k
  PROVE  /\ ReturnedStep(i, k)' <=>
              ReturnedStep(i, k) \/ (i = turn /\ k = step /\ reply \in Returned)
         /\ RaisedStep(i, k)' <=>
              RaisedStep(i, k) \/ (i = turn /\ k = step /\ reply \in Raised)
<1>1. /\ Len(calls) \in Nat /\ DOMAIN calls = 1 .. Len(calls)
      /\ DOMAIN calls' = 1 .. Len(calls) + 1
      /\ \A n \in DOMAIN calls : calls'[n] = calls[n]
      /\ calls'[Len(calls) + 1].of = turn /\ calls'[Len(calls) + 1].step = step
      /\ calls'[Len(calls) + 1].reply = reply
  BY SendLogs
<1>2. ASSUME NEW R
      PROVE  (\E n \in DOMAIN calls' : (calls'[n].of = i /\ calls'[n].step = k) /\ calls'[n].reply \in R)
               <=> \/ \E n \in DOMAIN calls : (calls[n].of = i /\ calls[n].step = k) /\ calls[n].reply \in R
                   \/ i = turn /\ k = step /\ reply \in R
  BY <1>1
<1> QED  BY <1>2 DEF ReturnedStep, RaisedStep, IsCall

\* Without a call, and with every plan as it was, the log stays in order.
LEMMA QuietStepsInOrder ==
  ASSUME StepsInOrder, calls' = calls,
         \A i \in DOMAIN outcomes : i \in DOMAIN outcomes' /\ outcomes'[i].steps = outcomes[i].steps
  PROVE  StepsInOrder'
BY DEF StepsInOrder, IsCall

LEMMA QuietOutcome ==
  ASSUME NEW i, OutcomeIsTrue(i), calls' = calls, outcomes'[i] = outcomes[i],
         outcomes[i].status = "planned" /\ i # turn' => i # turn
  PROVE  OutcomeIsTrue(i)'
BY DEF OutcomeIsTrue, ReturnedStep, RaisedStep, IsCall

(***************************************************************************)
(* The step that sends a call: it is the next of the plan at the turn,     *)
(* everything before it returned, and nothing raised.                      *)
(***************************************************************************)
LEMMA SendInOrder ==
  ASSUME TypeOK, OnTrack, StepsInOrder, OutcomesAreTrue, NEW reply \in Reply, Send(reply),
         \A i \in DOMAIN outcomes : i \in DOMAIN outcomes' /\ outcomes'[i].steps = outcomes[i].steps
  PROVE  StepsInOrder'
<1>1. /\ pc = "applying" /\ Len(calls) \in Nat /\ DOMAIN calls = 1 .. Len(calls)
      /\ DOMAIN calls' = 1 .. Len(calls) + 1
      /\ \A n \in DOMAIN calls : calls'[n] = calls[n]
      /\ calls'[Len(calls) + 1].of = turn /\ calls'[Len(calls) + 1].step = step
  BY SendLogs
<1>2. turn \in DOMAIN outcomes /\ step \in DOMAIN current.steps /\ step \in Nat
  BY SendType
<1>3. OutcomeIsTrue(turn) /\ current.status = "planned" /\ current \in Outcome
  BY <1>1, <1>2 DEF OutcomesAreTrue, OnTrack, AtTheTurn, current, TypeOK
<1>4. current.results \in Nat /\ step = current.results + 1 /\ current.steps \in Seq(Step)
  BY <1>3 DEF Outcome, step
<1>5. \A k \in DOMAIN current.steps : ~ RaisedStep(turn, k) /\ (ReturnedStep(turn, k) <=> k < step)
  BY <1>3, <1>4 DEF OutcomeIsTrue, current
<1>6. \A n \in DOMAIN calls : ~ IsCall(n, turn, step)
  <2> SUFFICES ASSUME NEW n \in DOMAIN calls, IsCall(n, turn, step) PROVE FALSE
    OBVIOUS
  <2>0. calls[n] \in Call
    BY DEF TypeOK
  <2>1. calls[n].reply \in Returned \cup Raised
    BY <2>0 DEF Call, Reply
  <2>2. ReturnedStep(turn, step) \/ RaisedStep(turn, step)
    BY <2>1 DEF ReturnedStep, RaisedStep
  <2> QED  BY <2>2, <1>2, <1>5
<1>7. \A k \in 1 .. step - 1 :
        \E m \in 1 .. Len(calls) : IsCall(m, turn, k) /\ calls[m].reply \in Returned
  <2> SUFFICES ASSUME NEW k \in 1 .. step - 1 PROVE ReturnedStep(turn, k)
    BY <1>1 DEF ReturnedStep
  <2>1. k \in DOMAIN current.steps /\ k < step
    BY <1>2, <1>4
  <2> QED  BY <2>1, <1>5
<1>8. ASSUME NEW n \in DOMAIN calls'
      PROVE  /\ calls'[n].of \in DOMAIN outcomes'
             /\ calls'[n].step \in DOMAIN outcomes'[calls'[n].of].steps
             /\ \A k \in 1 .. calls'[n].step - 1 :
                  \E m \in 1 .. n - 1 : IsCall(m, calls[n].of, k)' /\ calls'[m].reply \in Returned
  <2>1. CASE n = Len(calls) + 1
    <3>1. calls'[n].of = turn /\ calls'[n].step = step /\ 1 .. n - 1 = DOMAIN calls
      BY <2>1, <1>1
    <3>2. outcomes'[turn].steps = current.steps /\ turn \in DOMAIN outcomes'
      BY <1>2 DEF current
    <3>3. \A k \in 1 .. step - 1 : \E m \in 1 .. Len(calls) :
            calls'[m].of = turn /\ calls'[m].step = k /\ calls'[m].reply \in Returned
      BY <1>1, <1>7 DEF IsCall
    <3>4. 1 .. n - 1 = 1 .. Len(calls)
      BY <2>1, <1>1
    <3> QED  BY <3>1, <3>2, <3>3, <3>4, <1>2 DEF IsCall
  <2>2. CASE n # Len(calls) + 1
    <3>1. n \in DOMAIN calls /\ calls'[n] = calls[n] /\ \A m \in 1 .. n - 1 : calls'[m] = calls[m]
      BY <2>2, <1>1
    <3>2. /\ calls[n].of \in DOMAIN outcomes
          /\ calls[n].step \in DOMAIN outcomes[calls[n].of].steps
          /\ \A k \in 1 .. calls[n].step - 1 :
               \E m \in 1 .. n - 1 : IsCall(m, calls[n].of, k) /\ calls[m].reply \in Returned
      BY <3>1 DEF StepsInOrder
    <3> QED  BY <3>1, <3>2 DEF IsCall
  <2> QED  BY <2>1, <2>2
<1>9. ASSUME NEW m \in DOMAIN calls', NEW n \in DOMAIN calls', IsCall(m, calls[n].of, calls[n].step)'
      PROVE  m = n
  <2>1. calls'[m].of = calls'[n].of /\ calls'[m].step = calls'[n].step
    BY <1>9 DEF IsCall
  <2>2. CASE m \in DOMAIN calls /\ n \in DOMAIN calls
    <3>1. calls[m].of = calls[n].of /\ calls[m].step = calls[n].step
      BY <2>1, <2>2, <1>1
    <3> QED  BY <2>2, <3>1 DEF StepsInOrder, IsCall
  <2>3. CASE m = Len(calls) + 1 /\ n \in DOMAIN calls
    BY <2>1, <2>3, <1>1, <1>6 DEF IsCall
  <2>4. CASE m \in DOMAIN calls /\ n = Len(calls) + 1
    BY <2>1, <2>4, <1>1, <1>6 DEF IsCall
  <2> QED  BY <2>2, <2>3, <2>4, <1>1
<1> QED  BY <1>8, <1>9 DEF StepsInOrder

-------------------------------------------------------------------------------
\* Only the action that sends a call changes the log.
LEMMA QuietOrSend == [Next]_vars => calls' = calls \/ \E reply \in Reply : Send(reply)
<1> USE DEF aws
<1>1. ASSUME NEW i \in DOMAIN outcomes, Proceed(i) \/ Approve(i) \/ Decline(i) \/ Quit(i)
      PROVE  calls' = calls
  BY <1>1 DEF Proceed, Approve, Decline, Quit
<1>2. ASSUME NEW reply \in Reply, StepReturns(reply) \/ StepRaises(reply)
      PROVE  Send(reply)
  BY <1>2 DEF StepReturns, StepRaises
<1>3. CASE Start \/ PlanNext \/ Show \/ LoopEnds \/ Report
  BY <1>3 DEF Start, Refuse, RefuseForeignReport, RefuseNoData, Load, PlanNext, Show, LoopEnds, Report
<1>4. CASE Crash
  BY <1>4 DEF Crash, Interrupt, InterruptCall, NoClient, AuditUnwritable, Reply
<1>5. CASE World \/ UNCHANGED vars
  BY <1>5 DEF World, BackupSettles, UploadMoves, vars
<1> QED  BY <1>1, <1>2, <1>3, <1>4, <1>5 DEF Next, Work, Operator

(***************************************************************************)
(* Every step keeps the plans, and what was settled.                       *)
(***************************************************************************)
LEMMA SettledStep ==
  TypeOK /\ OnTrack /\ [Next]_vars =>
    \A i \in DOMAIN outcomes : i \in DOMAIN outcomes' /\ SettlesOnce(i)
<1> SUFFICES ASSUME TypeOK, OnTrack, [Next]_vars, NEW j \in DOMAIN outcomes
             PROVE  j \in DOMAIN outcomes' /\ SettlesOnce(j)
  OBVIOUS
<1>t. outcomes \in Seq(Outcome)
  BY DEF TypeOK
<1>1. CASE outcomes' = outcomes
  BY <1>1 DEF SettlesOnce
<1>2. CASE PlanNext
  <2>1. \E o : outcomes' = Append(outcomes, o) /\ o \in Outcome
    <3>1. findings[Len(outcomes) + 1] \in Findings
      BY <1>2 DEF PlanNext, TypeOK
    <3> QED  BY <1>2, <3>1, PlanForType DEF PlanNext
  <2> QED  BY <2>1, <1>t DEF SettlesOnce
<1>3. ASSUME NEW i \in DOMAIN outcomes, Decline(i)
      PROVE  j \in DOMAIN outcomes' /\ SettlesOnce(j)
  <2>1. outcomes[i].status = "planned"
    BY <1>3 DEF Decline, Asking, IsNext
  <2> QED  BY <1>3, <2>1, <1>t DEF Decline, SettlesOnce
<1>4. ASSUME NEW reply \in Reply, StepReturns(reply) \/ StepRaises(reply)
      PROVE  j \in DOMAIN outcomes' /\ SettlesOnce(j)
  <2>1. turn \in DOMAIN outcomes /\ outcomes[turn].status = "planned"
    BY <1>4 DEF StepReturns, StepRaises, Send, OnTrack, AtTheTurn, current
  <2>2. \E st, n : Become(st, n)
    BY <1>4 DEF StepReturns, StepRaises
  <2> QED  BY <2>1, <2>2, BecomeChanges DEF SettlesOnce
<1>5. ASSUME NEW i \in DOMAIN outcomes, Proceed(i) \/ Approve(i) \/ Quit(i)
      PROVE  outcomes' = outcomes
  BY <1>5 DEF Proceed, Approve, Quit
<1>6. CASE Start \/ Show \/ LoopEnds \/ Report \/ Crash \/ World \/ UNCHANGED vars
  BY <1>1, <1>6 DEF Start, Refuse, RefuseForeignReport, RefuseNoData, Load, Show, LoopEnds, Report,
    Crash, Interrupt, InterruptCall, NoClient, AuditUnwritable, Abort, World, BackupSettles,
    UploadMoves, vars
<1> QED  BY <1>1, <1>2, <1>3, <1>4, <1>5, <1>6 DEF Next, Work, Operator

LEMMA StepsInOrderStep ==
  TypeOK /\ OnTrack /\ StepsInOrder /\ OutcomesAreTrue /\ [Next]_vars => StepsInOrder'
<1> SUFFICES ASSUME TypeOK, OnTrack, StepsInOrder, OutcomesAreTrue, [Next]_vars
             PROVE  StepsInOrder'
  OBVIOUS
<1>1. \A i \in DOMAIN outcomes : i \in DOMAIN outcomes' /\ outcomes'[i].steps = outcomes[i].steps
  BY SettledStep DEF SettlesOnce
<1> QED  BY <1>1, QuietOrSend, QuietStepsInOrder, SendInOrder

(***************************************************************************)
(* What the outcomes say stays true: an outcome that is new, or not at the *)
(* turn, has had no call; the one at the turn moves with its call.         *)
(***************************************************************************)
LEMMA NoCallsBeyond ==
  ASSUME CallsSoFar, NEW i, i \notin 1 .. turn, NEW k
  PROVE  ~ ReturnedStep(i, k) /\ ~ RaisedStep(i, k)
BY DEF CallsSoFar, ReturnedStep, RaisedStep, IsCall

LEMMA OutcomesAreTrueStep ==
  TypeOK /\ OnTrack /\ OutcomesAreTrue /\ [Next]_vars => OutcomesAreTrue'
<1> SUFFICES ASSUME TypeOK, OnTrack, OutcomesAreTrue, [Next]_vars, pc' # "aborted",
                    NEW j \in DOMAIN outcomes'
             PROVE  OutcomeIsTrue(j)'
  BY DEF OutcomesAreTrue
<1>t. /\ outcomes \in Seq(Outcome) /\ findings \in Seq(Findings) /\ turn \in Nat
      /\ Len(outcomes) \in Nat /\ DOMAIN outcomes = 1 .. Len(outcomes)
  BY DEF TypeOK
<1>p. BeforeTheLoop /\ InTheLoop /\ AtTheTurn /\ PlannedGoesOn /\ CallsSoFar
  BY DEF OnTrack
<1>a. pc # "aborted"
  BY DEF Next, Work, Start, Operator, Crash, World, Refuse, RefuseForeignReport, RefuseNoData, Load,
    PlanNext, Show, LoopEnds, Report, Proceed, Approve, Decline, Quit, Asking, StepReturns,
    StepRaises, Send, Interrupt, InterruptCall, NoClient, AuditUnwritable, Abort, BackupSettles,
    UploadMoves, vars
<1>o. \A i \in DOMAIN outcomes : OutcomeIsTrue(i)
  BY <1>a DEF OutcomesAreTrue
<1>1. CASE UNCHANGED <<outcomes, turn, calls>>
  <2>1. j \in DOMAIN outcomes /\ outcomes'[j] = outcomes[j]
    BY <1>1
  <2> QED  BY <1>1, <2>1, <1>o, QuietOutcome
<1>2. CASE PlanNext
  <2>1. PICK o \in plan_for(findings[Len(outcomes) + 1]) : outcomes' = Append(outcomes, o)
    BY <1>2 DEF PlanNext
  <2>2. findings[Len(outcomes) + 1] \in Findings
    BY <1>2, <1>t DEF PlanNext
  <2>3. o \in Outcome
    BY <2>1, <2>2, PlanForType
  <2>4. calls = <<>> /\ calls' = calls /\ turn' = turn /\ turn = 0
    BY <1>2, <1>p DEF PlanNext, BeforeTheLoop
  <2>5. CASE j \in DOMAIN outcomes
    <3>1. outcomes'[j] = outcomes[j]
      BY <2>1, <2>3, <2>5, <1>t
    <3> QED  BY <2>4, <2>5, <3>1, <1>o, QuietOutcome
  <2>6. CASE j \notin DOMAIN outcomes
    <3>1. outcomes'[j] = o
      BY <2>1, <2>3, <2>6, <1>t
    <3>2. \A k : ~ ReturnedStep(j, k)' /\ ~ RaisedStep(j, k)'
      BY <2>4 DEF ReturnedStep, RaisedStep
    <3>3. o.steps \in Seq(Step)
      BY <2>3 DEF Outcome
    <3>4. o.results = 0 /\ o.status # "applied" /\ (o.status = "failed" => o.steps = <<>>)
      BY <2>1 DEF plan_for, Unsupported, CouldNotPlan, Yielded, Planned
    <3> QED  BY <3>1, <3>2, <3>3, <3>4 DEF OutcomeIsTrue
  <2> QED  BY <2>5, <2>6
<1>3. ASSUME NEW i \in DOMAIN outcomes, Proceed(i) \/ Approve(i)
      PROVE  OutcomeIsTrue(j)'
  <2>1. pc = "asking" /\ turn' = i /\ UNCHANGED <<outcomes, calls>>
    BY <1>3 DEF Proceed, Approve, Asking
  <2>2. j \in DOMAIN outcomes /\ outcomes'[j] = outcomes[j]
    BY <2>1
  <2>3. outcomes[j].status = "planned" => j # turn
    BY <2>1, <2>2, <1>t, <1>p DEF AtTheTurn, current
  <2> QED  BY <2>1, <2>2, <2>3, <1>o, QuietOutcome
<1>4. ASSUME NEW i \in DOMAIN outcomes, Decline(i)
      PROVE  OutcomeIsTrue(j)'
  <2>1. /\ pc = "asking" /\ turn < i /\ turn' = i /\ calls' = calls
    BY <1>4, <1>t DEF Decline, Asking, IsNext
  <2>2. /\ DOMAIN outcomes' = DOMAIN outcomes
        /\ outcomes'[i] = [steps |-> outcomes[i].steps, status |-> "skipped", results |-> 0]
        /\ \A k \in DOMAIN outcomes : k # i => outcomes'[k] = outcomes[k]
    BY <1>4, <1>t DEF Decline
  <2>3. CASE j # i
    <3>1. j \in DOMAIN outcomes /\ outcomes'[j] = outcomes[j]
      BY <2>2, <2>3
    <3>2. outcomes[j].status = "planned" => j # turn
      BY <2>1, <3>1, <1>t, <1>p DEF AtTheTurn, current
    <3> QED  BY <2>1, <3>1, <3>2, <1>o, QuietOutcome
  <2>4. CASE j = i
    <3>1. \A k : ~ ReturnedStep(i, k) /\ ~ RaisedStep(i, k)
      BY <2>1, <1>t, <1>p, NoCallsBeyond
    <3>2. \A k : ~ ReturnedStep(i, k)' /\ ~ RaisedStep(i, k)'
      BY <3>1, <2>1 DEF ReturnedStep, RaisedStep, IsCall
    <3>3. outcomes[i].steps \in Seq(Step)
      <4>1. outcomes[i] \in Outcome
        BY <1>t
      <4> QED  BY <4>1 DEF Outcome
    <3> QED  BY <2>2, <2>4, <3>2, <3>3 DEF OutcomeIsTrue
  <2> QED  BY <2>3, <2>4
<1>5. ASSUME NEW reply \in Reply, StepReturns(reply) \/ StepRaises(reply)
      PROVE  OutcomeIsTrue(j)'
  <2>1. Send(reply) /\ pc = "applying" /\ turn' = turn
    BY <1>5 DEF StepReturns, StepRaises, Send
  <2>2. turn \in DOMAIN outcomes /\ step \in DOMAIN current.steps /\ step \in Nat
    BY <2>1, SendType
  <2>3. PICK st, n :
          /\ Become(st, n)
          /\ \/ reply \in Returned /\ n = step
                /\ st = IF step = Len(current.steps) THEN "applied" ELSE "planned"
             \/ reply \in Raised /\ n = current.results /\ st = "failed"
    BY <1>5 DEF StepReturns, StepRaises
  <2>4. /\ DOMAIN outcomes' = DOMAIN outcomes
        /\ outcomes'[turn].status = st /\ outcomes'[turn].results = n
        /\ outcomes'[turn].steps = current.steps
        /\ \A i \in DOMAIN outcomes : i # turn => outcomes'[i] = outcomes[i]
    BY <2>2, <2>3, BecomeChanges DEF current
  <2>5. \A i, k : /\ ReturnedStep(i, k)' <=>
                      ReturnedStep(i, k) \/ (i = turn /\ k = step /\ reply \in Returned)
                  /\ RaisedStep(i, k)' <=>
                      RaisedStep(i, k) \/ (i = turn /\ k = step /\ reply \in Raised)
    BY <2>1, SendRecords
  <2>6. CASE j # turn
    <3>1. j \in DOMAIN outcomes /\ outcomes'[j] = outcomes[j] /\ OutcomeIsTrue(j)
      BY <2>4, <2>6, <1>o
    <3>2. \A k : (ReturnedStep(j, k)' <=> ReturnedStep(j, k)) /\ (RaisedStep(j, k)' <=> RaisedStep(j, k))
      BY <2>5, <2>6
    <3> QED  BY <2>1, <2>6, <3>1, <3>2 DEF OutcomeIsTrue
  <2>7. CASE j = turn
    <3>1. current \in Outcome /\ OutcomeIsTrue(turn) /\ current.status = "planned"
      BY <2>1, <2>2, <1>t, <1>o, <1>p DEF current, AtTheTurn
    <3>2. current.results \in Nat /\ step = current.results + 1 /\ current.steps \in Seq(Step)
      BY <3>1 DEF Outcome, step
    <3>3. /\ \A k \in DOMAIN current.steps : ReturnedStep(turn, k) <=> k <= current.results
          /\ \A k \in DOMAIN current.steps : ~ RaisedStep(turn, k)
      BY <3>1 DEF OutcomeIsTrue, current
    <3>4. DOMAIN current.steps = 1 .. Len(current.steps) /\ Len(current.steps) \in Nat
            /\ current.steps # <<>>
      BY <2>2, <3>2
    <3>5. reply \in Returned => reply \notin Raised
      BY DEF Returned, Raised
    <3>6. n <= Len(current.steps)
      BY <2>2, <2>3, <3>2, <3>4
    <3>a. \A k : /\ ReturnedStep(j, k)' <=>
                      ReturnedStep(turn, k) \/ (k = step /\ reply \in Returned)
                 /\ RaisedStep(j, k)' <=>
                      RaisedStep(turn, k) \/ (k = step /\ reply \in Raised)
      BY <2>5, <2>7
    <3>7. ASSUME NEW k \in DOMAIN current.steps
          PROVE  ReturnedStep(j, k)' <=> k <= n
      <4>1. k \in Nat /\ (ReturnedStep(j, k)' <=>
                            k <= current.results \/ (k = step /\ reply \in Returned))
        BY <3>a, <3>3, <3>4
      <4> QED  BY <4>1, <2>3, <3>2, <3>5
    <3>8. ASSUME NEW k \in DOMAIN current.steps
          PROVE  RaisedStep(j, k)' <=> st = "failed" /\ k = n + 1
      <4>1. k \in Nat /\ (RaisedStep(j, k)' <=> k = step /\ reply \in Raised)
        BY <3>a, <3>3, <3>4
      <4> QED  BY <4>1, <2>3, <3>2, <3>5
    <3>9. /\ st = "applied" => n = Len(current.steps)
          /\ st \notin {"skipped", "unsupported"}
      BY <2>3
    <3> QED  BY <2>1, <2>4, <2>7, <3>4, <3>6, <3>7, <3>8, <3>9 DEF OutcomeIsTrue
  <2> QED  BY <2>6, <2>7
<1>6. CASE Start \/ Show \/ LoopEnds \/ Report \/ World \/ UNCHANGED vars
  BY <1>1, <1>6 DEF Start, Refuse, RefuseForeignReport, RefuseNoData, Load, Show, LoopEnds, Report,
    World, BackupSettles, UploadMoves, vars
<1>7. ASSUME NEW i \in DOMAIN outcomes, Quit(i)
      PROVE  UNCHANGED <<outcomes, turn, calls>>
  BY <1>7 DEF Quit
<1>8. CASE Crash
  BY <1>8 DEF Crash, Interrupt, InterruptCall, NoClient, AuditUnwritable, Abort
<1> QED  BY <1>1, <1>2, <1>3, <1>4, <1>5, <1>6, <1>7, <1>8 DEF Next, Work, Operator

-------------------------------------------------------------------------------
LEMMA ApprovalStep ==
  TypeOK /\ OnTrack /\ OnlyApprovedCalls /\ [Next]_vars => OnlyApprovedCalls'
<1> SUFFICES ASSUME TypeOK, OnTrack, OnlyApprovedCalls, [Next]_vars PROVE OnlyApprovedCalls'
  OBVIOUS
<1>t. turn \in Nat
  BY DEF TypeOK
<1>p. InTheLoop /\ AtTheTurn /\ CallsSoFar
  BY DEF OnTrack
<1> USE DEF command, aws
<1>1. ASSUME UNCHANGED <<opt, answers, calls>>
      PROVE  OnlyApprovedCalls'
  BY <1>1 DEF OnlyApprovedCalls, AgreedTo
<1>2. ASSUME NEW i \in DOMAIN outcomes, Approve(i) \/ Decline(i) \/ Quit(i)
      PROVE  OnlyApprovedCalls'
  <2>1. PICK a : answers' = answers \cup {<<i, a>>} /\ UNCHANGED <<opt, calls>> /\ i > turn
    BY <1>2 DEF Approve, Decline, Quit, Said, Asking, IsNext
  <2> SUFFICES ASSUME NEW n \in DOMAIN calls
               PROVE  /\ opt.apply /\ ~ (opt.from /\ opt.scanned_as = "another")
                      /\ AgreedTo(calls[n].of)'
                      /\ <<calls[n].of, "n">> \notin answers' /\ <<calls[n].of, "q">> \notin answers'
    BY <2>1 DEF OnlyApprovedCalls, AgreedTo
  <2>2. calls[n].of # i
    BY <2>1, <1>t, <1>p DEF CallsSoFar
  <2>3. AgreedTo(calls[n].of)'
    BY <2>1 DEF OnlyApprovedCalls, AgreedTo
  <2> QED  BY <2>1, <2>2, <2>3 DEF OnlyApprovedCalls
<1>3. ASSUME NEW reply \in Reply, Send(reply), UNCHANGED <<opt, answers>>
      PROVE  OnlyApprovedCalls'
  <2>1. /\ pc = "applying" /\ DOMAIN calls = 1 .. Len(calls) /\ Len(calls) \in Nat
        /\ DOMAIN calls' = 1 .. Len(calls) + 1
        /\ \A n \in DOMAIN calls : calls'[n] = calls[n]
        /\ calls'[Len(calls) + 1].of = turn
    BY <1>3, SendLogs
  <2>2. /\ opt.apply /\ ~ (opt.from /\ opt.scanned_as = "another") /\ AgreedTo(turn)
        /\ <<turn, "n">> \notin answers /\ <<turn, "q">> \notin answers
    BY <2>1, <1>p DEF InTheLoop, AtTheTurn, ForeignReport
  <2> SUFFICES ASSUME NEW n \in DOMAIN calls'
               PROVE  /\ (opt.apply /\ ~ (opt.from /\ opt.scanned_as = "another"))'
                      /\ AgreedTo(calls[n].of)'
                      /\ <<calls'[n].of, "n">> \notin answers' /\ <<calls'[n].of, "q">> \notin answers'
    BY DEF OnlyApprovedCalls
  <2>3. CASE n \in DOMAIN calls
    <3>1. calls'[n] = calls[n]
      BY <2>1, <2>3
    <3>2. AgreedTo(calls[n].of) /\ <<calls[n].of, "n">> \notin answers
            /\ <<calls[n].of, "q">> \notin answers
      BY <2>3 DEF OnlyApprovedCalls
    <3> QED  BY <1>3, <2>2, <3>1, <3>2 DEF AgreedTo
  <2>4. CASE n = Len(calls) + 1
    <3>1. calls'[n].of = turn
      BY <2>1, <2>4
    <3> QED  BY <1>3, <2>2, <3>1 DEF AgreedTo
  <2> QED  BY <2>1, <2>3, <2>4
<1>4. ASSUME NEW i \in DOMAIN outcomes, Proceed(i)
      PROVE  UNCHANGED <<opt, answers, calls>>
  BY <1>4 DEF Proceed
<1>5. ASSUME NEW reply \in Reply, StepReturns(reply) \/ StepRaises(reply)
      PROVE  Send(reply) /\ UNCHANGED <<opt, answers>>
  BY <1>5 DEF StepReturns, StepRaises
<1>6. CASE InterruptCall
  BY <1>3, <1>6 DEF InterruptCall, Abort, Reply
<1>7. CASE Interrupt \/ NoClient \/ AuditUnwritable
  BY <1>1, <1>7 DEF Interrupt, NoClient, AuditUnwritable, Abort
<1>8. CASE Start \/ PlanNext \/ Show \/ LoopEnds \/ Report \/ World \/ UNCHANGED vars
  BY <1>1, <1>8 DEF Start, Refuse, RefuseForeignReport, RefuseNoData, Load, PlanNext, Show, LoopEnds,
    Report, World, BackupSettles, UploadMoves, vars
<1> QED
  BY <1>1, <1>2, <1>3, <1>4, <1>5, <1>6, <1>7, <1>8 DEF Next, Work, Operator, Crash

-------------------------------------------------------------------------------
(***************************************************************************)
(* The invariant the theorems rest on, and that every behaviour keeps.     *)
(***************************************************************************)
RunInvariant == TypeOK /\ OnTrack /\ StepsInOrder /\ OutcomesAreTrue /\ OnlyApprovedCalls

LEMMA InitInvariant == Init => RunInvariant
<1> SUFFICES ASSUME Init PROVE RunInvariant
  OBVIOUS
<1>1. opt \in OptionType
  BY CleanAssumption DEF Init
<1>2. <<>> \in Seq(Outcome) /\ <<>> \in Seq(Findings) /\ <<>> \in Seq(Call)
  OBVIOUS
<1>3. opt.yes \in BOOLEAN
  BY <1>1 DEF OptionType
<1>4. audit \in [applied : BOOLEAN, actions : Seq(Outcome)]
  BY <1>2 DEF Init, NoAudit
<1>5. copy \in [Resource -> {"none", "pending", "landed", "failed"}]
  BY DEF Init
<1>6. TypeOK
  BY <1>2, <1>3, <1>4, <1>5 DEF Init, TypeOK, NoExit
<1>7. DOMAIN calls = {} /\ DOMAIN outcomes = {} /\ Len(outcomes) = 0 /\ Len(findings) = 0
  BY DEF Init
<1>8. OnTrack
  BY <1>7 DEF Init, OnTrack, BeforeTheLoop, InTheLoop, AtTheTurn, PlannedGoesOn, CallsSoFar
<1>9. StepsInOrder /\ OutcomesAreTrue /\ OnlyApprovedCalls
  BY <1>7 DEF StepsInOrder, OutcomesAreTrue, OnlyApprovedCalls
<1> QED  BY <1>6, <1>8, <1>9 DEF RunInvariant

LEMMA InvariantStep == RunInvariant /\ [Next]_vars => RunInvariant'
BY TypeStep, OnTrackStep, StepsInOrderStep, OutcomesAreTrueStep, ApprovalStep DEF RunInvariant

LEMMA Invariance == Spec => []RunInvariant
BY InitInvariant, InvariantStep, PTL DEF Spec

(***************************************************************************)
(* The variables keep their types, however many findings, reports and      *)
(* cleaners there are.                                                     *)
(***************************************************************************)
THEOREM TypeCorrect == Spec => []TypeOK
<1>1. RunInvariant => TypeOK
  BY DEF RunInvariant
<1> QED  BY <1>1, Invariance, PTL

(***************************************************************************)
(* The steps of a plan are sent in order, each at most once, and none      *)
(* after one that raised: a backup that could not be started is never      *)
(* followed by the deletion it was for (clean.py:97-127).                  *)
(***************************************************************************)
THEOREM StepsAreInOrder == Spec => []StepsInOrder
<1>1. RunInvariant => StepsInOrder
  BY DEF RunInvariant
<1> QED  BY <1>1, Invariance, PTL

(***************************************************************************)
(* The outcomes the command shows and writes say what was done.            *)
(***************************************************************************)
THEOREM OutcomesTellTheTruth == Spec => []OutcomesAreTrue
<1>1. RunInvariant => OutcomesAreTrue
  BY DEF RunInvariant
<1> QED  BY <1>1, Invariance, PTL

(***************************************************************************)
(* No call is made that the operator did not agree to (cli.py:313-320,     *)
(* 365-401).                                                               *)
(***************************************************************************)
THEOREM CallsAreApproved == Spec => []OnlyApprovedCalls
<1>1. RunInvariant => OnlyApprovedCalls
  BY DEF RunInvariant
<1> QED  BY <1>1, Invariance, PTL

(***************************************************************************)
(* What was shown is what is sent, and no outcome changes once settled     *)
(* (clean.py:3-6).                                                         *)
(***************************************************************************)
THEOREM PlansAreKept == Spec => OutcomesSettleOnce
<1>1. RunInvariant /\ [Next]_vars => [\A i \in DOMAIN outcomes : SettlesOnce(i)]_vars
  BY SettledStep DEF RunInvariant
<1> QED  BY <1>1, Invariance, PTL DEF Spec, OutcomesSettleOnce

-------------------------------------------------------------------------------
(***************************************************************************)
(* What the command leaves behind when it ends: a written audit is the     *)
(* record of the outcomes there are, the exit status counts them, unless   *)
(* there was nothing to do; and an outcome that failed stopped short of    *)
(* its last step or was never planned.                                     *)
(***************************************************************************)
AuditKept == audit # NoAudit => pc = "ended" /\ audit = audit_document

ExitKept == pc = "ended" => exit = ExitStatus \/ (calls = <<>> /\ outcomes = <<>>)

FailedFell ==
  \A i \in DOMAIN outcomes :
    outcomes[i].status = "failed" =>
      outcomes[i] = CouldNotPlan \/ outcomes[i].results < Len(outcomes[i].steps)

Closing == AuditKept /\ ExitKept /\ FailedFell

LEMMA ClosingStep == RunInvariant /\ Closing /\ [Next]_vars => Closing'
<1> SUFFICES ASSUME RunInvariant, Closing, [Next]_vars PROVE Closing'
  OBVIOUS
<1>t. TypeOK /\ OnTrack
  BY DEF RunInvariant
<1>1. CASE Start
  <2>1. /\ pc = "starting" /\ calls' = calls /\ outcomes' = outcomes /\ audit' = audit
    BY <1>1 DEF Start, Refuse, RefuseForeignReport, RefuseNoData, Load
  <2>2. calls = <<>> /\ outcomes = <<>> /\ audit = NoAudit
    BY <2>1, <1>t DEF OnTrack, BeforeTheLoop, Closing, AuditKept
  <2> QED BY <2>1, <2>2 DEF Closing, AuditKept, ExitKept, FailedFell
<1>2. CASE PlanNext
  <2>1. /\ pc = "planning" /\ pc' = pc /\ audit' = audit
        /\ \E o \in plan_for(findings[Len(outcomes) + 1]) : outcomes' = Append(outcomes, o)
    BY <1>2 DEF PlanNext
  <2>2. PICK o \in plan_for(findings[Len(outcomes) + 1]) : outcomes' = Append(outcomes, o)
    BY <2>1
  <2>3. o.status = "failed" => o = CouldNotPlan
    BY DEF plan_for, Yielded, Unsupported, Planned, CouldNotPlan
  <2>4. findings[Len(outcomes) + 1] \in Findings
    BY <1>2, <1>t DEF PlanNext, TypeOK
  <2>5. o \in Outcome
    BY <2>4, <1>t, PlanForType
  <2>6. \A i \in DOMAIN outcomes' : outcomes'[i] = o \/ (i \in DOMAIN outcomes
                                                       /\ outcomes'[i] = outcomes[i])
    BY <2>2, <2>5, <1>t DEF TypeOK
  <2>7. FailedFell'
    BY <2>3, <2>6 DEF Closing, FailedFell
  <2> QED BY <2>1, <2>7 DEF Closing, AuditKept, ExitKept
<1>3. CASE \/ Show \/ LoopEnds
           \/ \E i \in DOMAIN outcomes : Proceed(i) \/ Approve(i) \/ Quit(i)
  <2>1. /\ pc \in {"planning", "asking"} /\ pc' \in {"asking", "applying", "reporting"}
        /\ outcomes' = outcomes /\ audit' = audit
    BY <1>3 DEF Show, LoopEnds, Proceed, Approve, Quit, Asking
  <2> QED BY <2>1 DEF Closing, AuditKept, ExitKept, FailedFell
<1>4. ASSUME NEW i \in DOMAIN outcomes, Decline(i)
      PROVE  Closing'
  <2>1. /\ pc = "asking" /\ pc' = pc /\ audit' = audit
        /\ outcomes' = [outcomes EXCEPT ![i] =
                          [steps |-> outcomes[i].steps, status |-> "skipped", results |-> 0]]
    BY <1>4 DEF Decline, Asking
  <2>2. FailedFell'
    BY <2>1, <1>t DEF Closing, FailedFell, TypeOK
  <2> QED BY <2>1, <2>2 DEF Closing, AuditKept, ExitKept
<1>5. ASSUME NEW reply \in Reply, StepReturns(reply) \/ StepRaises(reply)
      PROVE  Closing'
  <2>1. pc = "applying" /\ pc' \in {"asking", "applying"} /\ audit' = audit
    BY <1>5 DEF StepReturns, StepRaises, Send
  <2>2. /\ turn \in DOMAIN outcomes /\ current.results < Len(current.steps)
    BY <2>1, <1>t DEF OnTrack, AtTheTurn, PlannedGoesOn, current
  <2>3. \/ \E st \in {"applied", "planned"} : Become(st, step)
        \/ Become("failed", current.results)
    BY <1>5 DEF StepReturns, StepRaises
  <2>4. PICK st, n : Become(st, n) /\ (st = "failed" => n = current.results)
    BY <2>3
  <2>5. /\ DOMAIN outcomes' = DOMAIN outcomes
        /\ outcomes'[turn] = [steps |-> current.steps, status |-> st, results |-> n]
        /\ \A i \in DOMAIN outcomes : i # turn => outcomes'[i] = outcomes[i]
    BY <2>2, <2>4, <1>t DEF Become, TypeOK
  <2>6. FailedFell'
    <3> SUFFICES ASSUME NEW i \in DOMAIN outcomes, outcomes'[i].status = "failed"
                 PROVE  outcomes'[i] = CouldNotPlan
                          \/ outcomes'[i].results < Len(outcomes'[i].steps)
      BY <2>5 DEF FailedFell
    <3>1. CASE i = turn
      BY <3>1, <2>2, <2>4, <2>5
    <3>2. CASE i # turn
      BY <3>2, <2>5 DEF Closing, FailedFell
    <3> QED BY <3>1, <3>2
  <2> QED BY <2>1, <2>6 DEF Closing, AuditKept, ExitKept
<1>6. CASE Report
  <2>1. /\ pc' = "ended" /\ outcomes' = outcomes /\ exit' = ExitStatus
        /\ opt' = opt /\ audit' \in {audit_document, NoAudit}
    BY <1>6 DEF Report, End, command
  <2>2. audit_document' = audit_document /\ ExitStatus' = ExitStatus
    BY <2>1 DEF audit_document, ExitStatus, AnyFailed
  <2> QED BY <2>1, <2>2 DEF Closing, AuditKept, ExitKept, FailedFell
<1>7. CASE Crash
  <2>1. /\ pc \in {"starting", "planning", "asking", "applying", "reporting"}
        /\ pc' = "aborted" /\ outcomes' = outcomes /\ audit' = audit
    BY <1>7 DEF Crash, Interrupt, InterruptCall, NoClient, AuditUnwritable, Abort, Send
  <2> QED BY <2>1 DEF Closing, AuditKept, ExitKept, FailedFell
<1>8. CASE World \/ UNCHANGED vars
  <2>1. UNCHANGED <<opt, pc, outcomes, audit, exit, calls>>
    BY <1>8 DEF World, BackupSettles, UploadMoves, vars, command
  <2>2. audit_document' = audit_document /\ ExitStatus' = ExitStatus
    BY <2>1 DEF audit_document, ExitStatus, AnyFailed
  <2> QED BY <2>1, <2>2 DEF Closing, AuditKept, ExitKept, FailedFell
<1> QED
  BY <1>1, <1>2, <1>3, <1>4, <1>5, <1>6, <1>7, <1>8 DEF Next, Work, Operator

LEMMA ClosingHolds == Spec => [](RunInvariant /\ Closing)
<1>1. Init => Closing
  <2>1. Init => DOMAIN outcomes = {} /\ audit = NoAudit /\ pc = "starting"
    BY DEF Init
  <2> QED BY <2>1 DEF Closing, AuditKept, ExitKept, FailedFell
<1> QED
  BY <1>1, InitInvariant, InvariantStep, ClosingStep, PTL DEF Spec

(***************************************************************************)
(* A written audit accounts for every call, for any cleaners and replies   *)
(* (clean.py:131-168, cli.py:414-415).                                     *)
(***************************************************************************)
THEOREM AuditsAreTrue == Spec => []AuditIsTrue
<1>1. RunInvariant /\ Closing => AuditIsTrue
  <2> SUFFICES ASSUME RunInvariant, Closing, audit # NoAudit
               PROVE  /\ audit.applied = opt.apply
                      /\ \A n \in DOMAIN calls :
                           LET action == audit.actions[calls[n].of] IN
                           IF calls[n].reply \in Returned THEN calls[n].step <= action.results
                           ELSE action.status = "failed" /\ calls[n].step = action.results + 1
                      /\ \A i \in DOMAIN audit.actions :
                           \A k \in 1 .. audit.actions[i].results : ReturnedStep(i, k)
    BY DEF AuditIsTrue
  <2>1. audit.applied = opt.apply /\ audit.actions = outcomes /\ pc = "ended"
    BY DEF Closing, AuditKept, audit_document
  <2>2. \A i \in DOMAIN outcomes : OutcomeIsTrue(i)
    BY <2>1 DEF RunInvariant, OutcomesAreTrue
  <2>3. ASSUME NEW n \in DOMAIN calls
        PROVE  LET action == outcomes[calls[n].of] IN
               IF calls[n].reply \in Returned THEN calls[n].step <= action.results
               ELSE action.status = "failed" /\ calls[n].step = action.results + 1
    <3>1. calls[n].of \in DOMAIN outcomes
          /\ calls[n].step \in DOMAIN outcomes[calls[n].of].steps
      BY DEF RunInvariant, StepsInOrder
    <3>2. calls[n] \in Call
      BY DEF RunInvariant, TypeOK
    <3>3. calls[n].reply \in Returned \/ calls[n].reply \in Raised
      BY <3>2 DEF Call, Reply
    <3>4. calls[n].reply \in Returned => ReturnedStep(calls[n].of, calls[n].step)
      BY DEF ReturnedStep, IsCall
    <3>5. calls[n].reply \in Raised => RaisedStep(calls[n].of, calls[n].step)
      BY DEF RaisedStep, IsCall
    <3> QED BY <3>1, <3>3, <3>4, <3>5, <2>2 DEF OutcomeIsTrue
  <2>4. ASSUME NEW i \in DOMAIN outcomes, NEW k \in 1 .. outcomes[i].results
        PROVE  ReturnedStep(i, k)
    <3>1. outcomes[i] \in Outcome
      BY DEF RunInvariant, TypeOK
    <3>2. outcomes[i].steps \in Seq(Step) /\ outcomes[i].results \in Nat
      BY <3>1 DEF Outcome
    <3>3. k \in DOMAIN outcomes[i].steps /\ k <= outcomes[i].results
      BY <3>2, <2>2 DEF OutcomeIsTrue
    <3> QED BY <3>3, <2>2 DEF OutcomeIsTrue
  <2> QED BY <2>1, <2>3, <2>4
<1> QED  BY <1>1, ClosingHolds, PTL

(***************************************************************************)
(* The exit status tells whether something went wrong (cli.py:408,         *)
(* 416-417).                                                               *)
(***************************************************************************)
THEOREM ExitsTellFailure == Spec => []ExitTellsFailure
<1>1. RunInvariant /\ Closing => ExitTellsFailure
  <2> SUFFICES ASSUME RunInvariant, Closing, pc = "ended", opt.apply
               PROVE  LET trouble == (\E n \in DOMAIN calls : calls[n].reply \in Raised)
                                       \/ \E i \in DOMAIN outcomes : outcomes[i] = CouldNotPlan
                      IN  /\ exit = 0 => ~ trouble
                          /\ exit = 1 => trouble \/ outcomes = <<>>
    BY DEF ExitTellsFailure
  <2>1. \A i \in DOMAIN outcomes : OutcomeIsTrue(i)
    BY DEF RunInvariant, OutcomesAreTrue
  <2>2. CASE calls = <<>> /\ outcomes = <<>>
    BY <2>2
  <2>3. CASE exit = ExitStatus
    <3>1. exit = IF AnyFailed THEN 1 ELSE 0
      BY <2>3 DEF ExitStatus
    <3>2. ASSUME NEW n \in DOMAIN calls, calls[n].reply \in Raised
          PROVE  AnyFailed
      <4>1. calls[n].of \in DOMAIN outcomes
            /\ calls[n].step \in DOMAIN outcomes[calls[n].of].steps
        BY DEF RunInvariant, StepsInOrder
      <4>2. RaisedStep(calls[n].of, calls[n].step)
        BY <3>2 DEF RaisedStep, IsCall
      <4> QED BY <4>1, <4>2, <2>1 DEF OutcomeIsTrue, AnyFailed
    <3>3. ASSUME NEW i \in DOMAIN outcomes, outcomes[i] = CouldNotPlan
          PROVE  AnyFailed
      BY <3>3 DEF AnyFailed, CouldNotPlan
    <3>4. ASSUME NEW i \in DOMAIN outcomes, outcomes[i].status = "failed"
          PROVE  outcomes[i] = CouldNotPlan \/ \E n \in DOMAIN calls : calls[n].reply \in Raised
      <4>1. CASE outcomes[i].results < Len(outcomes[i].steps)
        <5>1. outcomes[i] \in Outcome
          BY DEF RunInvariant, TypeOK
        <5>2. outcomes[i].steps \in Seq(Step) /\ outcomes[i].results \in Nat
          BY <5>1 DEF Outcome
        <5>3. outcomes[i].results + 1 \in DOMAIN outcomes[i].steps
          BY <5>2, <4>1
        <5>4. RaisedStep(i, outcomes[i].results + 1)
          BY <5>3, <2>1, <3>4 DEF OutcomeIsTrue
        <5> QED BY <5>4 DEF RaisedStep
      <4> QED BY <4>1, <3>4 DEF Closing, FailedFell
    <3> QED BY <3>1, <3>2, <3>3, <3>4 DEF AnyFailed
  <2> QED BY <2>2, <2>3 DEF Closing, ExitKept
<1> QED  BY <1>1, ClosingHolds, PTL
===============================================================================
