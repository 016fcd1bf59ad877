------------------------------- MODULE CleanRun -------------------------------
(***************************************************************************)
(* `zombiescan clean`: the findings of a report are planned one by one,    *)
(* the plans are shown, and with --apply each is sent to AWS step by step  *)
(* once the operator has agreed to it. Three actors interleave: the        *)
(* command, the operator at the prompt, who may also interrupt it, and     *)
(* AWS, where backups land later than they are accepted, uploads come and  *)
(* go, and an answer can be lost.                                          *)
(*                                                                         *)
(* The cleaners are a parameter, as third-party packs bring their own.     *)
(***************************************************************************)
EXTENDS Naturals, Sequences, FiniteSets

CONSTANTS
  Findings,       \* the findings a report can hold, see Cleaners
  Reports,        \* the lists of findings a scan or a --from report can give
  Options,        \* the command lines, see OptionType
  Installed,      \* the checks of the packs that are loaded
  Uncleanable,    \* the installed checks that state why they are not cleaned
  Cleanable,      \* the checks with a registered cleaner
  ReadsAWS,       \* the checks whose cleaner calls AWS to plan, and may raise
  Planner(_, _),  \* the steps a check's cleaner yields, given what exists
  Operation,      \* the mutating calls
  Resource,       \* what they are made on
  Region,         \* the regions a client can be pointed at
  Home,           \* the operator's region
  GlobalRegion,   \* "global", where findings of global checks are
  NoRegion,       \* the region of a step that names none
  Backups,        \* the operations that start a backup of their target
  Batch,          \* operations that report failures in a successful response
  Uploads         \* the resources others create and finish meanwhile

OptionType ==
  [apply : BOOLEAN, yes : BOOLEAN, audit : BOOLEAN, from : BOOLEAN,
   scanned_as : {"nobody", "caller", "another"}, checks : SUBSET STRING, min_cost : Nat]

Step == [operation : Operation, target : Resource, irreversible : BOOLEAN,
         region : Region \cup {NoRegion}]

ASSUME CleanAssumption ==
  /\ Reports \subseteq Seq(Findings)
  /\ Options \subseteq OptionType
  /\ \A f \in Findings : f.region \in Region \cup {GlobalRegion} /\ f.monthly_cost \in Nat
  /\ \A f \in Findings, w \in SUBSET Resource :
       f.check \in Cleanable => Planner(f, w) \in Seq(Step)
  /\ Home \in Region /\ GlobalRegion \notin Region /\ NoRegion \notin Region \cup {GlobalRegion}
  /\ Uploads \subseteq Resource

VARIABLES
  opt,            \* the command line
  pc,             \* where the command is
  findings,       \* what is left of the report after --check and --min-cost
  outcomes,       \* outcomes[i]: what became of findings[i]
  turn,           \* the outcome the apply loop is at
  all_remaining,  \* whether the rest needs no answer
  audit,          \* the file --audit asked for
  exit,           \* the exit status
  answers,        \* history: what the operator said, of which outcome
  calls,          \* history: the mutating calls AWS was sent
  there,          \* the resources that exist and cost money
  copy            \* copy[r]: the backup of r, if one was started

command == <<opt, findings>>
aws == <<there, copy>>
vars == <<opt, pc, findings, outcomes, turn, all_remaining, audit, exit, answers, calls, there,
          copy>>

Status == {"planned", "applied", "skipped", "failed", "unsupported"}
Outcome == [steps : Seq(Step), status : Status, results : Nat]

(***************************************************************************)
(* How a call can come out. It raises when AWS refuses it, and also when   *)
(* the answer is lost after AWS has acted. A batch call may return         *)
(* normally and list in the response what it did not do.                   *)
(***************************************************************************)
Returned == {"done", "declined"}
Raised == {"refused", "lost"}
Reply == Returned \cup Raised
Call == [of : Nat \ {0}, step : Nat \ {0}, region : Region, reply : Reply]

NoAudit == [applied |-> FALSE, actions |-> <<>>]
NoExit == 3

TypeOK ==
  /\ opt \in Options
  /\ pc \in {"starting", "planning", "asking", "applying", "reporting", "ended", "aborted"}
  /\ findings \in Seq(Findings)
  /\ outcomes \in Seq(Outcome)
  /\ turn \in Nat
  /\ all_remaining \in BOOLEAN
  /\ audit \in [applied : BOOLEAN, actions : Seq(Outcome)]
  /\ exit \in 0 .. NoExit
  /\ answers \subseteq (Nat \X {"y", "n", "a", "q"})
  /\ calls \in Seq(Call)
  /\ there \subseteq Resource
  /\ copy \in [Resource -> {"none", "pending", "landed", "failed"}]

Init ==
  /\ opt \in Options
  /\ pc = "starting"
  /\ findings = <<>>
  /\ outcomes = <<>>
  /\ turn = 0
  /\ all_remaining = opt.yes
  /\ audit = NoAudit
  /\ exit = NoExit
  /\ answers = {}
  /\ calls = <<>>
  /\ there = Resource
  /\ copy = [r \in Resource |-> "none"]

End(status) == pc' = "ended" /\ exit' = status

-------------------------------------------------------------------------------
(***************************************************************************)
(* Before anything is planned: credentials, the report or the scan.        *)
(***************************************************************************)
\* No such profile, no credentials, an unreadable report or an unknown check.
Refuse ==
  /\ pc = "starting"
  /\ End(2)
  /\ UNCHANGED <<command, outcomes, turn, all_remaining, audit, answers, calls, aws>>

\* Mutant of ForeignReport: the report's account is not compared.
ForeignReportUnchecked == FALSE

\* A report made as somebody else. One that does not say who made it passes.
ForeignReport == opt.from /\ opt.scanned_as = "another"

RefuseForeignReport ==
  /\ pc = "starting"
  /\ ForeignReport
  /\ End(2)
  /\ UNCHANGED <<command, outcomes, turn, all_remaining, audit, answers, calls, aws>>

\* A scan in which every pair failed is no basis for cleaning.
RefuseNoData ==
  /\ pc = "starting"
  /\ ~ opt.from
  /\ End(1)
  /\ UNCHANGED <<command, outcomes, turn, all_remaining, audit, answers, calls, aws>>

Wanted(f) ==
  /\ opt.checks # {} => f.check \in opt.checks
  /\ f.monthly_cost >= opt.min_cost

\* A scan can only find what an installed check reports, a file anything.
Given == {s \in Reports : opt.from \/ \A i \in DOMAIN s : s[i].check \in Installed}

\* The wanted findings in the report's order. Without any the command ends.
Load ==
  /\ pc = "starting"
  /\ ~ ForeignReport
  /\ \E s \in Given :
       LET kept == {i \in DOMAIN s : Wanted(s[i])} IN
       \E e \in [1 .. Cardinality(kept) -> kept] :
         /\ \A i, k \in DOMAIN e : i < k => e[i] < e[k]
         /\ findings' = [i \in DOMAIN e |-> s[e[i]]]
  /\ IF findings' = <<>> THEN End(0) ELSE pc' = "planning" /\ UNCHANGED exit
  /\ UNCHANGED <<opt, outcomes, turn, all_remaining, audit, answers, calls, aws>>

-------------------------------------------------------------------------------
(***************************************************************************)
(* Planning: plan_for, once per finding. It reads AWS as it is then, and   *)
(* what it raises is kept as a failed outcome.                             *)
(***************************************************************************)
Unsupported == [steps |-> <<>>, status |-> "unsupported", results |-> 0]
CouldNotPlan == [steps |-> <<>>, status |-> "failed", results |-> 0]
Planned(steps) == [steps |-> steps, status |-> "planned", results |-> 0]

HasPlanner(f) == f.check \notin Uncleanable /\ f.check \in Cleanable

Yielded(steps) == IF steps = <<>> THEN Unsupported ELSE Planned(steps)

\* What plan_for can make of finding f.
plan_for(f) ==
  IF ~ HasPlanner(f) THEN {Unsupported}
  ELSE {Yielded(Planner(f, there))} \cup {o \in {CouldNotPlan} : f.check \in ReadsAWS}

PlanNext ==
  /\ pc = "planning"
  /\ Len(outcomes) < Len(findings)
  /\ \E o \in plan_for(findings[Len(outcomes) + 1]) : outcomes' = Append(outcomes, o)
  /\ UNCHANGED <<command, pc, turn, all_remaining, audit, exit, answers, calls, aws>>

\* The plans are shown; with --apply the operator is then asked.
Show ==
  /\ pc = "planning" /\ Len(outcomes) = Len(findings)
  /\ pc' = IF opt.apply THEN "asking" ELSE "reporting"
  /\ UNCHANGED <<command, outcomes, turn, all_remaining, audit, exit, answers, calls, aws>>

-------------------------------------------------------------------------------
(***************************************************************************)
(* The apply loop over the outcomes that were planned, in order.           *)
(***************************************************************************)
\* Mutant of IsNext: the loop runs over all outcomes.
IsNextOfAll(i) == i = turn + 1

IsNext(i) ==
  /\ i > turn /\ outcomes[i].status = "planned"
  /\ \A j \in DOMAIN outcomes : turn < j /\ j < i => outcomes[j].status # "planned"

Asking(i) == pc = "asking" /\ IsNext(i)
Said(i, a) == ~ all_remaining /\ answers' = answers \cup {<<i, a>>}

\* --yes, or an earlier "all".
Proceed(i) ==
  /\ Asking(i)
  /\ all_remaining
  /\ pc' = "applying"
  /\ turn' = i
  /\ UNCHANGED <<command, outcomes, all_remaining, audit, exit, answers, calls, aws>>

Approve(i) ==
  /\ Asking(i)
  /\ \E a \in {"y", "a"} : Said(i, a) /\ all_remaining' = (a = "a")
  /\ pc' = "applying"
  /\ turn' = i
  /\ UNCHANGED <<command, outcomes, audit, exit, calls, aws>>

\* Mutant of Decline: skipped, but the loop does not continue with the next.
DeclineButApply(i) ==
  /\ Asking(i)
  /\ Said(i, "n")
  /\ pc' = "applying"
  /\ turn' = i
  /\ UNCHANGED <<command, outcomes, all_remaining, audit, exit, calls, aws>>

\* Anything that does not start with y, a or q, and the default.
Decline(i) ==
  /\ Asking(i)
  /\ Said(i, "n")
  /\ outcomes' = [outcomes EXCEPT ![i] =
                    [steps |-> outcomes[i].steps, status |-> "skipped", results |-> 0]]
  /\ turn' = i
  /\ UNCHANGED <<command, pc, all_remaining, audit, exit, calls, aws>>

Quit(i) ==
  /\ Asking(i)
  /\ Said(i, "q")
  /\ pc' = "reporting"
  /\ UNCHANGED <<command, outcomes, turn, all_remaining, audit, exit, calls, aws>>

\* Mutant of LoopEnds: waits to see the last outcome applied or skipped.
LoopEndsAtLast ==
  /\ pc = "asking"
  /\ turn = Len(outcomes)
  /\ pc' = "reporting"
  /\ UNCHANGED <<command, outcomes, turn, all_remaining, audit, exit, answers, calls, aws>>

LoopEnds ==
  /\ pc = "asking"
  /\ \A i \in DOMAIN outcomes : ~ IsNext(i)
  /\ pc' = "reporting"
  /\ UNCHANGED <<command, outcomes, turn, all_remaining, audit, exit, answers, calls, aws>>

-------------------------------------------------------------------------------
(***************************************************************************)
(* apply_outcome: the steps in order, stopping at the first that raises.   *)
(* A global finding has no region to point a client at, so it goes to the  *)
(* operator's, unless the step names its own.                              *)
(***************************************************************************)
current == outcomes[turn]
step == current.results + 1

\* Mutant of Where: "global" is handed to the client as it is.
WhereAsNamed(s, f) == IF s.region # NoRegion THEN s.region ELSE f.region

\* Mutant of Where: the region a step names is not looked at.
WhereTheFindingIs(s, f) == IF f.region = GlobalRegion THEN Home ELSE f.region

Where(s, f) ==
  LET named == IF s.region # NoRegion THEN s.region ELSE f.region
  IN  IF named = GlobalRegion THEN Home ELSE named

Replies(operation) == IF operation \in Batch THEN Reply ELSE Reply \ {"declined"}

\* AWS takes the call, and acts on it unless it refuses or declines.
Send(reply) ==
  LET s == current.steps[step] IN
  /\ pc = "applying"
  /\ reply \in Replies(s.operation)
  /\ calls' = Append(calls, [of |-> turn, step |-> step, region |-> Where(s, findings[turn]),
                             reply |-> reply])
  /\ IF reply \notin {"done", "lost"} THEN UNCHANGED aws
     ELSE IF s.operation \in Backups
          THEN copy' = [copy EXCEPT ![s.target] = "pending"] /\ UNCHANGED there
          ELSE there' = there \ {s.target} /\ UNCHANGED copy

Become(status, results) ==
  outcomes' = [outcomes EXCEPT ![turn] =
                 [steps |-> current.steps, status |-> status, results |-> results]]

\* Mutant of StepReturns: the status is set inside the loop.
StepReturnsApplied(reply) ==
  /\ reply \in Returned
  /\ Send(reply)
  /\ Become("applied", step)
  /\ pc' = IF step = Len(current.steps) THEN "asking" ELSE "applying"
  /\ UNCHANGED <<command, turn, all_remaining, audit, exit, answers>>

StepReturns(reply) ==
  /\ reply \in Returned
  /\ Send(reply)
  /\ Become(IF step = Len(current.steps) THEN "applied" ELSE "planned", step)
  /\ pc' = IF step = Len(current.steps) THEN "asking" ELSE "applying"
  /\ UNCHANGED <<command, turn, all_remaining, audit, exit, answers>>

\* Mutant of StepRaises: the error is noted and the next step follows.
StepRaisesGoesOn(reply) ==
  /\ reply \in Raised
  /\ Send(reply)
  /\ Become(IF step = Len(current.steps) THEN "failed" ELSE "planned", step)
  /\ pc' = IF step = Len(current.steps) THEN "asking" ELSE "applying"
  /\ UNCHANGED <<command, turn, all_remaining, audit, exit, answers>>

StepRaises(reply) ==
  /\ reply \in Raised
  /\ Send(reply)
  /\ Become("failed", current.results)
  /\ pc' = "asking"
  /\ UNCHANGED <<command, turn, all_remaining, audit, exit, answers>>

-------------------------------------------------------------------------------
(***************************************************************************)
(* The report: the audit file and the exit status, which counts outcomes   *)
(* that could not be planned as well, though not in a dry run.             *)
(***************************************************************************)
\* Mutant of audit_document: only what was applied keeps its results.
audit_document_applied_only ==
  [applied |-> opt.apply,
   actions |-> [i \in DOMAIN outcomes |->
                  IF outcomes[i].status = "applied" THEN outcomes[i]
                  ELSE [steps |-> outcomes[i].steps, status |-> outcomes[i].status, results |-> 0]]]

audit_document == [applied |-> opt.apply, actions |-> outcomes]

AnyFailed == \E i \in DOMAIN outcomes : outcomes[i].status = "failed"

\* Mutant of ExitStatus: a run that cleaned something is a success.
ExitStatusAnyApplied ==
  IF opt.apply /\ AnyFailed /\ ~ (\E i \in DOMAIN outcomes : outcomes[i].status = "applied")
  THEN 1 ELSE 0

ExitStatus == IF opt.apply /\ AnyFailed THEN 1 ELSE 0

Report ==
  /\ pc = "reporting"
  /\ audit' = IF opt.audit THEN audit_document ELSE NoAudit
  /\ End(ExitStatus)
  /\ UNCHANGED <<command, outcomes, turn, all_remaining, answers, calls, aws>>

(***************************************************************************)
(* What ends the command without its report: the operator interrupts it,   *)
(* also while AWS works on a call; a client cannot be made, which is       *)
(* outside the try; the audit file cannot be written.                      *)
(***************************************************************************)
Abort ==
  /\ pc' = "aborted"
  /\ UNCHANGED <<command, outcomes, turn, all_remaining, audit, exit, answers>>

Interrupt == pc \in {"starting", "planning", "asking"} /\ Abort /\ UNCHANGED <<calls, aws>>

InterruptCall == \E reply \in Raised : Send(reply) /\ Abort

NoClient == pc = "applying" /\ Abort /\ UNCHANGED <<calls, aws>>

AuditUnwritable == pc = "reporting" /\ opt.audit /\ Abort /\ UNCHANGED <<calls, aws>>

(***************************************************************************)
(* AWS meanwhile: a backup that was accepted lands or fails, and others    *)
(* begin and finish uploads.                                               *)
(***************************************************************************)
BackupSettles(r) ==
  /\ copy[r] = "pending"
  /\ \E s \in {"landed", "failed"} : copy' = [copy EXCEPT ![r] = s]
  /\ UNCHANGED <<command, pc, outcomes, turn, all_remaining, audit, exit, answers, calls, there>>

UploadMoves(r) ==
  /\ there' = IF r \in there THEN there \ {r} ELSE there \cup {r}
  /\ UNCHANGED <<command, pc, outcomes, turn, all_remaining, audit, exit, answers, calls, copy>>

-------------------------------------------------------------------------------
Start == Refuse \/ RefuseForeignReport \/ RefuseNoData \/ Load

Work ==
  \/ Start \/ PlanNext \/ Show \/ LoopEnds \/ Report
  \/ \E i \in DOMAIN outcomes : Proceed(i)
  \/ \E reply \in Reply : StepReturns(reply) \/ StepRaises(reply)

Operator == \E i \in DOMAIN outcomes : Approve(i) \/ Decline(i) \/ Quit(i)

Crash == Interrupt \/ InterruptCall \/ NoClient \/ AuditUnwritable

World == (\E r \in Resource : BackupSettles(r)) \/ (\E r \in Uploads : UploadMoves(r))

Next == Work \/ Operator \/ Crash \/ World

Spec == Init /\ [][Next]_vars

(***************************************************************************)
(* The command's own thread keeps moving, as every AWS call ends or times  *)
(* out. Nothing is assumed of the operator, nor of AWS's backups.          *)
(***************************************************************************)
FairSpec == Spec /\ WF_vars(Work)

-------------------------------------------------------------------------------
(***************************************************************************)
(* Nothing is sent to AWS that the operator did not agree to: only with    *)
(* --apply, never from another account's report, and only for a finding    *)
(* that was not declined and was agreed to, with --yes, by itself or with  *)
(* an earlier "all" (cli.py:313-320, 365-401).                             *)
(***************************************************************************)
AgreedTo(i) ==
  \/ opt.yes
  \/ <<i, "y">> \in answers
  \/ \E j \in 1 .. i : <<j, "a">> \in answers

OnlyApprovedCalls ==
  \A n \in DOMAIN calls :
    /\ opt.apply /\ ~ (opt.from /\ opt.scanned_as = "another")
    /\ AgreedTo(calls[n].of)
    /\ <<calls[n].of, "n">> \notin answers /\ <<calls[n].of, "q">> \notin answers

(***************************************************************************)
(* Every call is a step of a plan, sent at most once, and only after all   *)
(* the steps before it had returned: "a failed step must not be followed   *)
(* by the destructive one that assumed it succeeded" (clean.py:97-127).    *)
(***************************************************************************)
IsCall(n, i, k) == calls[n].of = i /\ calls[n].step = k

StepsInOrder ==
  /\ \A n \in DOMAIN calls :
       /\ calls[n].of \in DOMAIN outcomes
       /\ calls[n].step \in DOMAIN outcomes[calls[n].of].steps
       /\ \A k \in 1 .. calls[n].step - 1 :
            \E m \in 1 .. n - 1 : IsCall(m, calls[n].of, k) /\ calls[m].reply \in Returned
  /\ \A m, n \in DOMAIN calls : IsCall(m, calls[n].of, calls[n].step) => m = n

(***************************************************************************)
(* While the command lives, an outcome says what happened to its calls:    *)
(* applied means every step returned; failed after planning means one      *)
(* raised and nothing followed; skipped, unsupported, or not reached means *)
(* no call was made; and there is a result for each step that returned     *)
(* (clean.py:101-128, cli.py:379-405).                                     *)
(***************************************************************************)
ReturnedStep(i, k) == \E n \in DOMAIN calls : IsCall(n, i, k) /\ calls[n].reply \in Returned
RaisedStep(i, k) == \E n \in DOMAIN calls : IsCall(n, i, k) /\ calls[n].reply \in Raised

OutcomeIsTrue(i) ==
  LET o == outcomes[i] IN
  /\ o.results <= Len(o.steps)
  /\ \A k \in DOMAIN o.steps : ReturnedStep(i, k) <=> k <= o.results
  /\ \A k \in DOMAIN o.steps : RaisedStep(i, k) <=> o.status = "failed" /\ k = o.results + 1
  /\ o.status = "applied" => o.results = Len(o.steps) /\ o.steps # <<>>
  /\ o.status \in {"skipped", "unsupported"} => o.results = 0
  /\ o.status = "planned" /\ i # turn => o.results = 0

OutcomesAreTrue == pc # "aborted" => \A i \in DOMAIN outcomes : OutcomeIsTrue(i)

(***************************************************************************)
(* The plan that was shown is the plan that is sent, and an outcome that   *)
(* was settled stays settled (clean.py:3-6, cli.py:350-405).               *)
(***************************************************************************)
SettlesOnce(i) ==
  /\ outcomes'[i].steps = outcomes[i].steps
  /\ outcomes[i].status # "planned" => outcomes'[i] = outcomes[i]

OutcomesSettleOnce == [][\A i \in DOMAIN outcomes : SettlesOnce(i)]_vars

(***************************************************************************)
(* An audit that was written accounts for every call: each is a result of  *)
(* its action, or the step on which the action failed (clean.py:131-168,   *)
(* cli.py:414-415).                                                        *)
(***************************************************************************)
AuditIsTrue ==
  audit # NoAudit =>
    /\ audit.applied = opt.apply
    /\ \A n \in DOMAIN calls :
         LET action == audit.actions[calls[n].of] IN
         IF calls[n].reply \in Returned THEN calls[n].step <= action.results
         ELSE action.status = "failed" /\ calls[n].step = action.results + 1
    /\ \A i \in DOMAIN audit.actions :
         \A k \in 1 .. audit.actions[i].results : ReturnedStep(i, k)

(***************************************************************************)
(* A real run that exits 0 did all it was told to: no call raised and no   *)
(* plan failed. One that exits 1 had a failure to show for it (cli.py:     *)
(* 333-338, 408, 416-417).                                                 *)
(***************************************************************************)
ExitTellsFailure ==
  pc = "ended" /\ opt.apply =>
    LET trouble == (\E n \in DOMAIN calls : calls[n].reply \in Raised)
                     \/ \E i \in DOMAIN outcomes : outcomes[i] = CouldNotPlan
    IN  /\ exit = 0 => ~ trouble
        /\ exit = 1 => trouble \/ outcomes = <<>>

(***************************************************************************)
(* Once the rest needs no answer the command runs to its end: no failure   *)
(* of one finding stops the others, and nothing is waited for (cli.py:     *)
(* 379-417).                                                               *)
(***************************************************************************)
RunsToTheEnd == all_remaining ~> pc \in {"ended", "aborted"}

(***************************************************************************)
(* "--audit writes a record of every call attempted" (README.md:294): when *)
(* the command is gone, calls were made and an audit was asked for, there  *)
(* is one.                                                                 *)
(***************************************************************************)
AuditNamesEveryCall ==
  pc \in {"ended", "aborted"} /\ opt.audit /\ calls # <<>> => audit # NoAudit
===============================================================================
