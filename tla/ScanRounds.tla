------------------------------ MODULE ScanRounds ------------------------------
(***************************************************************************)
(* Rounds of zombiescan scan and zombiescan clean --apply over one account *)
(* that its owner goes on using. A check reads the account one call after  *)
(* the other, while it changes; what is found is then cleaned, while it    *)
(* changes; what cleaning leaves behind is there for the next scan. The    *)
(* operator agrees to everything and stops after a round in which nothing  *)
(* in the account changed.                                                 *)
(*                                                                         *)
(* The checks run one after the other, in one region: they only read, and  *)
(* the pool that runs them together is ScanEngine. How a clean run asks,   *)
(* fails and reports is CleanRun; here a refused call ends its plan.       *)
(***************************************************************************)
EXTENDS Checks

CONSTANT Scenes  \* name -> account there is, checks that run, moves of its owner and how many
                 \* of them are made (changes, the bound on owners)

ASSUME SceneAssumption ==
  \A s \in DOMAIN Scenes :
    /\ Sound(Scenes[s].there)
    /\ Scenes[s].checks \in Seq(CheckNames) \ {<<>>}

VARIABLES
  scene,    \* which of Scenes this is
  acct,     \* the account
  moves,    \* what its owner may still do to it, each once
  pc,       \* listing | judged | failed | cleaning | rested
  at,       \* the check that is running, of Scenes[scene].checks
  left,     \* the listings it has still to make
  pending,  \* resources listed, to be asked for one by one
  seen,     \* what the check has read so far
  report,   \* the findings of this round
  todo,     \* the plans still to be applied
  plan,     \* the rest of the plan that is being applied
  moved,    \* the account has changed since the round began
  during,   \* history: the account at every instant of the check
  before    \* history: the account when cleaning began, less what its owner deleted

vars == <<scene, acct, moves, pc, at, left, pending, seen, report, todo, plan, moved,
          during, before>>
scanVars == <<at, left, pending, seen, report>>
cleanVars == <<todo, plan>>

checks == Scenes[scene].checks
check == checks[at]
Nothing == [r \in {} |-> r]
Reading(ids) ==
  [r \in ids \cup DOMAIN seen |-> IF r \in ids THEN acct[r] ELSE seen[r]]

\* Checks that return at once when their first listing is empty.
ReturnEarly ==
  {"stopped-instance", "unused-security-group", "idle-nat-gateway", "unused-vpc-endpoint",
   "empty-vpc", "unused-route53-health-check"}
\* Checks whose second listing is made for each item of the first.
PerItem == {"idle-load-balancer", "incomplete-multipart-upload"}

Init ==
  /\ scene \in DOMAIN Scenes
  /\ acct = Scenes[scene].there /\ moves = Scenes[scene].moves
  /\ pc = "listing" /\ at = 1 /\ left = CHECKS(check, Nothing).reads
  /\ pending = {} /\ seen = Nothing /\ report = {}
  /\ todo = {} /\ plan = <<>> /\ moved = FALSE
  /\ during = {acct} /\ before = acct

(***************************************************************************)
(* Scanning                                                                *)
(***************************************************************************)
\* Calls that name a resource which is gone by now are answered with an error.
Asked ==
  pending \cup (IF check \in PerItem /\ Len(left) = 1
               THEN {r \in DOMAIN seen : seen[r].kind = "balancer" => seen[r].state = "active"}
               ELSE {})

Lists ==
  /\ pc = "listing" /\ pending = {} /\ left # <<>> /\ Asked \subseteq DOMAIN acct
  /\ LET kind == Head(left)
         listed == Of(acct, kind)
     IN /\ IF kind \in OneByOne(check)
           THEN pending' = listed /\ UNCHANGED seen
           ELSE seen' = Reading(listed) /\ UNCHANGED pending
        /\ left' = IF check \in ReturnEarly /\ listed = {} THEN <<>> ELSE Tail(left)
  /\ UNCHANGED <<scene, acct, moves, pc, at, report, cleanVars, moved, during, before>>

Describes(r) ==
  /\ pc = "listing" /\ r \in pending \cap DOMAIN acct
  /\ seen' = Reading({r}) /\ pending' = pending \ {r}
  /\ UNCHANGED <<scene, acct, moves, pc, at, left, report, cleanVars, moved, during, before>>

\* The check raises: the engine keeps none of its findings.
Raises ==
  /\ pc = "listing" /\ ~ Asked \subseteq DOMAIN acct
  /\ pc' = "failed"
  /\ UNCHANGED <<scene, acct, moves, scanVars, cleanVars, moved, during, before>>

Judges ==
  /\ pc = "listing" /\ left = <<>> /\ pending = {}
  /\ report' = report \cup CHECKS(check, seen).finds
  /\ pc' = "judged"
  /\ UNCHANGED <<scene, acct, moves, at, left, pending, seen, cleanVars, moved, during,
                 before>>

StartCheck(n) ==
  /\ at' = n /\ left' = CHECKS(checks[n], Nothing).reads
  /\ pending' = {} /\ seen' = Nothing /\ during' = {acct} /\ pc' = "listing"

\* Mutant of NextCheck: a check goes on with what the one before it has read.
NextCheckStale ==
  /\ pc \in {"judged", "failed"} /\ at < Len(checks)
  /\ at' = at + 1 /\ left' = CHECKS(checks[at + 1], Nothing).reads
  /\ pending' = {} /\ during' = {acct} /\ pc' = "listing"
  /\ UNCHANGED <<scene, acct, moves, seen, report, cleanVars, moved, before>>

NextCheck ==
  /\ pc \in {"judged", "failed"} /\ at < Len(checks)
  /\ StartCheck(at + 1)
  /\ UNCHANGED <<scene, acct, moves, report, cleanVars, moved, before>>

(***************************************************************************)
(* Cleaning                                                                *)
(***************************************************************************)
\* Every plan is made before the first call, reading the uploads there are.
StartClean ==
  /\ pc \in {"judged", "failed"} /\ at = Len(checks)
  /\ todo' = {Plan(f, IF f.id \in DOMAIN acct THEN Naming(acct, "upload", f.id) ELSE {}) :
                f \in {f \in report : f.check \in CLEANERS}} \ {<<>>}
  /\ before' = acct /\ pc' = "cleaning"
  /\ UNCHANGED <<scene, acct, moves, scanVars, plan, moved, during>>

\* One call of the plan in hand, or the first of the next.
Call(p) ==
  /\ pc = "cleaning" /\ p \in (IF plan # <<>> THEN {plan} ELSE todo)
  /\ todo' = IF plan # <<>> THEN todo ELSE todo \ {p}
  /\ IF Refused(acct, Head(p).operation, Head(p).target)
     THEN plan' = <<>> /\ UNCHANGED <<acct, moved>>
     ELSE /\ acct' = After(acct, Head(p).operation, Head(p).target)
          /\ plan' = Tail(p) /\ moved' = TRUE
  /\ UNCHANGED <<scene, moves, pc, scanVars, during, before>>

Again ==
  /\ pc = "cleaning" /\ todo = {} /\ plan = <<>> /\ moved
  /\ StartCheck(1)
  /\ report' = {} /\ moved' = FALSE
  /\ UNCHANGED <<scene, acct, moves, cleanVars, before>>

Rest ==
  /\ pc = "cleaning" /\ todo = {} /\ plan = <<>> /\ ~ moved
  /\ pc' = "rested"
  /\ UNCHANGED <<scene, acct, moves, scanVars, cleanVars, moved, during, before>>

(***************************************************************************)
(* The owner of the account                                                *)
(***************************************************************************)
Owner(move, a) ==
  /\ pc \in {"listing", "cleaning"} /\ a # acct /\ Sound(a)
  /\ \A b \in (IF pc = "listing" THEN during ELSE {acct}) : SameThings(a, b)
  /\ Cardinality(Scenes[scene].moves \ moves) < Scenes[scene].changes
  /\ acct' = a /\ moves' = moves \ {move} /\ moved' = TRUE
  /\ during' = IF pc = "listing" THEN during \cup {a} ELSE during
  /\ before' = Without(before, DOMAIN acct \ DOMAIN a)
  /\ UNCHANGED <<scene, pc, scanVars, cleanVars>>

Creates(m) == m.does = "create" /\ m.id \notin DOMAIN acct /\ Owner(m, With(acct, m.id, m.to))
Changes(m) == m.does = "change" /\ m.id \in DOMAIN acct /\ Owner(m, With(acct, m.id, m.to))
Deletes(m) == m.does = "delete" /\ m.id \in DOMAIN acct /\ Owner(m, Removed(acct, m.id))

Tool ==
  \/ Lists \/ Raises \/ Judges \/ NextCheck \/ StartClean \/ Again \/ Rest
  \/ \E r \in pending : Describes(r)
  \/ \E p \in todo \cup {plan} : Call(p)

Next == Tool \/ \E m \in moves : Creates(m) \/ Changes(m) \/ Deletes(m)

Spec == Init /\ [][Next]_vars
FairSpec == Spec /\ WF_vars(Tool)

-------------------------------------------------------------------------------
found == CHECKS(check, seen).finds
Flagged == {f.id : f \in found}

\* The kinds of resources each check judges.
Judged ==
  {<<"unattached-ebs", "volume">>, <<"orphaned-snapshot", "snapshot">>, <<"unused-ami", "image">>,
   <<"unmounted-efs", "file-system">>, <<"incomplete-multipart-upload", "bucket">>,
   <<"ecr-stale-images", "repository">>, <<"stopped-instance", "instance">>,
   <<"unassociated-eip", "address">>, <<"available-eni", "interface">>,
   <<"detached-internet-gateway", "gateway">>, <<"unused-security-group", "group">>,
   <<"idle-nat-gateway", "nat">>, <<"unused-vpc-endpoint", "endpoint">>, <<"empty-vpc", "vpc">>,
   <<"idle-load-balancer", "balancer">>, <<"empty-classic-lb", "classic">>,
   <<"stopped-rds-instance", "database">>, <<"orphaned-rds-snapshot", "db-snapshot">>,
   <<"idle-provisioned-dynamodb", "table">>, <<"log-group-no-retention", "log-group">>,
   <<"disabled-kms-key", "key">>, <<"stale-secret", "secret">>,
   <<"unused-route53-health-check", "health-check">>, <<"unused-route53-zone", "zone">>,
   <<"lightsail-stopped-instance", "ls-instance">>, <<"lightsail-unattached-disk", "ls-disk">>,
   <<"lightsail-unattached-static-ip", "ls-ip">>,
   <<"lightsail-empty-load-balancer", "ls-balancer">>,
   <<"lightsail-idle-container-service", "ls-service">>,
   <<"lightsail-orphaned-snapshot", "ls-instance-snapshot">>,
   <<"lightsail-orphaned-snapshot", "ls-disk-snapshot">>}

\* The account is one AWS would keep, the report names checks that have run,
\* and a check has read nothing but its own listings.
TypeOK ==
  /\ Sound(acct) /\ moves \subseteq Scenes[scene].moves /\ moved \in BOOLEAN
  /\ pc \in {"listing", "judged", "failed", "cleaning", "rested"}
  /\ at \in DOMAIN checks
  /\ \A f \in report : \E n \in 1 .. at : f.check = checks[n]
  /\ {seen[r].kind : r \in DOMAIN seen} \subseteq Range(CHECKS(check, Nothing).reads)

\* A resource that one and the same user has kept in use since the check
\* began is not reported, whatever else changes between the check's calls and
\* in whichever order they are made.
SteadyUseIsSeen ==
  pc = "judged" =>
    \A r \in Flagged :
      ~ \E u \in DOMAIN acct :
          \A a \in during : {r, u} \subseteq DOMAIN a /\ Keeps(a, u, r)

\* A resource that nothing has used since the check began is reported, unless
\* the check could not finish.
SteadyWasteIsFound ==
  pc = "judged" =>
    \A r \in DOMAIN acct :
      (<<check, acct[r].kind>> \in Judged /\ \A a \in during : Idle(a, r)) => r \in Flagged

\* Of an account nobody changed meanwhile, no two checks count one charge.
ChecksDoNotOverlap ==
  pc = "judged" /\ ~ moved =>
    \A f, g \in report : f.check # g.check => f.bills \cap g.bills = {}

(***************************************************************************)
(* What cleaning can promise depends on the owner. Everyday: an id is      *)
(* given once, a copy's to no one else; the owner moves resources of its   *)
(* own, and no copies; its images are made of its snapshots; and no change *)
(* makes a volume the root of an instance, a disk a system disk or an      *)
(* image young.                                                            *)
(***************************************************************************)
Makes(s) == {m \in Scenes[s].moves : m.does = "create"}
\* The resources of the owner's, of any kind and of one: there are or it makes.
Owned(s) == DOMAIN Scenes[s].there \cup {m.id : m \in Makes(s)}
OfKind(s, kind) ==
  Of(Scenes[s].there, kind) \cup {m.id : m \in {m \in Makes(s) : m.to.kind = kind}}

GivenOnce(s) ==
  /\ \A m \in Makes(s) :
       m.id \notin DOMAIN Scenes[s].there /\ \A n \in Makes(s) : n.id = m.id => n = m
  /\ \A r \in Owned(s) :
       /\ CopyOf(r) \notin Owned(s)
       /\ \A q \in Owned(s) : /\ CopyOf(q) = CopyOf(r) => q = r
                            /\ CopyOf(q) # NamespaceOf(r)
       /\ NamespaceOf(r) \in Owned(s) => NamespaceOf(r) \in OfKind(s, "namespace")

Ordinary(s) ==
  /\ \A m \in Scenes[s].moves :
       /\ m.id \in Owned(s)
       /\ m.does \in {"create", "change"} /\ m.to.kind = "image" =>
            m.to.refs \subseteq OfKind(s, "snapshot")
       /\ m.does = "change" => m.to.is \cap {"root", "system", "young"} = {}
  /\ \A i \in Of(Scenes[s].there, "image") :
       Scenes[s].there[i].refs \subseteq OfKind(s, "snapshot")

Everyday ==
  \A s \in DOMAIN Scenes :
    IsFiniteSet(DOMAIN Scenes[s].there) /\ GivenOnce(s) /\ Ordinary(s)

\* A clean run leaves a copy of whatever held data: a volume, a database or a
\* Lightsail instance or disk that was there when the run began is there, or
\* its copy is, whatever the owner does between the calls and whatever else
\* the run deletes.
NothingLostInOneRun ==
  pc = "cleaning" =>
    \A r \in DOMAIN before :
      /\ before[r].kind \in {"volume", "database", "ls-instance", "ls-disk"}
      /\ "system" \notin before[r].is
      => r \in DOMAIN acct \/ CopyOf(r) \in DOMAIN acct

\* No clean run takes an image younger than 90 days or a snapshot behind one:
\* the images made of terminated instances survive the rounds after.
YoungImagesKept ==
  [][\A i \in Of(acct, "image") :
       pc = "cleaning" /\ moves' = moves /\ "young" \in acct[i].is
       => i \in DOMAIN acct' /\ acct[i].refs \subseteq DOMAIN acct']_vars

\* What the rounds cannot clean: checks without a cleaner, and a zone whose
\* namespace still holds services.
Stuck(f) ==
  \/ f.check \notin CLEANERS
  \/ NamespaceOf(f.id) \in DOMAIN acct /\ "services" \in acct[NamespaceOf(f.id)].is

\* Once the owner leaves the account alone, repeated rounds come to an end,
\* and what is still reported then is what no cleaner can take. What cleaning
\* leaves behind (a snapshot, a freed address, a volume of a terminated
\* instance) is found and cleaned by a later round.
Converges == <>[](pc = "rested" /\ \A f \in report : Stuck(f))

\* Of a report: what is reported was out of use at some moment while its
\* check was reading.
FlaggedWasIdle == pc = "judged" => \A r \in Flagged : \E a \in during : Idle(a, r)
===============================================================================
