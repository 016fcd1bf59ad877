------------------------------- MODULE CoreClean ------------------------------
(***************************************************************************)
(* The clean command with the cleaners that ship with it: CleanRun decides *)
(* whether and in which order steps are sent, Cleaners what the steps are, *)
(* and what matters to an operator follows only from the two together.     *)
(***************************************************************************)
EXTENDS Cleaners, CleanRun

CONSTANTS
  Lives,         \* Lives[r]: the region resource r is in, or GlobalRegion
  UploadsOf(_)   \* the uploads that may be open in the bucket a finding is about

(***************************************************************************)
(* The cleaners that are registered are the shipped ones. Only the one for *)
(* uploads looks at what exists when it plans.                             *)
(***************************************************************************)
ASSUME ShippedAssumption ==
  /\ NoRegion = OwnRegion
  /\ Cleanable = CLEANERS
  /\ \A f \in Findings, w \in SUBSET Resource :
       f.check \in Cleanable => Planner(f, w) = Plan(f, w \cap UploadsOf(f))

(***************************************************************************)
(* A check reports what it finds under the region it scanned, and so do    *)
(* the details it adds: an AMI's snapshots and a bucket's uploads are where *)
(* the AMI and the bucket are, a namespace's ARN says where it is.         *)
(***************************************************************************)
Near(f, r) == r \in Resource => Lives[r] = f.region

ASSUME ReportedAssumption ==
  \A f \in Findings :
    /\ Near(f, f.id)
    /\ IsFiniteSet(UploadsOf(f)) /\ \A r \in UploadsOf(f) : Near(f, r)
    /\ f.check = "unused-ami" =>
         LET ids == f.details.snapshot_ids IN
         ids \in Seq(Resource) /\ \A k \in DOMAIN ids : Near(f, ids[k])
    /\ f.check = "unused-route53-zone" /\ f.details.namespace # NoNamespace =>
         LET namespace == f.details.namespace IN
         /\ namespace.region \in Region
         /\ namespace.id \in Resource => Lives[namespace.id] = namespace.region

StepOf(n) == outcomes[calls[n].of].steps[calls[n].step]

(***************************************************************************)
(* The calls that take data with them that a backup can keep, each with    *)
(* the call that backs it up, first (README.md:284-287).                   *)
(***************************************************************************)
BackupFor ==
  {<<"ec2.create_snapshot", "ec2.delete_volume">>,
   <<"ec2.create_image", "ec2.terminate_instances">>,
   <<"lightsail.create_instance_snapshot", "lightsail.delete_instance">>,
   <<"lightsail.create_disk_snapshot", "lightsail.delete_disk">>}

(***************************************************************************)
(* "Backups come first where AWS allows one": no such call is sent unless  *)
(* AWS has accepted a backup of the same resource, in the same region      *)
(* (core/cleaners.py:17-26, 96-111, lightsail/cleaners.py:17-34, 49-59).   *)
(***************************************************************************)
BackedUpFirst ==
  \A n \in DOMAIN calls, b \in BackupFor :
    StepOf(n).operation = b[2] =>
      \E m \in 1 .. n - 1 :
        /\ StepOf(m).operation = b[1]
        /\ StepOf(m).target = StepOf(n).target /\ calls[m].region = calls[n].region
        /\ calls[m].reply \in Returned

(***************************************************************************)
(* Every call goes to the region its target lives in, for a global finding *)
(* with a regional remedy too: otherwise it "would delete from whichever   *)
(* region they happen to be configured for" (cleaners.py:39-44).           *)
(***************************************************************************)
CallsGoHome ==
  \A n \in DOMAIN calls :
    LET r == Lives[StepOf(n).target]
    IN  calls[n].region = IF r = GlobalRegion THEN Home ELSE r

(***************************************************************************)
(* "the snapshot is the only way back and has to land first" (lightsail/   *)
(* cleaners.py:21-22): what was deleted has a backup that has landed.      *)
(***************************************************************************)
BackupLandsFirst ==
  \A n \in DOMAIN calls, b \in BackupFor :
    StepOf(n).operation = b[2] /\ StepOf(n).target \notin there =>
      copy[StepOf(n).target] = "landed"
===============================================================================
