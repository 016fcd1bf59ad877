------------------------------- MODULE Cleaners -------------------------------
(***************************************************************************)
(* The cleaners the core and lightsail packs register: for each finding,   *)
(* the mutating calls that would resolve it, in the order they are to be   *)
(* made. A cleaner plans and never executes; the runner is CleanRun.       *)
(*                                                                         *)
(* A finding is a record with the check, the resource's id and region, its *)
(* monthly cost and its details; the details a cleaner reads are           *)
(*   snapshot_ids  the snapshots behind an AMI                             *)
(*   arn           whether a load balancer's ARN was reported              *)
(*   source_kind   what a Lightsail snapshot was taken of                  *)
(*   namespace     the Cloud Map namespace behind a zone, with its region  *)
(***************************************************************************)
EXTENDS Naturals, Sequences, FiniteSets, SequencesExt, TLC

OwnRegion == "the finding's own"
NoNamespace == [id |-> "none", region |-> OwnRegion]

(***************************************************************************)
(* Operations are named with their service. A call marked irreversible is  *)
(* so for every cleaner that plans it.                                     *)
(***************************************************************************)
Irreversible ==
  {"ec2.delete_snapshot", "ec2.deregister_image", "efs.delete_file_system",
   "s3.abort_multipart_upload", "ec2.terminate_instances", "ec2.release_address",
   "rds.delete_db_instance", "rds.delete_db_snapshot", "dynamodb.delete_table",
   "logs.put_retention_policy", "kms.schedule_key_deletion",
   "servicediscovery.delete_namespace", "route53.delete_hosted_zone",
   "lightsail.release_static_ip", "lightsail.delete_load_balancer",
   "lightsail.delete_instance_snapshot", "lightsail.delete_disk_snapshot"}

StepIn(region, operation, target) ==
  [operation |-> operation, target |-> target,
   irreversible |-> operation \in Irreversible, region |-> region]

On(operation, target) == StepIn(OwnRegion, operation, target)

(***************************************************************************)
(* Cleaners whose plan is the same calls for every finding: which check,   *)
(* and which calls.                                                        *)
(***************************************************************************)
\* Mutant of StoragePlans: the volume is deleted and then snapshotted.
StoragePlansDeleteFirst ==
  {<<"unattached-ebs", <<"ec2.delete_volume", "ec2.create_snapshot">>>>,
   <<"orphaned-snapshot", <<"ec2.delete_snapshot">>>>,
   <<"unmounted-efs", <<"efs.delete_file_system">>>>}

StoragePlans ==
  {<<"unattached-ebs", <<"ec2.create_snapshot", "ec2.delete_volume">>>>,
   <<"orphaned-snapshot", <<"ec2.delete_snapshot">>>>,
   <<"unmounted-efs", <<"efs.delete_file_system">>>>}

NetworkPlans ==
  {<<"stopped-instance", <<"ec2.create_image", "ec2.terminate_instances">>>>,
   <<"unassociated-eip", <<"ec2.release_address">>>>,
   <<"available-eni", <<"ec2.delete_network_interface">>>>,
   <<"idle-nat-gateway", <<"ec2.delete_nat_gateway">>>>,
   <<"unused-vpc-endpoint", <<"ec2.delete_vpc_endpoints">>>>,
   <<"unused-security-group", <<"ec2.delete_security_group">>>>,
   <<"detached-internet-gateway", <<"ec2.delete_internet_gateway">>>>,
   <<"empty-classic-lb", <<"elb.delete_load_balancer">>>>}

DataPlans ==
  {<<"stopped-rds-instance", <<"rds.delete_db_instance">>>>,
   <<"orphaned-rds-snapshot", <<"rds.delete_db_snapshot">>>>,
   <<"idle-provisioned-dynamodb", <<"dynamodb.delete_table">>>>,
   <<"log-group-no-retention", <<"logs.put_retention_policy">>>>,
   <<"disabled-kms-key", <<"kms.schedule_key_deletion">>>>,
   <<"stale-secret", <<"secretsmanager.delete_secret">>>>,
   <<"unused-route53-health-check", <<"route53.delete_health_check">>>>}

LightsailPlans ==
  {<<"lightsail-stopped-instance",
    <<"lightsail.create_instance_snapshot", "lightsail.delete_instance">>>>,
   <<"lightsail-unattached-static-ip", <<"lightsail.release_static_ip">>>>,
   <<"lightsail-unattached-disk", <<"lightsail.create_disk_snapshot", "lightsail.delete_disk">>>>,
   <<"lightsail-idle-container-service", <<"lightsail.update_container_service">>>>,
   <<"lightsail-empty-load-balancer", <<"lightsail.delete_load_balancer">>>>}

FixedPlans == StoragePlans \cup NetworkPlans \cup DataPlans \cup LightsailPlans

\* The calls planned for such a check.
CallsFor(check) == (CHOOSE plan \in FixedPlans : plan[1] = check)[2]

(***************************************************************************)
(* Cleaners that look at the finding's details, or at AWS: the uploads of  *)
(* a bucket are listed again when the plan is made.                        *)
(***************************************************************************)
clean_unused_ami(f) ==
  <<On("ec2.deregister_image", f.id)>>
    \o [k \in DOMAIN f.details.snapshot_ids |->
          On("ec2.delete_snapshot", f.details.snapshot_ids[k])]

clean_incomplete_multipart_upload(uploads) ==
  [k \in 1 .. Cardinality(uploads) |->
     On("s3.abort_multipart_upload", SetToSeq(uploads)[k])]

clean_idle_load_balancer(f) ==
  IF f.details.arn THEN <<On("elbv2.delete_load_balancer", f.id)>> ELSE <<>>

clean_unused_route53_zone(f) ==
  IF f.details.namespace # NoNamespace
  THEN <<StepIn(f.details.namespace.region, "servicediscovery.delete_namespace",
                f.details.namespace.id)>>
  ELSE <<On("route53.delete_hosted_zone", f.id)>>

clean_lightsail_orphaned_snapshot(f) ==
  <<On(IF f.details.source_kind = "instance"
       THEN "lightsail.delete_instance_snapshot" ELSE "lightsail.delete_disk_snapshot", f.id)>>

Looking ==
  {"unused-ami", "incomplete-multipart-upload", "idle-load-balancer", "unused-route53-zone",
   "lightsail-orphaned-snapshot"}

\* The checks with a cleaner.
CLEANERS == {plan[1] : plan \in FixedPlans} \cup Looking

\* The steps the registered cleaner yields, with these uploads in the bucket.
Plan(f, uploads) ==
  CASE f.check = "unused-ami" -> clean_unused_ami(f)
    [] f.check = "incomplete-multipart-upload" -> clean_incomplete_multipart_upload(uploads)
    [] f.check = "idle-load-balancer" -> clean_idle_load_balancer(f)
    [] f.check = "unused-route53-zone" -> clean_unused_route53_zone(f)
    [] f.check = "lightsail-orphaned-snapshot" -> clean_lightsail_orphaned_snapshot(f)
    [] OTHER -> [k \in DOMAIN CallsFor(f.check) |-> On(CallsFor(f.check)[k], f.id)]
===============================================================================
