------------------------------ MODULE MCCoreClean -----------------------------
(***************************************************************************)
(* Instances of CoreClean. The home region is us-east-1; what is found is  *)
(* a volume in eu-west-1, a bucket with two uploads, an endpoint, an image *)
(* with its snapshot, a zone whose Cloud Map namespace is in eu-west-1, a  *)
(* Lightsail instance, a VPC (which has no cleaner) and a finding of a     *)
(* check that is not installed.                                            *)
(***************************************************************************)
EXTENDS CoreClean

MCHome == "us-east-1"
Far == "eu-west-1"
Global == "global"

Found(check, id, region, cost) ==
  [check |-> check, id |-> id, region |-> region, monthly_cost |-> cost,
   details |-> [namespace |-> NoNamespace]]

volume == Found("unattached-ebs", "vol", Far, 8)
bucket == Found("incomplete-multipart-upload", "bucket", MCHome, 2)
endpoint == Found("unused-vpc-endpoint", "vpce", Far, 7)
instance == Found("lightsail-stopped-instance", "blog", MCHome, 5)
health == Found("unused-route53-health-check", "hc", Global, 1)
vpc == Found("empty-vpc", "vpc", Far, 1)
unknown == Found("acme-idle-widget", "widget", Far, 3)
ami ==
  [Found("unused-ami", "ami", Far, 4) EXCEPT
     !.details = [namespace |-> NoNamespace, snapshot_ids |-> <<"snap">>]]
zone ==
  [Found("unused-route53-zone", "zone", Global, 1) EXCEPT
     !.details = [namespace |-> [id |-> "ns", region |-> Far]]]

MCFindings == {volume, bucket, endpoint, instance, health, vpc, unknown, ami, zone}
MCReports == {<<volume, bucket, zone>>, <<endpoint, health, vpc>>, <<ami, volume, unknown>>}
OneInstance == {<<instance>>}
OneVolume == {<<volume>>}

MCResource == {"vol", "up1", "up2", "vpce", "blog", "ns", "zone", "hc", "ami", "snap"}
MCUncleanable == {"empty-vpc", "ecr-stale-images"}
MCUploads == {"up1"}
MCUploadsOf(f) == IF f = bucket THEN {"up1", "up2"} ELSE {}
MCPlanner(f, existing) == Plan(f, existing \cap MCUploadsOf(f))
MCCleanable == CLEANERS
MCInstalled == CLEANERS \cup MCUncleanable
MCOperation == UNION {{b[1], b[2]} : b \in BackupFor} \cup Irreversible
                 \cup {"ec2.delete_vpc_endpoints", "route53.delete_health_check"}
MCBackups == {b[1] : b \in BackupFor}
MCLives == [r \in MCResource |->
              IF r \in {"vol", "vpce", "ns", "ami", "snap"} THEN Far
              ELSE IF r \in {"zone", "hc"} THEN Global ELSE MCHome]

\* Command lines: a dry run, prompts, --yes; of a scan, or of a report.
CommandLines ==
  {o \in [apply : BOOLEAN, yes : BOOLEAN, audit : BOOLEAN, from : BOOLEAN,
          scanned_as : {"nobody", "caller", "another"},
          checks : {{}, {"unattached-ebs", "unused-route53-zone"}}, min_cost : {0, 2}] :
     /\ o.yes => o.apply
     /\ ~ o.from => o.scanned_as = "caller"
     /\ o.checks # {} => o.min_cost = 0}

Prompting ==
  {[apply |-> TRUE, yes |-> FALSE, audit |-> TRUE, from |-> FALSE, scanned_as |-> "caller",
    checks |-> {}, min_cost |-> 0]}
===============================================================================
