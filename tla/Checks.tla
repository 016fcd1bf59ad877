-------------------------------- MODULE Checks --------------------------------
(***************************************************************************)
(* The checks the core and lightsail packs register. A check reads the     *)
(* account listing by listing and then judges: reads is the order of its   *)
(* listings, finds what it reports of seen, the part of the account it     *)
(* read (each resource as it was when its listing was).                    *)
(*                                                                         *)
(* A finding has the check and the resource, the resources whose charge    *)
(* its cost counts (bills; none for the checks that report clutter),       *)
(* whether the cost is called approximate even with an exact price, and    *)
(* the details its cleaner reads.                                          *)
(***************************************************************************)
EXTENDS Account, Cleaners

NoDetails ==
  [snapshot_ids |-> <<>>, arn |-> TRUE, source_kind |-> "none", namespace |-> NoNamespace]

Finding(check, r, bills, approximate) ==
  [check |-> check, id |-> r, bills |-> bills, approximate |-> approximate,
   details |-> NoDetails]

\* Findings that cost what the resource itself costs, or nothing.
Priced(check, waste) == {Finding(check, r, {r}, FALSE) : r \in waste}
Estimated(check, waste) == {Finding(check, r, {r}, TRUE) : r \in waste}
Free(check, waste) == {Finding(check, r, {}, FALSE) : r \in waste}

In(seen, kind, state) == {r \in Of(seen, kind) : seen[r].state = state}
Unless(seen, listed, facts) == {r \in listed : seen[r].is \cap facts = {}}

\* building.py: a check that is one listing, one condition and one rate.
simple_check(check, kind, rate, waste) ==
  [reads |-> <<kind>>, finds |-> IF rate THEN Priced(check, waste) ELSE Free(check, waste)]

(***************************************************************************)
(* Storage                                                                 *)
(***************************************************************************)
\* The volumes are listed with the filter status = available.
unattached_ebs(seen) ==
  [reads |-> <<"volume">>, finds |-> Priced("unattached-ebs", In(seen, "volume", "available"))]

\* Mutant of orphaned_snapshots: snapshots behind images are not spared.
orphaned_snapshots_all(seen) ==
  [reads |-> <<"volume", "snapshot">>,
   finds |->
     Estimated("orphaned-snapshot",
       {s \in Of(seen, "snapshot") :
          seen[s].refs # {} /\ seen[s].refs \cap Of(seen, "volume") = {}})]

\* Volumes and images are read before the snapshots they would excuse.
orphaned_snapshots(seen) ==
  LET live_volumes == Of(seen, "volume")
      image_snapshots == UNION {seen[i].refs : i \in Of(seen, "image")}
  IN [reads |-> <<"volume", "image", "snapshot">>,
      finds |->
        Estimated("orphaned-snapshot",
          {s \in Of(seen, "snapshot") \ image_snapshots :
             seen[s].refs # {} /\ seen[s].refs \cap live_volumes = {}})]

\* An image's finding counts the snapshots behind it, and names them to its cleaner.
AmiFinding(seen, i) ==
  [Finding("unused-ami", i, seen[i].refs, TRUE) EXCEPT
     !.details.snapshot_ids = SetToSeq(seen[i].refs)]

\* Mutant of unused_ami: an image is old enough on its first day.
unused_ami_any_age(seen) ==
  [reads |-> <<"instance", "image">>,
   finds |->
     {AmiFinding(seen, i) :
        i \in {i \in Of(seen, "image") : Naming(seen, "instance", i) = {} /\ seen[i].refs # {}}}]

unused_ami(seen) ==
  LET in_use == UNION {seen[i].refs : i \in Of(seen, "instance")}
      unused ==
        {i \in Unless(seen, Of(seen, "image") \ in_use, {"young", "undated"}) : seen[i].refs # {}}
  IN [reads |-> <<"instance", "image">>,
      finds |-> {AmiFinding(seen, i) : i \in unused}]

unmounted_efs(seen) ==
  [reads |-> <<"file-system">>,
   finds |-> Priced("unmounted-efs",
                    Unless(seen, In(seen, "file-system", "available"), {"mounted"}))]

\* Buckets, then the uploads of each, then the parts of each upload.
incomplete_multipart_upload(seen) ==
  [reads |-> <<"bucket", "upload">>,
   finds |->
     {Finding("incomplete-multipart-upload", b, Naming(seen, "upload", b), FALSE) :
        b \in {b \in Of(seen, "bucket") : Naming(seen, "upload", b) # {}}}]

ecr_stale_images(seen) ==
  [reads |-> <<"repository">>,
   finds |->
     Estimated("ecr-stale-images",
       Unless(seen, Of(seen, "repository"), {"unnamed", "no-images", "undated", "pushed"}))]

(***************************************************************************)
(* Compute and network                                                     *)
(***************************************************************************)
\* A volume counts for every stopped instance it is attached to.
stopped_instances(seen) ==
  [reads |-> <<"instance", "volume">>,
   finds |->
     {Finding("stopped-instance", i, Naming(seen, "volume", i), FALSE) :
        i \in {i \in In(seen, "instance", "stopped") : Naming(seen, "volume", i) # {}}}]

unassociated_eip(seen) ==
  [reads |-> <<"address">>,
   finds |-> Priced("unassociated-eip", {e \in Of(seen, "address") : seen[e].refs = {}})]

available_eni(seen) ==
  simple_check("available-eni", "interface", FALSE, In(seen, "interface", "available"))

detached_internet_gateway(seen) ==
  simple_check("detached-internet-gateway", "gateway", FALSE,
               {g \in Of(seen, "gateway") : seen[g].refs = {}})

\* Mutant of unused_security_group: rules that name a group do not count.
unused_security_group_unreferenced(seen) ==
  [reads |-> <<"group", "interface">>,
   finds |->
     Free("unused-security-group",
          {g \in Unless(seen, Of(seen, "group"), {"default"}) :
             Naming(seen, "interface", g) = {}})]

unused_security_group(seen) ==
  LET attached == UNION {seen[e].refs : e \in Of(seen, "interface")}
      referenced == UNION {seen[g].refs \ {g} : g \in Of(seen, "group")}
  IN [reads |-> <<"group", "interface">>,
      finds |->
        Free("unused-security-group",
             Unless(seen, Of(seen, "group"), {"default"}) \ (attached \cup referenced))]

\* Mutant of vpcs_with_workloads: a NAT gateway's own interface is a workload.
vpcs_with_plumbing(seen) ==
  UNION {seen[e].refs : e \in In(seen, "interface", "in-use")}

\* helpers.py: what in-use interfaces that are not plumbing are in.
vpcs_with_workloads(seen) ==
  UNION {seen[e].refs : e \in Unless(seen, In(seen, "interface", "in-use"), {"plumbing"})}

idle_nat_gateway(seen) ==
  [reads |-> <<"nat", "interface">>,
   finds |->
     Priced("idle-nat-gateway",
            {n \in In(seen, "nat", "available") :
               seen[n].refs \cap vpcs_with_workloads(seen) = {}})]

unused_vpc_endpoint(seen) ==
  [reads |-> <<"endpoint", "interface">>,
   finds |->
     Priced("unused-vpc-endpoint",
            {e \in Unless(seen, In(seen, "endpoint", "available"), {"gateway"}) :
               seen[e].refs \cap vpcs_with_workloads(seen) = {}})]

\* Interfaces of any state: an available one still means something was here.
empty_vpc(seen) ==
  [reads |-> <<"vpc", "interface">>,
   finds |->
     Free("empty-vpc",
          {v \in Unless(seen, Of(seen, "vpc"), {"default"}) :
             Naming(seen, "interface", v) = {}})]

\* Balancers, then the target groups of each, then the targets of each group.
idle_load_balancer(seen) ==
  LET targets(b) == {g \in Naming(seen, "target-group", b) : "has-targets" \in seen[g].is}
  IN [reads |-> <<"balancer", "target-group">>,
      finds |-> Priced("idle-load-balancer",
                       {b \in In(seen, "balancer", "active") : targets(b) = {}})]

classic_load_balancer(seen) ==
  [reads |-> <<"classic">>,
   finds |-> Priced("empty-classic-lb", {b \in Of(seen, "classic") : seen[b].refs = {}})]

(***************************************************************************)
(* Data services, keys and names                                           *)
(***************************************************************************)
stopped_rds_instance(seen) ==
  [reads |-> <<"database">>,
   finds |-> Priced("stopped-rds-instance",
                    Unless(seen, In(seen, "database", "stopped"), {"no-storage"}))]

orphaned_rds_snapshot(seen) ==
  LET live == Of(seen, "database")
  IN [reads |-> <<"database", "db-snapshot">>,
      finds |->
        Estimated("orphaned-rds-snapshot",
          {s \in Unless(seen, In(seen, "db-snapshot", "available"), {"auto"}) :
             seen[s].refs # {} /\ seen[s].refs \cap live = {}})]

idle_provisioned_dynamodb(seen) ==
  [reads |-> <<"table">>,
   finds |-> Priced("idle-provisioned-dynamodb",
                    Unless(seen, In(seen, "table", "ACTIVE"),
                           {"on-demand", "items", "no-capacity"}))]

log_group_no_retention(seen) ==
  [reads |-> <<"log-group">>,
   finds |-> Estimated("log-group-no-retention",
                       Unless(seen, Of(seen, "log-group"), {"retention", "no-bytes"}))]

\* Mutant of disabled_kms_key: a key waiting for its deletion is disabled too.
disabled_kms_key_any_state(seen) ==
  [reads |-> <<"key">>,
   finds |-> Priced("disabled-kms-key",
                    {k \in Unless(seen, Of(seen, "key"), {"aws-managed"}) :
                       seen[k].state # "Enabled"})]

disabled_kms_key(seen) ==
  [reads |-> <<"key">>,
   finds |-> Priced("disabled-kms-key",
                    Unless(seen, In(seen, "key", "Disabled"), {"aws-managed"}))]

\* Never retrieved: as long since it was written as a retrieved one since it was read.
stale_secret(seen) ==
  LET fresh(s) == IF "never-read" \in seen[s].is THEN "written" \in seen[s].is
                  ELSE "read" \in seen[s].is
  IN [reads |-> <<"secret">>,
      finds |-> Priced("stale-secret",
                       {s \in Unless(seen, Of(seen, "secret"), {"deleted"}) : ~ fresh(s)})]

\* Checks, then the zones, then the records of each zone.
unused_route53_health_check(seen) ==
  LET referenced == UNION {seen[z].refs : z \in Of(seen, "zone")}
  IN [reads |-> <<"health-check", "zone">>,
      finds |-> Estimated("unused-route53-health-check", Of(seen, "health-check") \ referenced)]

\* Cloud Map stamps its namespace into the comment of the zone it makes.
ZoneFinding(seen, z) ==
  [Finding("unused-route53-zone", z, {z}, FALSE) EXCEPT
     !.details.namespace =
       IF "cloud-map" \in seen[z].is THEN [id |-> NamespaceOf(z), region |-> OwnRegion]
       ELSE NoNamespace]

unused_route53_zone(seen) ==
  [reads |-> <<"zone">>,
   finds |-> {ZoneFinding(seen, z) : z \in Unless(seen, Of(seen, "zone"), {"records"})}]

(***************************************************************************)
(* Lightsail                                                               *)
(***************************************************************************)
lightsail_stopped_instance(seen) ==
  [reads |-> <<"ls-instance">>,
   finds |-> Priced("lightsail-stopped-instance",
                    Unless(seen, In(seen, "ls-instance", "stopped"), {"unnamed"}))]

lightsail_unattached_disk(seen) ==
  [reads |-> <<"ls-disk">>,
   finds |-> Priced("lightsail-unattached-disk",
                    {d \in Unless(seen, Of(seen, "ls-disk"), {"system", "unnamed"}) :
                       seen[d].refs = {}})]

lightsail_unattached_static_ip(seen) ==
  [reads |-> <<"ls-ip">>,
   finds |-> Priced("lightsail-unattached-static-ip",
                    {i \in Unless(seen, Of(seen, "ls-ip"), {"unnamed"}) : seen[i].refs = {}})]

lightsail_empty_load_balancer(seen) ==
  [reads |-> <<"ls-balancer">>,
   finds |-> Priced("lightsail-empty-load-balancer",
                    {b \in Unless(seen, Of(seen, "ls-balancer"), {"unnamed"}) :
                       seen[b].refs = {}})]

\* DISABLED no longer bills, DELETING is on its way out.
lightsail_idle_container_service(seen) ==
  [reads |-> <<"ls-service">>,
   finds |-> Priced("lightsail-idle-container-service",
                    {s \in Unless(seen, Of(seen, "ls-service"), {"unnamed", "deployed"}) :
                       seen[s].state \notin {"DISABLED", "DELETING"}})]

LightsailFinding(s, source_kind) ==
  [Finding("lightsail-orphaned-snapshot", s, {s}, FALSE) EXCEPT
     !.details.source_kind = source_kind]

\* A disk snapshot of a whole instance names the instance and no disk.
lightsail_orphaned_snapshot(seen) ==
  LET live == Of(seen, "ls-instance") \cup Of(seen, "ls-disk")
      Orphans(kind, source_kind) ==
        {LightsailFinding(s, source_kind) :
           s \in {s \in Unless(seen, Of(seen, kind), {"auto", "unnamed"}) :
                    seen[s].refs \cap live = {}}}
  IN [reads |-> <<"ls-instance", "ls-disk", "ls-instance-snapshot", "ls-disk-snapshot">>,
      finds |-> Orphans("ls-instance-snapshot", "instance")
                  \cup Orphans("ls-disk-snapshot", "disk")]

(***************************************************************************)
(* The checks by name, and the listings whose items are asked for one by   *)
(* one after the listing itself: describe_key, describe_table,             *)
(* list_resource_record_sets, describe_target_health, list_parts,          *)
(* describe_images.                                                        *)
(***************************************************************************)
\* The resources whose own call is needed: not the zones for their count.
OneByOne(check) ==
  CASE check = "disabled-kms-key" -> {"key"}
    [] check = "idle-provisioned-dynamodb" -> {"table"}
    [] check = "unused-route53-health-check" -> {"zone"}
    [] check = "idle-load-balancer" -> {"target-group"}
    [] check = "incomplete-multipart-upload" -> {"upload"}
    [] check = "ecr-stale-images" -> {"repository"}
    [] OTHER -> {}

CheckNames ==
  {"unattached-ebs", "orphaned-snapshot", "unused-ami", "unmounted-efs",
   "incomplete-multipart-upload", "ecr-stale-images", "stopped-instance", "unassociated-eip",
   "available-eni", "detached-internet-gateway", "unused-security-group", "idle-nat-gateway",
   "unused-vpc-endpoint", "empty-vpc", "idle-load-balancer", "empty-classic-lb",
   "stopped-rds-instance", "orphaned-rds-snapshot", "idle-provisioned-dynamodb",
   "log-group-no-retention", "disabled-kms-key", "stale-secret", "unused-route53-health-check",
   "unused-route53-zone", "lightsail-stopped-instance", "lightsail-unattached-disk",
   "lightsail-unattached-static-ip", "lightsail-empty-load-balancer",
   "lightsail-idle-container-service", "lightsail-orphaned-snapshot"}

CHECKS(check, seen) ==
  CASE check = "unattached-ebs" -> unattached_ebs(seen)
    [] check = "orphaned-snapshot" -> orphaned_snapshots(seen)
    [] check = "unused-ami" -> unused_ami(seen)
    [] check = "unmounted-efs" -> unmounted_efs(seen)
    [] check = "incomplete-multipart-upload" -> incomplete_multipart_upload(seen)
    [] check = "ecr-stale-images" -> ecr_stale_images(seen)
    [] check = "stopped-instance" -> stopped_instances(seen)
    [] check = "unassociated-eip" -> unassociated_eip(seen)
    [] check = "available-eni" -> available_eni(seen)
    [] check = "detached-internet-gateway" -> detached_internet_gateway(seen)
    [] check = "unused-security-group" -> unused_security_group(seen)
    [] check = "idle-nat-gateway" -> idle_nat_gateway(seen)
    [] check = "unused-vpc-endpoint" -> unused_vpc_endpoint(seen)
    [] check = "empty-vpc" -> empty_vpc(seen)
    [] check = "idle-load-balancer" -> idle_load_balancer(seen)
    [] check = "empty-classic-lb" -> classic_load_balancer(seen)
    [] check = "stopped-rds-instance" -> stopped_rds_instance(seen)
    [] check = "orphaned-rds-snapshot" -> orphaned_rds_snapshot(seen)
    [] check = "idle-provisioned-dynamodb" -> idle_provisioned_dynamodb(seen)
    [] check = "log-group-no-retention" -> log_group_no_retention(seen)
    [] check = "disabled-kms-key" -> disabled_kms_key(seen)
    [] check = "stale-secret" -> stale_secret(seen)
    [] check = "unused-route53-health-check" -> unused_route53_health_check(seen)
    [] check = "unused-route53-zone" -> unused_route53_zone(seen)
    [] check = "lightsail-stopped-instance" -> lightsail_stopped_instance(seen)
    [] check = "lightsail-unattached-disk" -> lightsail_unattached_disk(seen)
    [] check = "lightsail-unattached-static-ip" -> lightsail_unattached_static_ip(seen)
    [] check = "lightsail-empty-load-balancer" -> lightsail_empty_load_balancer(seen)
    [] check = "lightsail-idle-container-service" -> lightsail_idle_container_service(seen)
    [] check = "lightsail-orphaned-snapshot" -> lightsail_orphaned_snapshot(seen)
===============================================================================
