-------------------------------- MODULE Account -------------------------------
(***************************************************************************)
(* The AWS account zombiescan scans and cleans, as far as the checks and   *)
(* the cleaners can tell one resource from another. AWS is not part of the *)
(* repository: what it does is modelled from how the code uses it.         *)
(*                                                                         *)
(* An account is a function from the ids of the resources there are to     *)
(*   kind   what it is                                                     *)
(*   state  the state AWS reports                                          *)
(*   refs   the ids it names: what a volume, an address or a gateway is    *)
(*          attached to, what a snapshot was taken of, the snapshots       *)
(*          behind an image, the VPC and the groups of an interface, the   *)
(*          groups in a group's rules, the balancer of a target group, the *)
(*          health checks in a zone's records, the zone of a Cloud Map     *)
(*          namespace, the bucket of an upload                             *)
(*   is     facts about it, below                                          *)
(***************************************************************************)
EXTENDS Naturals, Sequences, FiniteSets, TLC

Resource(kind, state, refs, is) == [kind |-> kind, state |-> state, refs |-> refs, is |-> is]

\* Facts each of which means that a resource of the kind is not waste.
Sparing ==
  {<<"group", "default">>, <<"vpc", "default">>, <<"endpoint", "gateway">>, <<"image", "young">>,
   <<"image", "undated">>, <<"key", "aws-managed">>, <<"repository", "unnamed">>,
   <<"repository", "no-images">>, <<"repository", "undated">>, <<"repository", "pushed">>,
   <<"table", "on-demand">>, <<"table", "items">>, <<"table", "no-capacity">>,
   <<"log-group", "retention">>, <<"log-group", "no-bytes">>, <<"secret", "deleted">>,
   <<"database", "no-storage">>, <<"db-snapshot", "auto">>, <<"file-system", "mounted">>,
   <<"zone", "records">>, <<"ls-instance", "unnamed">>, <<"ls-disk", "system">>,
   <<"ls-disk", "unnamed">>, <<"ls-ip", "unnamed">>, <<"ls-balancer", "unnamed">>,
   <<"ls-service", "unnamed">>, <<"ls-service", "deployed">>}
  \cup ({"ls-instance-snapshot", "ls-disk-snapshot"} \X {"auto", "unnamed"})
\* Facts that say more about it, or how AWS treats it.
Facts == {s[2] : s \in Sparing} \cup {"read", "never-read", "written", "plumbing", "has-targets",
                                     "root", "cloud-map", "services"}

\* The state of a resource of this kind that no longer works; of any other
\* kind, the state does not tell.
AtRest ==
  {<<"volume", "available">>, <<"instance", "stopped">>, <<"interface", "available">>,
   <<"nat", "available">>, <<"endpoint", "available">>, <<"balancer", "active">>,
   <<"key", "Disabled">>, <<"table", "ACTIVE">>, <<"database", "stopped">>,
   <<"db-snapshot", "available">>, <<"file-system", "available">>, <<"ls-instance", "stopped">>}

Kinds ==
  {s[1] : s \in AtRest} \cup
  {"snapshot", "image", "address", "group", "vpc", "target-group", "classic", "gateway",
   "repository", "log-group", "secret", "zone", "namespace", "health-check", "bucket", "upload",
   "ls-disk", "ls-instance-snapshot", "ls-disk-snapshot", "ls-ip", "ls-balancer", "ls-service"}

CopyKinds == {"snapshot", "db-snapshot", "ls-instance-snapshot", "ls-disk-snapshot"}

Of(a, kind) == {r \in DOMAIN a : a[r].kind = kind}
Naming(a, kind, r) == {u \in Of(a, kind) : r \in a[u].refs}
Without(a, gone) == [r \in DOMAIN a \ gone |-> a[r]]
With(a, r, resource) == [x \in DOMAIN a \cup {r} |-> IF x = r THEN resource ELSE a[x]]

\* Kinds AWS keeps from naming what is gone.
Holding == {"volume", "image", "address", "interface", "group", "nat", "endpoint", "target-group",
            "classic", "gateway", "upload", "namespace", "ls-ip", "ls-disk", "ls-balancer"}

Sound(a) ==
  \A r \in DOMAIN a :
    /\ a[r].kind \in Kinds /\ a[r].is \subseteq Facts
    /\ a[r].kind \in Holding => a[r].refs \subseteq DOMAIN a
    /\ a[r].kind = "volume" /\ a[r].state = "available" => a[r].refs = {}

\* An id stays what it is: it is never given to another kind of resource, and
\* what a copy was taken of, the VPC of a NAT gateway or an endpoint and the
\* bucket of an upload never change.
SameThing(x, y) ==
  /\ x.kind = y.kind
  /\ x.kind \in CopyKinds \cup {"nat", "endpoint", "upload"} => x.refs = y.refs
SameThings(a, b) == \A r \in DOMAIN a \cap DOMAIN b : SameThing(a[r], b[r])

(***************************************************************************)
(* What being in use means, said without any check: Keeps(a, u, r) is that *)
(* u, which may be r itself, gives r a purpose in the account a.           *)
(***************************************************************************)
AttachedKinds == {"volume", "address", "classic", "gateway", "ls-ip", "ls-disk", "ls-balancer"}
\* What a copy can be of: a disk snapshot of a whole instance names the instance.
SourceOf ==
  {<<"volume", "snapshot">>, <<"database", "db-snapshot">>}
  \cup ({"ls-instance", "ls-disk"} \X {"ls-instance-snapshot", "ls-disk-snapshot"})
UserOf ==
  {<<"image", "snapshot">>, <<"instance", "image">>, <<"interface", "group">>,
   <<"group", "group">>, <<"interface", "vpc">>, <<"zone", "health-check">>}

Works(resource) ==
  \/ /\ \E s \in AtRest : s[1] = resource.kind
     /\ <<resource.kind, resource.state>> \notin AtRest
  \/ \E fact \in resource.is : <<resource.kind, fact>> \in Sparing
  \* A secret that is read, or was written as lately as that.
  \/ /\ resource.kind = "secret"
     /\ (IF "never-read" \in resource.is THEN "written" ELSE "read") \in resource.is
  \* A copy of nobody knows what cannot be proven orphaned.
  \/ resource.kind \in {"snapshot", "db-snapshot"} /\ resource.refs = {}

Keeps(a, u, r) ==
  \/ u = r /\ Works(a[r])
  \/ /\ u \in a[r].refs
     /\ a[r].kind \in AttachedKinds \/ <<a[u].kind, a[r].kind>> \in SourceOf
  \/ u # r /\ r \in a[u].refs /\ <<a[u].kind, a[r].kind>> \in UserOf
  \/ /\ a[r].kind \in {"nat", "endpoint"} /\ a[u].kind = "interface"
     /\ a[u].state = "in-use" /\ "plumbing" \notin a[u].is
     /\ a[u].refs \cap a[r].refs # {}
  \/ /\ a[r].kind = "balancer" /\ a[u].kind = "target-group"
     /\ r \in a[u].refs /\ "has-targets" \in a[u].is

Users(a, r) == {u \in DOMAIN a : Keeps(a, u, r)}

\* What there is to pay for: an instance at rest bills its volumes, an image
\* its snapshots, a bucket its unfinished uploads, a container service that
\* is disabled nothing, the rest themselves.
Charges(a, r) ==
  CASE a[r].kind = "instance" -> Naming(a, "volume", r)
    [] a[r].kind = "image" -> a[r].refs
    [] a[r].kind = "bucket" -> Naming(a, "upload", r)
    [] a[r].kind = "ls-service" /\ a[r].state \in {"DISABLED", "DELETING"} -> {}
    [] OTHER -> {r}

Idle(a, r) == r \in DOMAIN a /\ Users(a, r) = {} /\ Charges(a, r) # {}

(***************************************************************************)
(* What a mutating call of a cleaner does. A copy is named after what it   *)
(* is a copy of. A call AWS refuses changes nothing.                       *)
(***************************************************************************)
CopyOf(r) == "copy of " \o r
NamespaceOf(zone) == "namespace of " \o zone

WithCopies(a, of, kind) ==
  [x \in DOMAIN a \cup {CopyOf(r) : r \in of} |->
     IF x \in DOMAIN a THEN a[x]
     ELSE Resource(kind, "available", {r \in of : CopyOf(r) = x}, {})]

Turned(a, r, fact) == [a EXCEPT ![r].is = @ \cup {fact}]
TurnedTo(a, r, state) == [a EXCEPT ![r].state = state]

\* The calls AWS guards: what is attached, held by a VPC or behind an image
\* is not deleted, nor a zone with records, nor a namespace with services.
Refused(a, operation, r) ==
  \/ r \notin DOMAIN a
  \/ operation \in {"ec2.delete_volume", "ec2.release_address", "ec2.delete_internet_gateway",
                    "lightsail.delete_disk"}
     /\ a[r].refs # {}
  \/ operation = "ec2.delete_network_interface" /\ a[r].state = "in-use"
  \/ operation = "ec2.delete_snapshot" /\ Naming(a, "image", r) # {}
  \/ operation = "ec2.delete_security_group"
     /\ (Naming(a, "interface", r) \cup Naming(a, "group", r)) \ {r} # {}
  \/ operation = "efs.delete_file_system" /\ "mounted" \in a[r].is
  \/ operation = "route53.delete_hosted_zone" /\ "records" \in a[r].is
  \/ operation = "servicediscovery.delete_namespace" /\ "services" \in a[r].is
  \/ operation = "kms.schedule_key_deletion" /\ a[r].state = "PendingDeletion"

\* What falls with r: the interfaces of an instance, a NAT gateway or an
\* endpoint, the root volume of an instance, the system disk of a Lightsail
\* one, the zone of a namespace.
FallsWith(a, r) ==
  {r} \cup Naming(a, "interface", r)
      \cup (CASE a[r].kind = "instance" -> {x \in Naming(a, "volume", r) : "root" \in a[x].is}
              [] a[r].kind = "ls-instance" ->
                   {x \in Naming(a, "ls-disk", r) : "system" \in a[x].is}
              [] a[r].kind = "namespace" -> Of(a, "zone") \cap a[r].refs
              [] OTHER -> {})

Removed(a, r) ==
  LET gone == FallsWith(a, r) IN
  [x \in DOMAIN a \ gone |->
     IF a[x].kind \in Holding /\ a[x].refs \cap gone # {}
     THEN [a[x] EXCEPT !.refs = @ \ gone,
                       !.state = IF a[x].kind = "volume" /\ a[x].refs \subseteq gone
                                 THEN "available" ELSE @]
     ELSE a[x]]

CallEffect(a, operation, r) ==
  CASE operation = "ec2.create_snapshot" -> WithCopies(a, {r}, "snapshot")
    [] operation = "lightsail.create_disk_snapshot" -> WithCopies(a, {r}, "ls-disk-snapshot")
    [] operation = "lightsail.create_instance_snapshot" ->
         WithCopies(a, {r}, "ls-instance-snapshot")
    [] operation = "ec2.create_image" ->
         LET volumes == Naming(a, "volume", r) IN
         With(WithCopies(a, volumes, "snapshot"), CopyOf(r),
              Resource("image", "none", {CopyOf(v) : v \in volumes}, {"young"}))
    [] operation = "rds.delete_db_instance" -> Removed(WithCopies(a, {r}, "db-snapshot"), r)
    [] operation = "logs.put_retention_policy" -> Turned(a, r, "retention")
    [] operation = "secretsmanager.delete_secret" -> Turned(a, r, "deleted")
    [] operation = "kms.schedule_key_deletion" -> TurnedTo(a, r, "PendingDeletion")
    [] operation = "lightsail.update_container_service" -> TurnedTo(a, r, "DISABLED")
    [] OTHER -> Removed(a, r)

After(a, operation, r) == IF Refused(a, operation, r) THEN a ELSE CallEffect(a, operation, r)
===============================================================================
