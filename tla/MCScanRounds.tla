----------------------------- MODULE MCScanRounds -----------------------------
(***************************************************************************)
(* Accounts for ScanRounds, one for each family of checks, with the        *)
(* resources its checks judge, in use and not, and what the owner may do.  *)
(***************************************************************************)
EXTENDS ScanRounds

Res(kind, state, refs) == Resource(kind, state, refs, {})
But(kind, refs, fact) == Resource(kind, "none", refs, {fact})
Create(r, to) == [does |-> "create", id |-> r, to |-> to]
Change(r, to) == [does |-> "change", id |-> r, to |-> to]
Delete(r) == [does |-> "delete", id |-> r, to |-> Res("none", "none", {})]

\* v1 unattached; i1 stopped with its root v2 and v3, launched from ami1; s1
\* of a volume long gone; ami2 unused, sharing s3 with the young ami3.
Storage ==
  [there |->
        "v1" :> Res("volume", "available", {})
     @@ "v2" :> Resource("volume", "in-use", {"i1"}, {"root"})
     @@ "v3" :> Res("volume", "in-use", {"i1"})
     @@ "i1" :> Res("instance", "stopped", {"ami1"})
     @@ "ami1" :> Res("image", "none", {"s2"})
     @@ "ami2" :> Res("image", "none", {"s3", "s4"})
     @@ "ami3" :> But("image", {"s3"}, "young")
     @@ "s1" :> Res("snapshot", "none", {"v0"})
     @@ "s2" :> Res("snapshot", "none", {"v0"})
     @@ "s3" :> Res("snapshot", "none", {"v0"})
     @@ "s4" :> Res("snapshot", "none", {})
     @@ "s5" :> Res("snapshot", "none", {"v1"}),
   moves |-> {Create("v9", Res("volume", "available", {})),
              Create("s9", Res("snapshot", "none", {"v9"})),
              Create("i9", Res("instance", "running", {"ami2"})),
              Change("i1", Res("instance", "running", {"ami1"})),
              Change("v1", Res("volume", "in-use", {"i1"})),
              Change("v3", Res("volume", "available", {})),
              Delete("v1"), Delete("i1")},
   checks |-> <<"orphaned-snapshot", "stopped-instance", "unattached-ebs", "unused-ami">>,
   changes |-> 2]

\* VPC 1 has a NAT gateway with its address, an endpoint and an interface
\* nobody uses; VPC 2 a workload; VPC 3 nothing. g3 names g2 in its rules.
Network ==
  [there |->
        "vpc0" :> But("vpc", {}, "default") @@ "vpc1" :> Res("vpc", "none", {})
     @@ "vpc2" :> Res("vpc", "none", {}) @@ "vpc3" :> Res("vpc", "none", {})
     @@ "nat1" :> Res("nat", "available", {"vpc1"}) @@ "ep1" :> Res("endpoint", "available", {"vpc1"})
     @@ "ep2" :> Resource("endpoint", "available", {"vpc1"}, {"gateway"})
     @@ "nat2" :> Res("nat", "available", {"vpc2"})
     @@ "e-nat1" :> Resource("interface", "in-use", {"vpc1", "nat1"}, {"plumbing"})
     @@ "e-ep1" :> Resource("interface", "in-use", {"vpc1", "ep1"}, {"plumbing"})
     @@ "e1" :> Res("interface", "available", {"vpc1", "g4"})
     @@ "e2" :> Res("interface", "in-use", {"vpc2", "g1"})
     @@ "a1" :> Res("address", "none", {"nat1"}) @@ "a2" :> Res("address", "none", {})
     @@ "g0" :> But("group", {}, "default") @@ "g1" :> Res("group", "none", {})
     @@ "g2" :> Res("group", "none", {}) @@ "g3" :> Res("group", "none", {"g2"})
     @@ "g4" :> Res("group", "none", {})
     @@ "gw1" :> Res("gateway", "none", {}) @@ "gw2" :> Res("gateway", "none", {"vpc2"}),
   moves |-> {Create("e9", Res("interface", "in-use", {"vpc1", "g3"})),
              Create("nat9", Res("nat", "available", {"vpc3"})),
              Create("g9", Res("group", "none", {"g3"})),
              Change("e2", Res("interface", "available", {"vpc2", "g1"})),
              Change("a2", Res("address", "none", {"e2"})),
              Change("gw1", Res("gateway", "none", {"vpc3"})), Delete("e2")},
   checks |-> <<"idle-nat-gateway", "unassociated-eip", "available-eni", "unused-security-group",
                "unused-vpc-endpoint", "empty-vpc", "detached-internet-gateway">>,
   changes |-> 1]

Data ==
  [there |->
        "db1" :> Res("database", "stopped", {}) @@ "db2" :> Res("database", "available", {})
     @@ "d1" :> Res("db-snapshot", "available", {"db0"})
     @@ "d2" :> Res("db-snapshot", "available", {"db2"})
     @@ "d3" :> Resource("db-snapshot", "available", {"db0"}, {"auto"})
     @@ "d4" :> Res("db-snapshot", "available", {})
     @@ "t1" :> Res("table", "ACTIVE", {}) @@ "t2" :> Resource("table", "ACTIVE", {}, {"items"})
     @@ "t3" :> Res("table", "CREATING", {})
     @@ "log1" :> Res("log-group", "none", {}) @@ "log2" :> But("log-group", {}, "retention")
     @@ "key1" :> Res("key", "Disabled", {}) @@ "key2" :> Res("key", "Enabled", {})
     @@ "key3" :> Resource("key", "Disabled", {}, {"aws-managed"}),
   moves |-> {Create("d9", Res("db-snapshot", "available", {"db1"})),
              Create("db9", Res("database", "stopped", {})),
              Change("t1", Resource("table", "ACTIVE", {}, {"items"})),
              Change("key1", Res("key", "Enabled", {})),
              Change("db1", Res("database", "available", {})),
              Delete("db2"), Delete("t1"), Delete("t2")},
   checks |-> <<"stopped-rds-instance", "orphaned-rds-snapshot", "idle-provisioned-dynamodb",
                "log-group-no-retention", "disabled-kms-key">>,
   changes |-> 2]

\* A bucket with two uploads, a zone under a namespace with services in it.
Names ==
  [there |->
        "z1" :> Resource("zone", "none", {"hc1"}, {"records"})
     @@ "z2" :> Resource("zone", "none", {}, {"records"})
     @@ "z3" :> But("zone", {}, "cloud-map")
     @@ NamespaceOf("z3") :> But("namespace", {"z3"}, "services")
     @@ "hc1" :> Res("health-check", "none", {}) @@ "hc2" :> Res("health-check", "none", {})
     @@ "lb1" :> Res("balancer", "active", {}) @@ "lb2" :> Res("balancer", "active", {})
     @@ "lb3" :> Res("balancer", "provisioning", {})
     @@ "tg1" :> Res("target-group", "none", {"lb1"})
     @@ "tg2" :> But("target-group", {"lb2"}, "has-targets")
     @@ "clb1" :> Res("classic", "none", {})
     @@ "b1" :> Res("bucket", "none", {}) @@ "b2" :> Res("bucket", "none", {})
     @@ "u1" :> Res("upload", "none", {"b1"}) @@ "u2" :> Res("upload", "none", {"b1"}),
   moves |-> {Create("z9", Resource("zone", "none", {"hc2"}, {"records"})),
              Create("u9", Res("upload", "none", {"b2"})),
              Create("tg9", But("target-group", {"lb1"}, "has-targets")),
              Change("z1", Resource("zone", "none", {}, {"records"})),
              Change("z2", Resource("zone", "none", {"hc1"}, {"records"})),
              Change("tg2", Res("target-group", "none", {"lb2"})),
              Delete("u1"), Delete("tg1"), Delete("lb1"), Delete("z2")},
   checks |-> <<"unused-route53-health-check", "idle-load-balancer",
                "incomplete-multipart-upload", "unused-route53-zone", "empty-classic-lb">>,
   changes |-> 2]

Files ==
  [there |->
        "fs1" :> Res("file-system", "available", {})
     @@ "fs2" :> Resource("file-system", "available", {}, {"mounted"})
     @@ "repo1" :> Res("repository", "none", {}) @@ "repo2" :> But("repository", {}, "pushed")
     @@ "sec1" :> Res("secret", "none", {}) @@ "sec2" :> But("secret", {}, "read")
     @@ "sec3" :> But("secret", {}, "never-read")
     @@ "sec4" :> Resource("secret", "none", {}, {"never-read", "written"})
     @@ "sec5" :> But("secret", {}, "written"),
   moves |-> {Change("fs1", Resource("file-system", "available", {}, {"mounted"})),
              Change("fs2", Res("file-system", "available", {})),
              Change("repo1", But("repository", {}, "pushed")),
              Change("sec3", Resource("secret", "none", {}, {"never-read", "written"})),
              Delete("repo1"), Delete("repo2"), Delete("sec1")},
   checks |-> <<"unmounted-efs", "ecr-stale-images", "stale-secret">>,
   changes |-> 2]

\* blog stopped, with its system disk; shop running. One snapshot of shop, one
\* of what is gone, one automatic, one of a disk of shop's.
Lightsail ==
  [there |->
        "blog" :> Res("ls-instance", "stopped", {}) @@ "shop" :> Res("ls-instance", "running", {})
     @@ "blog-sys" :> But("ls-disk", {"blog"}, "system")
     @@ "disk1" :> Res("ls-disk", "none", {}) @@ "disk2" :> Res("ls-disk", "none", {"shop"})
     @@ "ip1" :> Res("ls-ip", "none", {}) @@ "ip2" :> Res("ls-ip", "none", {"blog"})
     @@ "llb1" :> Res("ls-balancer", "none", {}) @@ "llb2" :> Res("ls-balancer", "none", {"shop"})
     @@ "svc1" :> Res("ls-service", "READY", {})
     @@ "svc2" :> Resource("ls-service", "RUNNING", {}, {"deployed"})
     @@ "snap1" :> Res("ls-instance-snapshot", "none", {"shop"})
     @@ "snap2" :> Res("ls-instance-snapshot", "none", {"old"})
     @@ "snap3" :> But("ls-instance-snapshot", {"old"}, "auto")
     @@ "snap4" :> Res("ls-disk-snapshot", "none", {"shop"}),
   moves |-> {Create("new", Res("ls-instance", "stopped", {})),
              Create("snap9", Res("ls-instance-snapshot", "none", {"new"})),
              Change("blog", Res("ls-instance", "running", {})),
              Change("disk1", Res("ls-disk", "none", {"shop"})),
              Change("svc2", Res("ls-service", "READY", {})),
              Delete("shop"), Delete("ip1")},
   checks |-> <<"lightsail-orphaned-snapshot", "lightsail-stopped-instance",
                "lightsail-unattached-disk", "lightsail-unattached-static-ip",
                "lightsail-idle-container-service", "lightsail-empty-load-balancer">>,
   changes |-> 1]

MCScenes ==
     "storage" :> Storage @@ "network" :> Network @@ "data" :> Data @@ "names" :> Names
  @@ "files" :> Files @@ "lightsail" :> Lightsail
RaceScenes == "storage" :> Storage

\* The owners of these accounts are everyday ones, of whom the theorems speak.
ASSUME MCEveryday == Everyday
===============================================================================
