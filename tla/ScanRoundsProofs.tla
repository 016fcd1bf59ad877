-------------------------- MODULE ScanRoundsProofs --------------------------
(*****************************************************************************)
(* A check that reads the account one call after the other while its owner   *)
(* goes on using it still judges rightly what stays as it is: what one and   *)
(* the same user keeps in use is not reported, what nothing uses is. This    *)
(* holds of every account, every list of checks and whatever the owner does. *)
(*                                                                           *)
(* First, what keeps a resource of each kind in use. Then each check is right*)
(* on any reading of its listings that was made, item by item, at            *)
(* moments of the check. Then, that what Lists and Describes have read is    *)
(* such a reading, by an invariant of the rounds.                            *)
(*                                                                           *)
(* Last, that a clean run loses no data and takes no young image, whatever   *)
(* an everyday owner does between its calls: call by call, plan by plan; and *)
(* that no two checks count one charge.                                      *)
(*****************************************************************************)
EXTENDS ScanRounds, TLAPS, FiniteSetTheorems

(*****************************************************************************)
(* The tables of Account, entry by entry.                                    *)
(*****************************************************************************)
LEMMA AtRestIs ==
  \A k, x : <<k, x>> \in AtRest <=>
    \/ /\ k \in {"volume", "interface", "nat", "endpoint", "db-snapshot", "file-system"}
       /\ x = "available"
    \/ k \in {"instance", "database", "ls-instance"} /\ x = "stopped"
    \/ k = "balancer" /\ x = "active"
    \/ k = "key" /\ x = "Disabled"
    \/ k = "table" /\ x = "ACTIVE"
BY DEF AtRest

LEMMA StatesTell ==
  \A k : (\E x \in AtRest : x[1] = k) <=>
    k \in {"volume", "instance", "interface", "nat", "endpoint", "balancer", "key", "table",
           "database", "db-snapshot", "file-system", "ls-instance"}
BY DEF AtRest

LEMMA SparingIs ==
  \A k, x : <<k, x>> \in Sparing <=>
    \/ k \in {"ls-instance-snapshot", "ls-disk-snapshot"} /\ x \in {"auto", "unnamed"}
    \/ k \in {"ls-disk"} /\ x \in {"system", "unnamed"}
    \/ k \in {"ls-service"} /\ x \in {"deployed", "unnamed"}
    \/ k \in {"ls-ip", "ls-balancer", "ls-instance"} /\ x \in {"unnamed"}
    \/ k \in {"group", "vpc"} /\ x \in {"default"}
    \/ k = "endpoint" /\ x = "gateway"
    \/ k = "key" /\ x = "aws-managed"
    \/ k = "image" /\ x \in {"young", "undated"}
    \/ k = "repository" /\ x \in {"unnamed", "no-images", "undated", "pushed"}
    \/ k = "table" /\ x \in {"items", "on-demand", "no-capacity"}
    \/ k = "log-group" /\ x \in {"retention", "no-bytes"}
    \/ k = "secret" /\ x = "deleted"
    \/ k = "database" /\ x = "no-storage"
    \/ k = "db-snapshot" /\ x = "auto"
    \/ k = "file-system" /\ x = "mounted"
    \/ k = "zone" /\ x = "records"
BY DEF Sparing

LEMMA SourceOfIs ==
  \A k, x : <<k, x>> \in SourceOf <=>
    \/ k = "volume" /\ x = "snapshot"
    \/ k = "database" /\ x = "db-snapshot"
    \/ k \in {"ls-instance", "ls-disk"} /\ x \in {"ls-instance-snapshot", "ls-disk-snapshot"}
BY DEF SourceOf

LEMMA UserOfIs ==
  \A k, x : <<k, x>> \in UserOf <=>
    \/ k = "image" /\ x = "snapshot"
    \/ k = "instance" /\ x = "image"
    \/ k = "interface" /\ x \in {"group", "vpc"}
    \/ k = "group" /\ x = "group"
    \/ k = "zone" /\ x = "health-check"
BY DEF UserOf

(*****************************************************************************)
(* What keeps a resource in use, kind by kind.                               *)
(*****************************************************************************)
LEMMA VolumeKept ==
  ASSUME NEW a, NEW u, NEW r, a[r].kind = "volume"
  PROVE  Keeps(a, u, r) <=>
       \/ u = r /\ a[r].state # "available"
       \/ u \in a[r].refs
<1>1. (\E y \in AtRest : y[1] = a[r].kind) <=> TRUE
  BY StatesTell
<1>2. <<a[r].kind, a[r].state>> \in AtRest <=> a[r].state = "available"
  BY AtRestIs
<1>3. \A f : <<a[r].kind, f>> \in Sparing <=> f \in {}
  BY SparingIs
<1>4. Works(a[r]) <=> a[r].state # "available"
  BY <1>1, <1>2, <1>3 DEF Works
<1>5. \A x : <<x, "volume">> \in UserOf <=> x \in {}
  BY UserOfIs
<1>6. \A x : <<x, "volume">> \in SourceOf <=> x \in {}
  BY SourceOfIs
<1> QED  BY <1>4, <1>5, <1>6 DEF Keeps, AttachedKinds

LEMMA SnapshotKept ==
  ASSUME NEW a, NEW u, NEW r, a[r].kind = "snapshot"
  PROVE  Keeps(a, u, r) <=>
       \/ u = r /\ a[r].refs = {}
       \/ u \in a[r].refs /\ a[u].kind = "volume"
       \/ r \in a[u].refs /\ a[u].kind = "image"
<1>1. (\E y \in AtRest : y[1] = a[r].kind) <=> FALSE
  BY StatesTell
<1>3. \A f : <<a[r].kind, f>> \in Sparing <=> f \in {}
  BY SparingIs
<1>4. Works(a[r]) <=> a[r].refs = {}
  BY <1>1, <1>3 DEF Works
<1>5. \A x : <<x, "snapshot">> \in UserOf <=> x \in {"image"}
  BY UserOfIs
<1>6. \A x : <<x, "snapshot">> \in SourceOf <=> x \in {"volume"}
  BY SourceOfIs
<1> QED  BY <1>4, <1>5, <1>6 DEF Keeps, AttachedKinds

LEMMA ImageKept ==
  ASSUME NEW a, NEW u, NEW r, a[r].kind = "image"
  PROVE  Keeps(a, u, r) <=>
       \/ u = r /\ "young" \in a[r].is
       \/ u = r /\ "undated" \in a[r].is
       \/ r \in a[u].refs /\ a[u].kind = "instance"
<1>1. (\E y \in AtRest : y[1] = a[r].kind) <=> FALSE
  BY StatesTell
<1>3. \A f : <<a[r].kind, f>> \in Sparing <=> f \in {"young", "undated"}
  BY SparingIs
<1>4. Works(a[r]) <=>
         \/ "young" \in a[r].is
         \/ "undated" \in a[r].is
  BY <1>1, <1>3 DEF Works
<1>5. \A x : <<x, "image">> \in UserOf <=> x \in {"instance"}
  BY UserOfIs
<1>6. \A x : <<x, "image">> \in SourceOf <=> x \in {}
  BY SourceOfIs
<1> QED  BY <1>4, <1>5, <1>6 DEF Keeps, AttachedKinds

LEMMA FileSystemKept ==
  ASSUME NEW a, NEW u, NEW r, a[r].kind = "file-system"
  PROVE  Keeps(a, u, r) <=>
       \/ u = r /\ a[r].state # "available"
       \/ u = r /\ "mounted" \in a[r].is
<1>1. (\E y \in AtRest : y[1] = a[r].kind) <=> TRUE
  BY StatesTell
<1>2. <<a[r].kind, a[r].state>> \in AtRest <=> a[r].state = "available"
  BY AtRestIs
<1>3. \A f : <<a[r].kind, f>> \in Sparing <=> f \in {"mounted"}
  BY SparingIs
<1>4. Works(a[r]) <=>
         \/ a[r].state # "available"
         \/ "mounted" \in a[r].is
  BY <1>1, <1>2, <1>3 DEF Works
<1>5. \A x : <<x, "file-system">> \in UserOf <=> x \in {}
  BY UserOfIs
<1>6. \A x : <<x, "file-system">> \in SourceOf <=> x \in {}
  BY SourceOfIs
<1> QED  BY <1>4, <1>5, <1>6 DEF Keeps, AttachedKinds

LEMMA BucketKept ==
  ASSUME NEW a, NEW u, NEW r, a[r].kind = "bucket"
  PROVE  Keeps(a, u, r) <=>
       FALSE
<1>1. (\E y \in AtRest : y[1] = a[r].kind) <=> FALSE
  BY StatesTell
<1>3. \A f : <<a[r].kind, f>> \in Sparing <=> f \in {}
  BY SparingIs
<1>4. Works(a[r]) <=> FALSE
  BY <1>1, <1>3 DEF Works
<1>5. \A x : <<x, "bucket">> \in UserOf <=> x \in {}
  BY UserOfIs
<1>6. \A x : <<x, "bucket">> \in SourceOf <=> x \in {}
  BY SourceOfIs
<1> QED  BY <1>4, <1>5, <1>6 DEF Keeps, AttachedKinds

LEMMA RepositoryKept ==
  ASSUME NEW a, NEW u, NEW r, a[r].kind = "repository"
  PROVE  Keeps(a, u, r) <=>
       \/ u = r /\ "unnamed" \in a[r].is
       \/ u = r /\ "no-images" \in a[r].is
       \/ u = r /\ "undated" \in a[r].is
       \/ u = r /\ "pushed" \in a[r].is
<1>1. (\E y \in AtRest : y[1] = a[r].kind) <=> FALSE
  BY StatesTell
<1>3. \A f : <<a[r].kind, f>> \in Sparing <=> f \in {"unnamed", "no-images", "undated", "pushed"}
  BY SparingIs
<1>4. Works(a[r]) <=>
         \/ "unnamed" \in a[r].is
         \/ "no-images" \in a[r].is
         \/ "undated" \in a[r].is
         \/ "pushed" \in a[r].is
  BY <1>1, <1>3 DEF Works
<1>5. \A x : <<x, "repository">> \in UserOf <=> x \in {}
  BY UserOfIs
<1>6. \A x : <<x, "repository">> \in SourceOf <=> x \in {}
  BY SourceOfIs
<1> QED  BY <1>4, <1>5, <1>6 DEF Keeps, AttachedKinds

LEMMA InstanceKept ==
  ASSUME NEW a, NEW u, NEW r, a[r].kind = "instance"
  PROVE  Keeps(a, u, r) <=>
       \/ u = r /\ a[r].state # "stopped"
<1>1. (\E y \in AtRest : y[1] = a[r].kind) <=> TRUE
  BY StatesTell
<1>2. <<a[r].kind, a[r].state>> \in AtRest <=> a[r].state = "stopped"
  BY AtRestIs
<1>3. \A f : <<a[r].kind, f>> \in Sparing <=> f \in {}
  BY SparingIs
<1>4. Works(a[r]) <=> a[r].state # "stopped"
  BY <1>1, <1>2, <1>3 DEF Works
<1>5. \A x : <<x, "instance">> \in UserOf <=> x \in {}
  BY UserOfIs
<1>6. \A x : <<x, "instance">> \in SourceOf <=> x \in {}
  BY SourceOfIs
<1> QED  BY <1>4, <1>5, <1>6 DEF Keeps, AttachedKinds

LEMMA AddressKept ==
  ASSUME NEW a, NEW u, NEW r, a[r].kind = "address"
  PROVE  Keeps(a, u, r) <=>
       \/ u \in a[r].refs
<1>1. (\E y \in AtRest : y[1] = a[r].kind) <=> FALSE
  BY StatesTell
<1>3. \A f : <<a[r].kind, f>> \in Sparing <=> f \in {}
  BY SparingIs
<1>4. Works(a[r]) <=> FALSE
  BY <1>1, <1>3 DEF Works
<1>5. \A x : <<x, "address">> \in UserOf <=> x \in {}
  BY UserOfIs
<1>6. \A x : <<x, "address">> \in SourceOf <=> x \in {}
  BY SourceOfIs
<1> QED  BY <1>4, <1>5, <1>6 DEF Keeps, AttachedKinds

LEMMA InterfaceKept ==
  ASSUME NEW a, NEW u, NEW r, a[r].kind = "interface"
  PROVE  Keeps(a, u, r) <=>
       \/ u = r /\ a[r].state # "available"
<1>1. (\E y \in AtRest : y[1] = a[r].kind) <=> TRUE
  BY StatesTell
<1>2. <<a[r].kind, a[r].state>> \in AtRest <=> a[r].state = "available"
  BY AtRestIs
<1>3. \A f : <<a[r].kind, f>> \in Sparing <=> f \in {}
  BY SparingIs
<1>4. Works(a[r]) <=> a[r].state # "available"
  BY <1>1, <1>2, <1>3 DEF Works
<1>5. \A x : <<x, "interface">> \in UserOf <=> x \in {}
  BY UserOfIs
<1>6. \A x : <<x, "interface">> \in SourceOf <=> x \in {}
  BY SourceOfIs
<1> QED  BY <1>4, <1>5, <1>6 DEF Keeps, AttachedKinds

LEMMA GatewayKept ==
  ASSUME NEW a, NEW u, NEW r, a[r].kind = "gateway"
  PROVE  Keeps(a, u, r) <=>
       \/ u \in a[r].refs
<1>1. (\E y \in AtRest : y[1] = a[r].kind) <=> FALSE
  BY StatesTell
<1>3. \A f : <<a[r].kind, f>> \in Sparing <=> f \in {}
  BY SparingIs
<1>4. Works(a[r]) <=> FALSE
  BY <1>1, <1>3 DEF Works
<1>5. \A x : <<x, "gateway">> \in UserOf <=> x \in {}
  BY UserOfIs
<1>6. \A x : <<x, "gateway">> \in SourceOf <=> x \in {}
  BY SourceOfIs
<1> QED  BY <1>4, <1>5, <1>6 DEF Keeps, AttachedKinds

LEMMA GroupKept ==
  ASSUME NEW a, NEW u, NEW r, a[r].kind = "group"
  PROVE  Keeps(a, u, r) <=>
       \/ u = r /\ "default" \in a[r].is
       \/ r \in a[u].refs /\ a[u].kind = "interface"
       \/ u # r /\ r \in a[u].refs /\ a[u].kind = "group"
<1>1. (\E y \in AtRest : y[1] = a[r].kind) <=> FALSE
  BY StatesTell
<1>3. \A f : <<a[r].kind, f>> \in Sparing <=> f \in {"default"}
  BY SparingIs
<1>4. Works(a[r]) <=> "default" \in a[r].is
  BY <1>1, <1>3 DEF Works
<1>5. \A x : <<x, "group">> \in UserOf <=> x \in {"interface", "group"}
  BY UserOfIs
<1>6. \A x : <<x, "group">> \in SourceOf <=> x \in {}
  BY SourceOfIs
<1> QED  BY <1>4, <1>5, <1>6 DEF Keeps, AttachedKinds

LEMMA NatKept ==
  ASSUME NEW a, NEW u, NEW r, a[r].kind = "nat"
  PROVE  Keeps(a, u, r) <=>
       \/ u = r /\ a[r].state # "available"
       \/ /\ a[u].kind = "interface" /\ a[u].state = "in-use"
          /\ "plumbing" \notin a[u].is /\ a[u].refs \cap a[r].refs # {}
<1>1. (\E y \in AtRest : y[1] = a[r].kind) <=> TRUE
  BY StatesTell
<1>2. <<a[r].kind, a[r].state>> \in AtRest <=> a[r].state = "available"
  BY AtRestIs
<1>3. \A f : <<a[r].kind, f>> \in Sparing <=> f \in {}
  BY SparingIs
<1>4. Works(a[r]) <=> a[r].state # "available"
  BY <1>1, <1>2, <1>3 DEF Works
<1>5. \A x : <<x, "nat">> \in UserOf <=> x \in {}
  BY UserOfIs
<1>6. \A x : <<x, "nat">> \in SourceOf <=> x \in {}
  BY SourceOfIs
<1> QED  BY <1>4, <1>5, <1>6 DEF Keeps, AttachedKinds

LEMMA EndpointKept ==
  ASSUME NEW a, NEW u, NEW r, a[r].kind = "endpoint"
  PROVE  Keeps(a, u, r) <=>
       \/ u = r /\ a[r].state # "available"
       \/ u = r /\ "gateway" \in a[r].is
       \/ /\ a[u].kind = "interface" /\ a[u].state = "in-use"
          /\ "plumbing" \notin a[u].is /\ a[u].refs \cap a[r].refs # {}
<1>1. (\E y \in AtRest : y[1] = a[r].kind) <=> TRUE
  BY StatesTell
<1>2. <<a[r].kind, a[r].state>> \in AtRest <=> a[r].state = "available"
  BY AtRestIs
<1>3. \A f : <<a[r].kind, f>> \in Sparing <=> f \in {"gateway"}
  BY SparingIs
<1>4. Works(a[r]) <=>
         \/ a[r].state # "available"
         \/ "gateway" \in a[r].is
  BY <1>1, <1>2, <1>3 DEF Works
<1>5. \A x : <<x, "endpoint">> \in UserOf <=> x \in {}
  BY UserOfIs
<1>6. \A x : <<x, "endpoint">> \in SourceOf <=> x \in {}
  BY SourceOfIs
<1> QED  BY <1>4, <1>5, <1>6 DEF Keeps, AttachedKinds

LEMMA VpcKept ==
  ASSUME NEW a, NEW u, NEW r, a[r].kind = "vpc"
  PROVE  Keeps(a, u, r) <=>
       \/ u = r /\ "default" \in a[r].is
       \/ r \in a[u].refs /\ a[u].kind = "interface"
<1>1. (\E y \in AtRest : y[1] = a[r].kind) <=> FALSE
  BY StatesTell
<1>3. \A f : <<a[r].kind, f>> \in Sparing <=> f \in {"default"}
  BY SparingIs
<1>4. Works(a[r]) <=> "default" \in a[r].is
  BY <1>1, <1>3 DEF Works
<1>5. \A x : <<x, "vpc">> \in UserOf <=> x \in {"interface"}
  BY UserOfIs
<1>6. \A x : <<x, "vpc">> \in SourceOf <=> x \in {}
  BY SourceOfIs
<1> QED  BY <1>4, <1>5, <1>6 DEF Keeps, AttachedKinds

LEMMA BalancerKept ==
  ASSUME NEW a, NEW u, NEW r, a[r].kind = "balancer"
  PROVE  Keeps(a, u, r) <=>
       \/ u = r /\ a[r].state # "active"
       \/ /\ a[u].kind = "target-group" /\ r \in a[u].refs
          /\ "has-targets" \in a[u].is
<1>1. (\E y \in AtRest : y[1] = a[r].kind) <=> TRUE
  BY StatesTell
<1>2. <<a[r].kind, a[r].state>> \in AtRest <=> a[r].state = "active"
  BY AtRestIs
<1>3. \A f : <<a[r].kind, f>> \in Sparing <=> f \in {}
  BY SparingIs
<1>4. Works(a[r]) <=> a[r].state # "active"
  BY <1>1, <1>2, <1>3 DEF Works
<1>5. \A x : <<x, "balancer">> \in UserOf <=> x \in {}
  BY UserOfIs
<1>6. \A x : <<x, "balancer">> \in SourceOf <=> x \in {}
  BY SourceOfIs
<1> QED  BY <1>4, <1>5, <1>6 DEF Keeps, AttachedKinds

LEMMA ClassicKept ==
  ASSUME NEW a, NEW u, NEW r, a[r].kind = "classic"
  PROVE  Keeps(a, u, r) <=>
       \/ u \in a[r].refs
<1>1. (\E y \in AtRest : y[1] = a[r].kind) <=> FALSE
  BY StatesTell
<1>3. \A f : <<a[r].kind, f>> \in Sparing <=> f \in {}
  BY SparingIs
<1>4. Works(a[r]) <=> FALSE
  BY <1>1, <1>3 DEF Works
<1>5. \A x : <<x, "classic">> \in UserOf <=> x \in {}
  BY UserOfIs
<1>6. \A x : <<x, "classic">> \in SourceOf <=> x \in {}
  BY SourceOfIs
<1> QED  BY <1>4, <1>5, <1>6 DEF Keeps, AttachedKinds

LEMMA DatabaseKept ==
  ASSUME NEW a, NEW u, NEW r, a[r].kind = "database"
  PROVE  Keeps(a, u, r) <=>
       \/ u = r /\ a[r].state # "stopped"
       \/ u = r /\ "no-storage" \in a[r].is
<1>1. (\E y \in AtRest : y[1] = a[r].kind) <=> TRUE
  BY StatesTell
<1>2. <<a[r].kind, a[r].state>> \in AtRest <=> a[r].state = "stopped"
  BY AtRestIs
<1>3. \A f : <<a[r].kind, f>> \in Sparing <=> f \in {"no-storage"}
  BY SparingIs
<1>4. Works(a[r]) <=>
         \/ a[r].state # "stopped"
         \/ "no-storage" \in a[r].is
  BY <1>1, <1>2, <1>3 DEF Works
<1>5. \A x : <<x, "database">> \in UserOf <=> x \in {}
  BY UserOfIs
<1>6. \A x : <<x, "database">> \in SourceOf <=> x \in {}
  BY SourceOfIs
<1> QED  BY <1>4, <1>5, <1>6 DEF Keeps, AttachedKinds

LEMMA DbSnapshotKept ==
  ASSUME NEW a, NEW u, NEW r, a[r].kind = "db-snapshot"
  PROVE  Keeps(a, u, r) <=>
       \/ u = r /\ a[r].state # "available"
       \/ u = r /\ "auto" \in a[r].is
       \/ u = r /\ a[r].refs = {}
       \/ u \in a[r].refs /\ a[u].kind = "database"
<1>1. (\E y \in AtRest : y[1] = a[r].kind) <=> TRUE
  BY StatesTell
<1>2. <<a[r].kind, a[r].state>> \in AtRest <=> a[r].state = "available"
  BY AtRestIs
<1>3. \A f : <<a[r].kind, f>> \in Sparing <=> f \in {"auto"}
  BY SparingIs
<1>4. Works(a[r]) <=>
         \/ a[r].state # "available"
         \/ "auto" \in a[r].is
         \/ a[r].refs = {}
  BY <1>1, <1>2, <1>3 DEF Works
<1>5. \A x : <<x, "db-snapshot">> \in UserOf <=> x \in {}
  BY UserOfIs
<1>6. \A x : <<x, "db-snapshot">> \in SourceOf <=> x \in {"database"}
  BY SourceOfIs
<1> QED  BY <1>4, <1>5, <1>6 DEF Keeps, AttachedKinds

LEMMA TableKept ==
  ASSUME NEW a, NEW u, NEW r, a[r].kind = "table"
  PROVE  Keeps(a, u, r) <=>
       \/ u = r /\ a[r].state # "ACTIVE"
       \/ u = r /\ "items" \in a[r].is
       \/ u = r /\ "on-demand" \in a[r].is
       \/ u = r /\ "no-capacity" \in a[r].is
<1>1. (\E y \in AtRest : y[1] = a[r].kind) <=> TRUE
  BY StatesTell
<1>2. <<a[r].kind, a[r].state>> \in AtRest <=> a[r].state = "ACTIVE"
  BY AtRestIs
<1>3. \A f : <<a[r].kind, f>> \in Sparing <=> f \in {"items", "on-demand", "no-capacity"}
  BY SparingIs
<1>4. Works(a[r]) <=>
         \/ a[r].state # "ACTIVE"
         \/ "items" \in a[r].is
         \/ "on-demand" \in a[r].is
         \/ "no-capacity" \in a[r].is
  BY <1>1, <1>2, <1>3 DEF Works
<1>5. \A x : <<x, "table">> \in UserOf <=> x \in {}
  BY UserOfIs
<1>6. \A x : <<x, "table">> \in SourceOf <=> x \in {}
  BY SourceOfIs
<1> QED  BY <1>4, <1>5, <1>6 DEF Keeps, AttachedKinds

LEMMA LogGroupKept ==
  ASSUME NEW a, NEW u, NEW r, a[r].kind = "log-group"
  PROVE  Keeps(a, u, r) <=>
       \/ u = r /\ "retention" \in a[r].is
       \/ u = r /\ "no-bytes" \in a[r].is
<1>1. (\E y \in AtRest : y[1] = a[r].kind) <=> FALSE
  BY StatesTell
<1>3. \A f : <<a[r].kind, f>> \in Sparing <=> f \in {"retention", "no-bytes"}
  BY SparingIs
<1>4. Works(a[r]) <=>
         \/ "retention" \in a[r].is
         \/ "no-bytes" \in a[r].is
  BY <1>1, <1>3 DEF Works
<1>5. \A x : <<x, "log-group">> \in UserOf <=> x \in {}
  BY UserOfIs
<1>6. \A x : <<x, "log-group">> \in SourceOf <=> x \in {}
  BY SourceOfIs
<1> QED  BY <1>4, <1>5, <1>6 DEF Keeps, AttachedKinds

LEMMA KeyKept ==
  ASSUME NEW a, NEW u, NEW r, a[r].kind = "key"
  PROVE  Keeps(a, u, r) <=>
       \/ u = r /\ a[r].state # "Disabled"
       \/ u = r /\ "aws-managed" \in a[r].is
<1>1. (\E y \in AtRest : y[1] = a[r].kind) <=> TRUE
  BY StatesTell
<1>2. <<a[r].kind, a[r].state>> \in AtRest <=> a[r].state = "Disabled"
  BY AtRestIs
<1>3. \A f : <<a[r].kind, f>> \in Sparing <=> f \in {"aws-managed"}
  BY SparingIs
<1>4. Works(a[r]) <=>
         \/ a[r].state # "Disabled"
         \/ "aws-managed" \in a[r].is
  BY <1>1, <1>2, <1>3 DEF Works
<1>5. \A x : <<x, "key">> \in UserOf <=> x \in {}
  BY UserOfIs
<1>6. \A x : <<x, "key">> \in SourceOf <=> x \in {}
  BY SourceOfIs
<1> QED  BY <1>4, <1>5, <1>6 DEF Keeps, AttachedKinds

LEMMA SecretKept ==
  ASSUME NEW a, NEW u, NEW r, a[r].kind = "secret"
  PROVE  Keeps(a, u, r) <=>
       \/ u = r /\ "deleted" \in a[r].is
       \/ u = r /\ (IF "never-read" \in a[r].is THEN "written" ELSE "read") \in a[r].is
<1>1. (\E y \in AtRest : y[1] = a[r].kind) <=> FALSE
  BY StatesTell
<1>3. \A f : <<a[r].kind, f>> \in Sparing <=> f \in {"deleted"}
  BY SparingIs
<1>4. Works(a[r]) <=>
         \/ "deleted" \in a[r].is
         \/ (IF "never-read" \in a[r].is THEN "written" ELSE "read") \in a[r].is
  BY <1>1, <1>3 DEF Works
<1>5. \A x : <<x, "secret">> \in UserOf <=> x \in {}
  BY UserOfIs
<1>6. \A x : <<x, "secret">> \in SourceOf <=> x \in {}
  BY SourceOfIs
<1> QED  BY <1>4, <1>5, <1>6 DEF Keeps, AttachedKinds

LEMMA HealthCheckKept ==
  ASSUME NEW a, NEW u, NEW r, a[r].kind = "health-check"
  PROVE  Keeps(a, u, r) <=>
       \/ r \in a[u].refs /\ a[u].kind = "zone"
<1>1. (\E y \in AtRest : y[1] = a[r].kind) <=> FALSE
  BY StatesTell
<1>3. \A f : <<a[r].kind, f>> \in Sparing <=> f \in {}
  BY SparingIs
<1>4. Works(a[r]) <=> FALSE
  BY <1>1, <1>3 DEF Works
<1>5. \A x : <<x, "health-check">> \in UserOf <=> x \in {"zone"}
  BY UserOfIs
<1>6. \A x : <<x, "health-check">> \in SourceOf <=> x \in {}
  BY SourceOfIs
<1> QED  BY <1>4, <1>5, <1>6 DEF Keeps, AttachedKinds

LEMMA ZoneKept ==
  ASSUME NEW a, NEW u, NEW r, a[r].kind = "zone"
  PROVE  Keeps(a, u, r) <=>
       \/ u = r /\ "records" \in a[r].is
<1>1. (\E y \in AtRest : y[1] = a[r].kind) <=> FALSE
  BY StatesTell
<1>3. \A f : <<a[r].kind, f>> \in Sparing <=> f \in {"records"}
  BY SparingIs
<1>4. Works(a[r]) <=> "records" \in a[r].is
  BY <1>1, <1>3 DEF Works
<1>5. \A x : <<x, "zone">> \in UserOf <=> x \in {}
  BY UserOfIs
<1>6. \A x : <<x, "zone">> \in SourceOf <=> x \in {}
  BY SourceOfIs
<1> QED  BY <1>4, <1>5, <1>6 DEF Keeps, AttachedKinds

LEMMA LightsailInstanceKept ==
  ASSUME NEW a, NEW u, NEW r, a[r].kind = "ls-instance"
  PROVE  Keeps(a, u, r) <=>
       \/ u = r /\ a[r].state # "stopped"
       \/ u = r /\ "unnamed" \in a[r].is
<1>1. (\E y \in AtRest : y[1] = a[r].kind) <=> TRUE
  BY StatesTell
<1>2. <<a[r].kind, a[r].state>> \in AtRest <=> a[r].state = "stopped"
  BY AtRestIs
<1>3. \A f : <<a[r].kind, f>> \in Sparing <=> f \in {"unnamed"}
  BY SparingIs
<1>4. Works(a[r]) <=>
         \/ a[r].state # "stopped"
         \/ "unnamed" \in a[r].is
  BY <1>1, <1>2, <1>3 DEF Works
<1>5. \A x : <<x, "ls-instance">> \in UserOf <=> x \in {}
  BY UserOfIs
<1>6. \A x : <<x, "ls-instance">> \in SourceOf <=> x \in {}
  BY SourceOfIs
<1> QED  BY <1>4, <1>5, <1>6 DEF Keeps, AttachedKinds

LEMMA LightsailDiskKept ==
  ASSUME NEW a, NEW u, NEW r, a[r].kind = "ls-disk"
  PROVE  Keeps(a, u, r) <=>
       \/ u = r /\ "system" \in a[r].is
       \/ u = r /\ "unnamed" \in a[r].is
       \/ u \in a[r].refs
<1>1. (\E y \in AtRest : y[1] = a[r].kind) <=> FALSE
  BY StatesTell
<1>3. \A f : <<a[r].kind, f>> \in Sparing <=> f \in {"system", "unnamed"}
  BY SparingIs
<1>4. Works(a[r]) <=>
         \/ "system" \in a[r].is
         \/ "unnamed" \in a[r].is
  BY <1>1, <1>3 DEF Works
<1>5. \A x : <<x, "ls-disk">> \in UserOf <=> x \in {}
  BY UserOfIs
<1>6. \A x : <<x, "ls-disk">> \in SourceOf <=> x \in {}
  BY SourceOfIs
<1> QED  BY <1>4, <1>5, <1>6 DEF Keeps, AttachedKinds

LEMMA LightsailIpKept ==
  ASSUME NEW a, NEW u, NEW r, a[r].kind = "ls-ip"
  PROVE  Keeps(a, u, r) <=>
       \/ u = r /\ "unnamed" \in a[r].is
       \/ u \in a[r].refs
<1>1. (\E y \in AtRest : y[1] = a[r].kind) <=> FALSE
  BY StatesTell
<1>3. \A f : <<a[r].kind, f>> \in Sparing <=> f \in {"unnamed"}
  BY SparingIs
<1>4. Works(a[r]) <=> "unnamed" \in a[r].is
  BY <1>1, <1>3 DEF Works
<1>5. \A x : <<x, "ls-ip">> \in UserOf <=> x \in {}
  BY UserOfIs
<1>6. \A x : <<x, "ls-ip">> \in SourceOf <=> x \in {}
  BY SourceOfIs
<1> QED  BY <1>4, <1>5, <1>6 DEF Keeps, AttachedKinds

LEMMA LightsailBalancerKept ==
  ASSUME NEW a, NEW u, NEW r, a[r].kind = "ls-balancer"
  PROVE  Keeps(a, u, r) <=>
       \/ u = r /\ "unnamed" \in a[r].is
       \/ u \in a[r].refs
<1>1. (\E y \in AtRest : y[1] = a[r].kind) <=> FALSE
  BY StatesTell
<1>3. \A f : <<a[r].kind, f>> \in Sparing <=> f \in {"unnamed"}
  BY SparingIs
<1>4. Works(a[r]) <=> "unnamed" \in a[r].is
  BY <1>1, <1>3 DEF Works
<1>5. \A x : <<x, "ls-balancer">> \in UserOf <=> x \in {}
  BY UserOfIs
<1>6. \A x : <<x, "ls-balancer">> \in SourceOf <=> x \in {}
  BY SourceOfIs
<1> QED  BY <1>4, <1>5, <1>6 DEF Keeps, AttachedKinds

LEMMA LightsailServiceKept ==
  ASSUME NEW a, NEW u, NEW r, a[r].kind = "ls-service"
  PROVE  Keeps(a, u, r) <=>
       \/ u = r /\ "unnamed" \in a[r].is
       \/ u = r /\ "deployed" \in a[r].is
<1>1. (\E y \in AtRest : y[1] = a[r].kind) <=> FALSE
  BY StatesTell
<1>3. \A f : <<a[r].kind, f>> \in Sparing <=> f \in {"unnamed", "deployed"}
  BY SparingIs
<1>4. Works(a[r]) <=>
         \/ "unnamed" \in a[r].is
         \/ "deployed" \in a[r].is
  BY <1>1, <1>3 DEF Works
<1>5. \A x : <<x, "ls-service">> \in UserOf <=> x \in {}
  BY UserOfIs
<1>6. \A x : <<x, "ls-service">> \in SourceOf <=> x \in {}
  BY SourceOfIs
<1> QED  BY <1>4, <1>5, <1>6 DEF Keeps, AttachedKinds

LEMMA LightsailInstanceSnapshotKept ==
  ASSUME NEW a, NEW u, NEW r, a[r].kind = "ls-instance-snapshot"
  PROVE  Keeps(a, u, r) <=>
       \/ u = r /\ "auto" \in a[r].is
       \/ u = r /\ "unnamed" \in a[r].is
       \/ u \in a[r].refs /\ a[u].kind \in {"ls-instance", "ls-disk"}
<1>1. (\E y \in AtRest : y[1] = a[r].kind) <=> FALSE
  BY StatesTell
<1>3. \A f : <<a[r].kind, f>> \in Sparing <=> f \in {"auto", "unnamed"}
  BY SparingIs
<1>4. Works(a[r]) <=>
         \/ "auto" \in a[r].is
         \/ "unnamed" \in a[r].is
  BY <1>1, <1>3 DEF Works
<1>5. \A x : <<x, "ls-instance-snapshot">> \in UserOf <=> x \in {}
  BY UserOfIs
<1>6. \A x : <<x, "ls-instance-snapshot">> \in SourceOf <=> x \in {"ls-instance", "ls-disk"}
  BY SourceOfIs
<1> QED  BY <1>4, <1>5, <1>6 DEF Keeps, AttachedKinds

LEMMA LightsailDiskSnapshotKept ==
  ASSUME NEW a, NEW u, NEW r, a[r].kind = "ls-disk-snapshot"
  PROVE  Keeps(a, u, r) <=>
       \/ u = r /\ "auto" \in a[r].is
       \/ u = r /\ "unnamed" \in a[r].is
       \/ u \in a[r].refs /\ a[u].kind \in {"ls-instance", "ls-disk"}
<1>1. (\E y \in AtRest : y[1] = a[r].kind) <=> FALSE
  BY StatesTell
<1>3. \A f : <<a[r].kind, f>> \in Sparing <=> f \in {"auto", "unnamed"}
  BY SparingIs
<1>4. Works(a[r]) <=>
         \/ "auto" \in a[r].is
         \/ "unnamed" \in a[r].is
  BY <1>1, <1>3 DEF Works
<1>5. \A x : <<x, "ls-disk-snapshot">> \in UserOf <=> x \in {}
  BY UserOfIs
<1>6. \A x : <<x, "ls-disk-snapshot">> \in SourceOf <=> x \in {"ls-instance", "ls-disk"}
  BY SourceOfIs
<1> QED  BY <1>4, <1>5, <1>6 DEF Keeps, AttachedKinds

(*****************************************************************************)
(* Readings of an account that changes meanwhile, and when the findings made *)
(* of one are right.                                                         *)
(*****************************************************************************)
\* What is reported under the name of c is waste, and all of it.
Reports(c, finds, waste) ==
  /\ \A f \in finds : f.check = c /\ f.id \in waste
  /\ \A r \in waste : \E f \in finds : f.id = r

\* D are the accounts there were while the check ran, s what it has read:
\* each resource as it was in one of them.
Witnessed(D, s) ==
  /\ \A a \in D : Sound(a)
  /\ \A a, b \in D : SameThings(a, b)
  /\ \A x \in DOMAIN s : \E b \in D : x \in DOMAIN b /\ s[x] = b[x]
\* The resources of the kind there were at one moment were read, then or later.
AllOf(D, s, kind) == \E a \in D : Of(a, kind) \subseteq DOMAIN s
\* They were read at one and the same moment.
AllAtOnce(D, s, kind) == \E a \in D : \A x \in Of(a, kind) : x \in DOMAIN s /\ s[x] = a[x]

\* u has used r all along; nothing has used r, which is of the kind.
InUse(D, u, r) == \A a \in D : {r, u} \subseteq DOMAIN a /\ Keeps(a, u, r)
Unused(D, r, kind) == (\A a \in D : Idle(a, r)) /\ \E a \in D : a[r].kind = kind

\* What SteadyUseIsSeen and SteadyWasteIsFound ask of the findings of c.
Right(D, c, finds) ==
  /\ \A f \in finds : f.check = c /\ \A u : ~ InUse(D, u, f.id)
  /\ \A kind, r : <<c, kind>> \in Judged /\ Unused(D, r, kind) => \E f \in finds : f.id = r

Fixed == CopyKinds \cup {"nat", "endpoint", "upload"}

\* A resource is of the same kind at every moment it is there.
LEMMA KindStays ==
  ASSUME NEW D, NEW s, Witnessed(D, s), NEW a \in D, NEW b \in D,
         NEW x, x \in DOMAIN a, x \in DOMAIN b
  PROVE  /\ a[x].kind = b[x].kind
         /\ a[x].kind \in Fixed => a[x].refs = b[x].refs
BY DEF Witnessed, SameThings, SameThing, Fixed

LEMMA AttachedIsThere ==
  ASSUME NEW D, NEW s, Witnessed(D, s)
  PROVE  \A b \in D : \A r \in DOMAIN b :
           b[r].kind \in AttachedKinds => b[r].refs \subseteq DOMAIN b
BY DEF Witnessed, Sound, Holding, AttachedKinds

LEMMA WasSeen ==
  ASSUME NEW D, NEW s, Witnessed(D, s), NEW x \in DOMAIN s
  PROVE  \E b \in D : x \in DOMAIN b /\ s[x] = b[x]
BY DEF Witnessed

\* What was there all along was read, if its kind was listed.
LEMMA IsSeen ==
  ASSUME NEW D, NEW s, Witnessed(D, s), NEW kind, AllOf(D, s, kind),
         NEW x, \A a \in D : x \in DOMAIN a, \E a \in D : a[x].kind = kind
  PROVE  /\ x \in DOMAIN s /\ s[x].kind = kind
         /\ \E b \in D : s[x] = b[x]
<1>1. PICK a \in D : Of(a, kind) \subseteq DOMAIN s
  BY DEF AllOf
<1>2. PICK c \in D : c[x].kind = kind
  OBVIOUS
<1>3. x \in Of(a, kind)
  BY <1>2, KindStays DEF Of
<1>4. x \in DOMAIN s
  BY <1>1, <1>3
<1>5. PICK b \in D : x \in DOMAIN b /\ s[x] = b[x]
  BY <1>4 DEF Witnessed
<1> QED  BY <1>2, <1>4, <1>5, KindStays

\* One user of r, if its kind was listed, was read, at a moment when it was
\* using r.
LEMMA UserIsSeen ==
  ASSUME NEW D, NEW s, Witnessed(D, s), NEW kind, AllOf(D, s, kind),
         NEW r \in DOMAIN s, NEW u, InUse(D, u, r), \E a \in D : a[u].kind = kind
  PROVE  /\ u \in DOMAIN s /\ s[u].kind = kind
         /\ \E c \in D :
              /\ u \in DOMAIN c /\ r \in DOMAIN c /\ s[u] = c[u] /\ Keeps(c, u, r)
              /\ c[r].kind = s[r].kind
              /\ s[r].kind \in Fixed => c[r].refs = s[r].refs
<1>1. u \in DOMAIN s /\ s[u].kind = kind
  BY IsSeen DEF InUse
<1>2. PICK c \in D : u \in DOMAIN c /\ s[u] = c[u]
  BY <1>1, WasSeen
<1>3. PICK b \in D : r \in DOMAIN b /\ s[r] = b[r]
  BY WasSeen
<1>4. r \in DOMAIN c /\ Keeps(c, u, r)
  BY <1>2 DEF InUse
<1>5. c[r].kind = b[r].kind /\ (b[r].kind \in Fixed => c[r].refs = b[r].refs)
  BY <1>3, <1>4, KindStays
<1> QED  BY <1>1, <1>2, <1>3, <1>4, <1>5

\* Whatever was read was read at a moment when it did not use r.
LEMMA NoUserSeen ==
  ASSUME NEW D, NEW s, Witnessed(D, s), NEW r \in DOMAIN s, \A a \in D : Idle(a, r),
         NEW x \in DOMAIN s
  PROVE  \E c \in D :
           /\ x \in DOMAIN c /\ r \in DOMAIN c /\ s[x] = c[x] /\ ~ Keeps(c, x, r)
           /\ c[r].kind = s[r].kind
           /\ s[r].kind \in Fixed => c[r].refs = s[r].refs
<1>1. PICK c \in D : x \in DOMAIN c /\ s[x] = c[x]
  BY WasSeen
<1>2. PICK b \in D : r \in DOMAIN b /\ s[r] = b[r]
  BY WasSeen
<1>3. r \in DOMAIN c /\ ~ Keeps(c, x, r)
  BY <1>1 DEF Idle, Users
<1>4. c[r].kind = b[r].kind /\ (b[r].kind \in Fixed => c[r].refs = b[r].refs)
  BY <1>2, <1>3, KindStays
<1> QED  BY <1>1, <1>2, <1>3, <1>4

\* The ways findings are built from what is waste.
LEMMA PricedReports ==
  ASSUME NEW c, NEW W PROVE Reports(c, Priced(c, W), W)
<1>1. ASSUME NEW f \in Priced(c, W) PROVE f.check = c /\ f.id \in W
  <2>1. PICK r \in W : f = Finding(c, r, {r}, FALSE)
    BY DEF Priced
  <2> QED  BY <2>1 DEF Finding
<1>2. ASSUME NEW r \in W PROVE \E f \in Priced(c, W) : f.id = r
  <2>1. Finding(c, r, {r}, FALSE) \in Priced(c, W)
    BY DEF Priced
  <2> QED  BY <2>1 DEF Finding
<1> QED  BY <1>1, <1>2 DEF Reports

LEMMA EstimatedReports ==
  ASSUME NEW c, NEW W PROVE Reports(c, Estimated(c, W), W)
<1>1. ASSUME NEW f \in Estimated(c, W) PROVE f.check = c /\ f.id \in W
  <2>1. PICK r \in W : f = Finding(c, r, {r}, TRUE)
    BY DEF Estimated
  <2> QED  BY <2>1 DEF Finding
<1>2. ASSUME NEW r \in W PROVE \E f \in Estimated(c, W) : f.id = r
  <2>1. Finding(c, r, {r}, TRUE) \in Estimated(c, W)
    BY DEF Estimated
  <2> QED  BY <2>1 DEF Finding
<1> QED  BY <1>1, <1>2 DEF Reports

LEMMA FreeReports ==
  ASSUME NEW c, NEW W PROVE Reports(c, Free(c, W), W)
<1>1. ASSUME NEW f \in Free(c, W) PROVE f.check = c /\ f.id \in W
  <2>1. PICK r \in W : f = Finding(c, r, {}, FALSE)
    BY DEF Free
  <2> QED  BY <2>1 DEF Finding
<1>2. ASSUME NEW r \in W PROVE \E f \in Free(c, W) : f.id = r
  <2>1. Finding(c, r, {}, FALSE) \in Free(c, W)
    BY DEF Free
  <2> QED  BY <2>1 DEF Finding
<1> QED  BY <1>1, <1>2 DEF Reports

LEMMA BilledReports ==
  ASSUME NEW c, NEW W, NEW finds,
         \A f \in finds : \E r \in W : \E bills : f = Finding(c, r, bills, FALSE),
         \A r \in W : \E bills : Finding(c, r, bills, FALSE) \in finds
  PROVE  Reports(c, finds, W)
<1>1. ASSUME NEW f \in finds PROVE f.check = c /\ f.id \in W
  <2>1. PICK r \in W : \E bills : f = Finding(c, r, bills, FALSE)
    OBVIOUS
  <2>2. PICK bills : f = Finding(c, r, bills, FALSE)
    BY <2>1
  <2> QED  BY <2>2 DEF Finding
<1>2. ASSUME NEW r \in W PROVE \E f \in finds : f.id = r
  <2>1. PICK bills : Finding(c, r, bills, FALSE) \in finds
    OBVIOUS
  <2> QED  BY <2>1 DEF Finding
<1> QED  BY <1>1, <1>2 DEF Reports

LEMMA RightlyJudged ==
  ASSUME NEW D, NEW c, NEW finds, NEW waste, Reports(c, finds, waste),
         \A r \in waste : \A u : ~ InUse(D, u, r),
         \A kind, r : <<c, kind>> \in Judged /\ Unused(D, r, kind) => r \in waste
  PROVE  Right(D, c, finds)
BY DEF Reports, Right

\* Of a check that lists one kind of resource and looks at each by itself it
\* is enough that it judges rightly at the moment it looks.
LEMMA RightAtOnce ==
  ASSUME NEW D, NEW s, Witnessed(D, s), NEW kind, AllOf(D, s, kind),
         NEW c, \A k : <<c, k>> \in Judged => k = kind,
         NEW finds, NEW waste, Reports(c, finds, waste),
         \A r \in waste : r \in DOMAIN s /\ s[r].kind = kind,
         \A b \in D : \A r \in waste : \A u :
           r \in DOMAIN b /\ s[r] = b[r] => ~ Keeps(b, u, r),
         \A b \in D : \A r \in DOMAIN s :
           s[r] = b[r] /\ s[r].kind = kind /\ Idle(b, r) => r \in waste
  PROVE  Right(D, c, finds)
<1>1. ASSUME NEW r \in waste, NEW u, InUse(D, u, r) PROVE FALSE
  <2>1. PICK b \in D : r \in DOMAIN b /\ s[r] = b[r]
    BY WasSeen
  <2> QED  BY <1>1, <2>1 DEF InUse
<1>2. ASSUME NEW r, Unused(D, r, kind) PROVE r \in waste
  <2>1. r \in DOMAIN s /\ s[r].kind = kind /\ \E b \in D : s[r] = b[r]
    BY <1>2, IsSeen DEF Unused, Idle
  <2> QED  BY <1>2, <2>1 DEF Unused
<1> QED  BY <1>1, <1>2, RightlyJudged

(*****************************************************************************)
(* Checks that list one kind and look at each resource by itself.            *)
(*****************************************************************************)
LEMMA UnattachedEbs ==
  ASSUME NEW D, NEW s, Witnessed(D, s), AllOf(D, s, "volume")
  PROVE  Right(D, "unattached-ebs", unattached_ebs(s).finds)
<1> DEFINE W == In(s, "volume", "available")
<1>1. Reports("unattached-ebs", unattached_ebs(s).finds, W)
  BY PricedReports DEF unattached_ebs
<1>2. \A r \in W : r \in DOMAIN s /\ s[r].kind = "volume"
  BY DEF In, Of, Unless
<1>3. \A b \in D : \A r \in W : \A u :
        r \in DOMAIN b /\ s[r] = b[r] => ~ Keeps(b, u, r)
  BY VolumeKept DEF In, Of, Unless, Witnessed, Sound
<1>4. \A b \in D : \A r \in DOMAIN s :
        s[r] = b[r] /\ s[r].kind = "volume" /\ Idle(b, r) => r \in W
  BY VolumeKept DEF In, Of, Unless, Idle, Users
<1>5. \A k : <<"unattached-ebs", k>> \in Judged => k = "volume"
  BY DEF Judged
<1> HIDE DEF W
<1> QED  BY <1>1, <1>2, <1>3, <1>4, <1>5, RightAtOnce

LEMMA UnmountedEfs ==
  ASSUME NEW D, NEW s, Witnessed(D, s), AllOf(D, s, "file-system")
  PROVE  Right(D, "unmounted-efs", unmounted_efs(s).finds)
<1> DEFINE W == Unless(s, In(s, "file-system", "available"), {"mounted"})
<1>1. Reports("unmounted-efs", unmounted_efs(s).finds, W)
  BY PricedReports DEF unmounted_efs
<1>2. \A r \in W : r \in DOMAIN s /\ s[r].kind = "file-system"
  BY DEF In, Of, Unless
<1>3. \A b \in D : \A r \in W : \A u :
        r \in DOMAIN b /\ s[r] = b[r] => ~ Keeps(b, u, r)
  BY FileSystemKept DEF In, Of, Unless
<1>4. \A b \in D : \A r \in DOMAIN s :
        s[r] = b[r] /\ s[r].kind = "file-system" /\ Idle(b, r) => r \in W
  BY FileSystemKept DEF In, Of, Unless, Idle, Users
<1>5. \A k : <<"unmounted-efs", k>> \in Judged => k = "file-system"
  BY DEF Judged
<1> HIDE DEF W
<1> QED  BY <1>1, <1>2, <1>3, <1>4, <1>5, RightAtOnce

LEMMA EcrStaleImages ==
  ASSUME NEW D, NEW s, Witnessed(D, s), AllOf(D, s, "repository")
  PROVE  Right(D, "ecr-stale-images", ecr_stale_images(s).finds)
<1> DEFINE W == Unless(s, Of(s, "repository"), {"unnamed", "no-images", "undated", "pushed"})
<1>1. Reports("ecr-stale-images", ecr_stale_images(s).finds, W)
  BY EstimatedReports DEF ecr_stale_images
<1>2. \A r \in W : r \in DOMAIN s /\ s[r].kind = "repository"
  BY DEF In, Of, Unless
<1>3. \A b \in D : \A r \in W : \A u :
        r \in DOMAIN b /\ s[r] = b[r] => ~ Keeps(b, u, r)
  BY RepositoryKept DEF In, Of, Unless
<1>4. \A b \in D : \A r \in DOMAIN s :
        s[r] = b[r] /\ s[r].kind = "repository" /\ Idle(b, r) => r \in W
  BY RepositoryKept DEF In, Of, Unless, Idle, Users
<1>5. \A k : <<"ecr-stale-images", k>> \in Judged => k = "repository"
  BY DEF Judged
<1> HIDE DEF W
<1> QED  BY <1>1, <1>2, <1>3, <1>4, <1>5, RightAtOnce

LEMMA UnassociatedEip ==
  ASSUME NEW D, NEW s, Witnessed(D, s), AllOf(D, s, "address")
  PROVE  Right(D, "unassociated-eip", unassociated_eip(s).finds)
<1> DEFINE W == {e \in Of(s, "address") : s[e].refs = {}}
<1>1. Reports("unassociated-eip", unassociated_eip(s).finds, W)
  BY PricedReports DEF unassociated_eip
<1>2. \A r \in W : r \in DOMAIN s /\ s[r].kind = "address"
  BY DEF In, Of, Unless
<1>3. \A b \in D : \A r \in W : \A u :
        r \in DOMAIN b /\ s[r] = b[r] => ~ Keeps(b, u, r)
  BY AddressKept DEF In, Of, Unless
<1>4. \A b \in D : \A r \in DOMAIN s :
        s[r] = b[r] /\ s[r].kind = "address" /\ Idle(b, r) => r \in W
  BY AddressKept, AttachedIsThere DEF In, Of, Unless, Idle, Users, AttachedKinds
<1>5. \A k : <<"unassociated-eip", k>> \in Judged => k = "address"
  BY DEF Judged
<1> HIDE DEF W
<1> QED  BY <1>1, <1>2, <1>3, <1>4, <1>5, RightAtOnce

LEMMA AvailableEni ==
  ASSUME NEW D, NEW s, Witnessed(D, s), AllOf(D, s, "interface")
  PROVE  Right(D, "available-eni", available_eni(s).finds)
<1> DEFINE W == In(s, "interface", "available")
<1>1. Reports("available-eni", available_eni(s).finds, W)
  BY FreeReports DEF available_eni, simple_check
<1>2. \A r \in W : r \in DOMAIN s /\ s[r].kind = "interface"
  BY DEF In, Of, Unless
<1>3. \A b \in D : \A r \in W : \A u :
        r \in DOMAIN b /\ s[r] = b[r] => ~ Keeps(b, u, r)
  BY InterfaceKept DEF In, Of, Unless
<1>4. \A b \in D : \A r \in DOMAIN s :
        s[r] = b[r] /\ s[r].kind = "interface" /\ Idle(b, r) => r \in W
  BY InterfaceKept DEF In, Of, Unless, Idle, Users
<1>5. \A k : <<"available-eni", k>> \in Judged => k = "interface"
  BY DEF Judged
<1> HIDE DEF W
<1> QED  BY <1>1, <1>2, <1>3, <1>4, <1>5, RightAtOnce

LEMMA DetachedInternetGateway ==
  ASSUME NEW D, NEW s, Witnessed(D, s), AllOf(D, s, "gateway")
  PROVE  Right(D, "detached-internet-gateway", detached_internet_gateway(s).finds)
<1> DEFINE W == {g \in Of(s, "gateway") : s[g].refs = {}}
<1>1. Reports("detached-internet-gateway", detached_internet_gateway(s).finds, W)
  BY FreeReports DEF detached_internet_gateway, simple_check
<1>2. \A r \in W : r \in DOMAIN s /\ s[r].kind = "gateway"
  BY DEF In, Of, Unless
<1>3. \A b \in D : \A r \in W : \A u :
        r \in DOMAIN b /\ s[r] = b[r] => ~ Keeps(b, u, r)
  BY GatewayKept DEF In, Of, Unless
<1>4. \A b \in D : \A r \in DOMAIN s :
        s[r] = b[r] /\ s[r].kind = "gateway" /\ Idle(b, r) => r \in W
  BY GatewayKept, AttachedIsThere DEF In, Of, Unless, Idle, Users, AttachedKinds
<1>5. \A k : <<"detached-internet-gateway", k>> \in Judged => k = "gateway"
  BY DEF Judged
<1> HIDE DEF W
<1> QED  BY <1>1, <1>2, <1>3, <1>4, <1>5, RightAtOnce

LEMMA ClassicLoadBalancer ==
  ASSUME NEW D, NEW s, Witnessed(D, s), AllOf(D, s, "classic")
  PROVE  Right(D, "empty-classic-lb", classic_load_balancer(s).finds)
<1> DEFINE W == {b \in Of(s, "classic") : s[b].refs = {}}
<1>1. Reports("empty-classic-lb", classic_load_balancer(s).finds, W)
  BY PricedReports DEF classic_load_balancer
<1>2. \A r \in W : r \in DOMAIN s /\ s[r].kind = "classic"
  BY DEF In, Of, Unless
<1>3. \A b \in D : \A r \in W : \A u :
        r \in DOMAIN b /\ s[r] = b[r] => ~ Keeps(b, u, r)
  BY ClassicKept DEF In, Of, Unless
<1>4. \A b \in D : \A r \in DOMAIN s :
        s[r] = b[r] /\ s[r].kind = "classic" /\ Idle(b, r) => r \in W
  BY ClassicKept, AttachedIsThere DEF In, Of, Unless, Idle, Users, AttachedKinds
<1>5. \A k : <<"empty-classic-lb", k>> \in Judged => k = "classic"
  BY DEF Judged
<1> HIDE DEF W
<1> QED  BY <1>1, <1>2, <1>3, <1>4, <1>5, RightAtOnce

LEMMA StoppedRdsInstance ==
  ASSUME NEW D, NEW s, Witnessed(D, s), AllOf(D, s, "database")
  PROVE  Right(D, "stopped-rds-instance", stopped_rds_instance(s).finds)
<1> DEFINE W == Unless(s, In(s, "database", "stopped"), {"no-storage"})
<1>1. Reports("stopped-rds-instance", stopped_rds_instance(s).finds, W)
  BY PricedReports DEF stopped_rds_instance
<1>2. \A r \in W : r \in DOMAIN s /\ s[r].kind = "database"
  BY DEF In, Of, Unless
<1>3. \A b \in D : \A r \in W : \A u :
        r \in DOMAIN b /\ s[r] = b[r] => ~ Keeps(b, u, r)
  BY DatabaseKept DEF In, Of, Unless
<1>4. \A b \in D : \A r \in DOMAIN s :
        s[r] = b[r] /\ s[r].kind = "database" /\ Idle(b, r) => r \in W
  BY DatabaseKept DEF In, Of, Unless, Idle, Users
<1>5. \A k : <<"stopped-rds-instance", k>> \in Judged => k = "database"
  BY DEF Judged
<1> HIDE DEF W
<1> QED  BY <1>1, <1>2, <1>3, <1>4, <1>5, RightAtOnce

LEMMA IdleProvisionedDynamodb ==
  ASSUME NEW D, NEW s, Witnessed(D, s), AllOf(D, s, "table")
  PROVE  Right(D, "idle-provisioned-dynamodb", idle_provisioned_dynamodb(s).finds)
<1> DEFINE W == Unless(s, In(s, "table", "ACTIVE"), {"on-demand", "items", "no-capacity"})
<1>1. Reports("idle-provisioned-dynamodb", idle_provisioned_dynamodb(s).finds, W)
  BY PricedReports DEF idle_provisioned_dynamodb
<1>2. \A r \in W : r \in DOMAIN s /\ s[r].kind = "table"
  BY DEF In, Of, Unless
<1>3. \A b \in D : \A r \in W : \A u :
        r \in DOMAIN b /\ s[r] = b[r] => ~ Keeps(b, u, r)
  BY TableKept DEF In, Of, Unless
<1>4. \A b \in D : \A r \in DOMAIN s :
        s[r] = b[r] /\ s[r].kind = "table" /\ Idle(b, r) => r \in W
  BY TableKept DEF In, Of, Unless, Idle, Users
<1>5. \A k : <<"idle-provisioned-dynamodb", k>> \in Judged => k = "table"
  BY DEF Judged
<1> HIDE DEF W
<1> QED  BY <1>1, <1>2, <1>3, <1>4, <1>5, RightAtOnce

LEMMA LogGroupNoRetention ==
  ASSUME NEW D, NEW s, Witnessed(D, s), AllOf(D, s, "log-group")
  PROVE  Right(D, "log-group-no-retention", log_group_no_retention(s).finds)
<1> DEFINE W == Unless(s, Of(s, "log-group"), {"retention", "no-bytes"})
<1>1. Reports("log-group-no-retention", log_group_no_retention(s).finds, W)
  BY EstimatedReports DEF log_group_no_retention
<1>2. \A r \in W : r \in DOMAIN s /\ s[r].kind = "log-group"
  BY DEF In, Of, Unless
<1>3. \A b \in D : \A r \in W : \A u :
        r \in DOMAIN b /\ s[r] = b[r] => ~ Keeps(b, u, r)
  BY LogGroupKept DEF In, Of, Unless
<1>4. \A b \in D : \A r \in DOMAIN s :
        s[r] = b[r] /\ s[r].kind = "log-group" /\ Idle(b, r) => r \in W
  BY LogGroupKept DEF In, Of, Unless, Idle, Users
<1>5. \A k : <<"log-group-no-retention", k>> \in Judged => k = "log-group"
  BY DEF Judged
<1> HIDE DEF W
<1> QED  BY <1>1, <1>2, <1>3, <1>4, <1>5, RightAtOnce

LEMMA DisabledKmsKey ==
  ASSUME NEW D, NEW s, Witnessed(D, s), AllOf(D, s, "key")
  PROVE  Right(D, "disabled-kms-key", disabled_kms_key(s).finds)
<1> DEFINE W == Unless(s, In(s, "key", "Disabled"), {"aws-managed"})
<1>1. Reports("disabled-kms-key", disabled_kms_key(s).finds, W)
  BY PricedReports DEF disabled_kms_key
<1>2. \A r \in W : r \in DOMAIN s /\ s[r].kind = "key"
  BY DEF In, Of, Unless
<1>3. \A b \in D : \A r \in W : \A u :
        r \in DOMAIN b /\ s[r] = b[r] => ~ Keeps(b, u, r)
  BY KeyKept DEF In, Of, Unless
<1>4. \A b \in D : \A r \in DOMAIN s :
        s[r] = b[r] /\ s[r].kind = "key" /\ Idle(b, r) => r \in W
  BY KeyKept DEF In, Of, Unless, Idle, Users
<1>5. \A k : <<"disabled-kms-key", k>> \in Judged => k = "key"
  BY DEF Judged
<1> HIDE DEF W
<1> QED  BY <1>1, <1>2, <1>3, <1>4, <1>5, RightAtOnce

LEMMA StaleSecret ==
  ASSUME NEW D, NEW s, Witnessed(D, s), AllOf(D, s, "secret")
  PROVE  Right(D, "stale-secret", stale_secret(s).finds)
<1> DEFINE W == {x \in Unless(s, Of(s, "secret"), {"deleted"}) :
               ~ IF "never-read" \in s[x].is THEN "written" \in s[x].is
                 ELSE "read" \in s[x].is}
<1>1. Reports("stale-secret", stale_secret(s).finds, W)
  BY PricedReports DEF stale_secret
<1>2. \A r \in W : r \in DOMAIN s /\ s[r].kind = "secret"
  BY DEF In, Of, Unless
<1>3. \A b \in D : \A r \in W : \A u :
        r \in DOMAIN b /\ s[r] = b[r] => ~ Keeps(b, u, r)
  BY SecretKept DEF In, Of, Unless
<1>4. \A b \in D : \A r \in DOMAIN s :
        s[r] = b[r] /\ s[r].kind = "secret" /\ Idle(b, r) => r \in W
  BY SecretKept DEF In, Of, Unless, Idle, Users
<1>5. \A k : <<"stale-secret", k>> \in Judged => k = "secret"
  BY DEF Judged
<1> HIDE DEF W
<1> QED  BY <1>1, <1>2, <1>3, <1>4, <1>5, RightAtOnce

LEMMA LightsailStoppedInstance ==
  ASSUME NEW D, NEW s, Witnessed(D, s), AllOf(D, s, "ls-instance")
  PROVE  Right(D, "lightsail-stopped-instance", lightsail_stopped_instance(s).finds)
<1> DEFINE W == Unless(s, In(s, "ls-instance", "stopped"), {"unnamed"})
<1>1. Reports("lightsail-stopped-instance", lightsail_stopped_instance(s).finds, W)
  BY PricedReports DEF lightsail_stopped_instance
<1>2. \A r \in W : r \in DOMAIN s /\ s[r].kind = "ls-instance"
  BY DEF In, Of, Unless
<1>3. \A b \in D : \A r \in W : \A u :
        r \in DOMAIN b /\ s[r] = b[r] => ~ Keeps(b, u, r)
  BY LightsailInstanceKept DEF In, Of, Unless
<1>4. \A b \in D : \A r \in DOMAIN s :
        s[r] = b[r] /\ s[r].kind = "ls-instance" /\ Idle(b, r) => r \in W
  BY LightsailInstanceKept DEF In, Of, Unless, Idle, Users
<1>5. \A k : <<"lightsail-stopped-instance", k>> \in Judged => k = "ls-instance"
  BY DEF Judged
<1> HIDE DEF W
<1> QED  BY <1>1, <1>2, <1>3, <1>4, <1>5, RightAtOnce

LEMMA LightsailUnattachedDisk ==
  ASSUME NEW D, NEW s, Witnessed(D, s), AllOf(D, s, "ls-disk")
  PROVE  Right(D, "lightsail-unattached-disk", lightsail_unattached_disk(s).finds)
<1> DEFINE W == {d \in Unless(s, Of(s, "ls-disk"), {"system", "unnamed"}) : s[d].refs = {}}
<1>1. Reports("lightsail-unattached-disk", lightsail_unattached_disk(s).finds, W)
  BY PricedReports DEF lightsail_unattached_disk
<1>2. \A r \in W : r \in DOMAIN s /\ s[r].kind = "ls-disk"
  BY DEF In, Of, Unless
<1>3. \A b \in D : \A r \in W : \A u :
        r \in DOMAIN b /\ s[r] = b[r] => ~ Keeps(b, u, r)
  BY LightsailDiskKept DEF In, Of, Unless
<1>4. \A b \in D : \A r \in DOMAIN s :
        s[r] = b[r] /\ s[r].kind = "ls-disk" /\ Idle(b, r) => r \in W
  BY LightsailDiskKept, AttachedIsThere DEF In, Of, Unless, Idle, Users, AttachedKinds
<1>5. \A k : <<"lightsail-unattached-disk", k>> \in Judged => k = "ls-disk"
  BY DEF Judged
<1> HIDE DEF W
<1> QED  BY <1>1, <1>2, <1>3, <1>4, <1>5, RightAtOnce

LEMMA LightsailUnattachedStaticIp ==
  ASSUME NEW D, NEW s, Witnessed(D, s), AllOf(D, s, "ls-ip")
  PROVE  Right(D, "lightsail-unattached-static-ip", lightsail_unattached_static_ip(s).finds)
<1> DEFINE W == {i \in Unless(s, Of(s, "ls-ip"), {"unnamed"}) : s[i].refs = {}}
<1>1. Reports("lightsail-unattached-static-ip", lightsail_unattached_static_ip(s).finds, W)
  BY PricedReports DEF lightsail_unattached_static_ip
<1>2. \A r \in W : r \in DOMAIN s /\ s[r].kind = "ls-ip"
  BY DEF In, Of, Unless
<1>3. \A b \in D : \A r \in W : \A u :
        r \in DOMAIN b /\ s[r] = b[r] => ~ Keeps(b, u, r)
  BY LightsailIpKept DEF In, Of, Unless
<1>4. \A b \in D : \A r \in DOMAIN s :
        s[r] = b[r] /\ s[r].kind = "ls-ip" /\ Idle(b, r) => r \in W
  BY LightsailIpKept, AttachedIsThere DEF In, Of, Unless, Idle, Users, AttachedKinds
<1>5. \A k : <<"lightsail-unattached-static-ip", k>> \in Judged => k = "ls-ip"
  BY DEF Judged
<1> HIDE DEF W
<1> QED  BY <1>1, <1>2, <1>3, <1>4, <1>5, RightAtOnce

LEMMA LightsailEmptyLoadBalancer ==
  ASSUME NEW D, NEW s, Witnessed(D, s), AllOf(D, s, "ls-balancer")
  PROVE  Right(D, "lightsail-empty-load-balancer", lightsail_empty_load_balancer(s).finds)
<1> DEFINE W == {b \in Unless(s, Of(s, "ls-balancer"), {"unnamed"}) : s[b].refs = {}}
<1>1. Reports("lightsail-empty-load-balancer", lightsail_empty_load_balancer(s).finds, W)
  BY PricedReports DEF lightsail_empty_load_balancer
<1>2. \A r \in W : r \in DOMAIN s /\ s[r].kind = "ls-balancer"
  BY DEF In, Of, Unless
<1>3. \A b \in D : \A r \in W : \A u :
        r \in DOMAIN b /\ s[r] = b[r] => ~ Keeps(b, u, r)
  BY LightsailBalancerKept DEF In, Of, Unless
<1>4. \A b \in D : \A r \in DOMAIN s :
        s[r] = b[r] /\ s[r].kind = "ls-balancer" /\ Idle(b, r) => r \in W
  BY LightsailBalancerKept, AttachedIsThere DEF In, Of, Unless, Idle, Users, AttachedKinds
<1>5. \A k : <<"lightsail-empty-load-balancer", k>> \in Judged => k = "ls-balancer"
  BY DEF Judged
<1> HIDE DEF W
<1> QED  BY <1>1, <1>2, <1>3, <1>4, <1>5, RightAtOnce

LEMMA LightsailIdleContainerService ==
  ASSUME NEW D, NEW s, Witnessed(D, s), AllOf(D, s, "ls-service")
  PROVE  Right(D, "lightsail-idle-container-service", lightsail_idle_container_service(s).finds)
<1> DEFINE W == {x \in Unless(s, Of(s, "ls-service"), {"unnamed", "deployed"}) :
               s[x].state \notin {"DISABLED", "DELETING"}}
<1>1. Reports("lightsail-idle-container-service", lightsail_idle_container_service(s).finds, W)
  BY PricedReports DEF lightsail_idle_container_service
<1>2. \A r \in W : r \in DOMAIN s /\ s[r].kind = "ls-service"
  BY DEF In, Of, Unless
<1>3. \A b \in D : \A r \in W : \A u :
        r \in DOMAIN b /\ s[r] = b[r] => ~ Keeps(b, u, r)
  BY LightsailServiceKept DEF In, Of, Unless
<1>4. \A b \in D : \A r \in DOMAIN s :
        s[r] = b[r] /\ s[r].kind = "ls-service" /\ Idle(b, r) => r \in W
  BY LightsailServiceKept DEF In, Of, Unless, Idle, Users, Charges
<1>5. \A k : <<"lightsail-idle-container-service", k>> \in Judged => k = "ls-service"
  BY DEF Judged
<1> HIDE DEF W
<1> QED  BY <1>1, <1>2, <1>3, <1>4, <1>5, RightAtOnce

(*****************************************************************************)
(* Checks that build their findings in another way, or read several kinds.   *)
(*****************************************************************************)
LEMMA DetailedFindings ==
  /\ \A s, r : AmiFinding(s, r).check = "unused-ami" /\ AmiFinding(s, r).id = r
  /\ \A s, r : ZoneFinding(s, r).check = "unused-route53-zone" /\ ZoneFinding(s, r).id = r
  /\ \A r, of : /\ LightsailFinding(r, of).check = "lightsail-orphaned-snapshot"
                /\ LightsailFinding(r, of).id = r
BY DEF Finding, AmiFinding, ZoneFinding, LightsailFinding, NoDetails

LEMMA UnusedZone ==
  ASSUME NEW D, NEW s, Witnessed(D, s), AllOf(D, s, "zone")
  PROVE  Right(D, "unused-route53-zone", unused_route53_zone(s).finds)
<1> DEFINE W == Unless(s, Of(s, "zone"), {"records"})
<1>1. Reports("unused-route53-zone", unused_route53_zone(s).finds, W)
  <2>1. unused_route53_zone(s).finds = {ZoneFinding(s, z) : z \in W}
    BY DEF unused_route53_zone
  <2> HIDE DEF W
  <2> QED  BY <2>1, DetailedFindings DEF Reports
<1>2. \A r \in W : r \in DOMAIN s /\ s[r].kind = "zone"
  BY DEF Of, Unless
<1>3. \A b \in D : \A r \in W : \A u :
        r \in DOMAIN b /\ s[r] = b[r] => ~ Keeps(b, u, r)
  BY ZoneKept DEF Of, Unless
<1>4. \A b \in D : \A r \in DOMAIN s :
        s[r] = b[r] /\ s[r].kind = "zone" /\ Idle(b, r) => r \in W
  BY ZoneKept DEF Of, Unless, Idle, Users
<1>5. \A k : <<"unused-route53-zone", k>> \in Judged => k = "zone"
  BY DEF Judged
<1> HIDE DEF W
<1> QED  BY <1>1, <1>2, <1>3, <1>4, <1>5, RightAtOnce

LEMMA OrphanedSnapshots ==
  ASSUME NEW D, NEW s, Witnessed(D, s),
         AllOf(D, s, "volume"), AllOf(D, s, "image"), AllOf(D, s, "snapshot")
  PROVE  Right(D, "orphaned-snapshot", orphaned_snapshots(s).finds)
<1> DEFINE W == {r \in Of(s, "snapshot") \ UNION {s[i].refs : i \in Of(s, "image")} :
                   s[r].refs # {} /\ s[r].refs \cap Of(s, "volume") = {}}
<1>1. Reports("orphaned-snapshot", orphaned_snapshots(s).finds, W)
  <2>1. orphaned_snapshots(s).finds = Estimated("orphaned-snapshot", W)
    BY DEF orphaned_snapshots
  <2> HIDE DEF W
  <2> QED  BY <2>1, EstimatedReports
<1>2. \A r : r \in W <=> /\ r \in DOMAIN s /\ s[r].kind = "snapshot" /\ s[r].refs # {}
                         /\ \A i \in DOMAIN s : s[i].kind = "image" => r \notin s[i].refs
                         /\ \A v \in s[r].refs : v \in DOMAIN s => s[v].kind # "volume"
  BY DEF Of
<1> HIDE DEF W
<1>3. ASSUME NEW r \in W, NEW u, InUse(D, u, r) PROVE FALSE
  <2>1. PICK b \in D : r \in DOMAIN b /\ s[r] = b[r]
    BY <1>2, WasSeen
  <2>2. b[r].kind = "snapshot" /\ Keeps(b, u, r)
    BY <1>2, <1>3, <2>1 DEF InUse
  <2>3. CASE u \in b[r].refs /\ b[u].kind = "volume"
    <3>1. u \in DOMAIN s /\ s[u].kind = "volume"
      BY <1>2, <1>3, <2>3, UserIsSeen
    <3> QED  BY <1>2, <2>1, <2>3, <3>1
  <2>4. CASE b[u].kind = "image"
    <3>1. u \in DOMAIN s /\ s[u].kind = "image"
      BY <1>2, <1>3, <2>4, UserIsSeen
    <3>2. PICK c \in D : s[u] = c[u] /\ Keeps(c, u, r) /\ c[r].kind = "snapshot"
      BY <1>2, <1>3, <2>4, UserIsSeen
    <3>3. r \in c[u].refs
      BY <3>1, <3>2, SnapshotKept
    <3> QED  BY <1>2, <3>1, <3>2, <3>3
  <2> QED  BY <1>2, <2>1, <2>2, <2>3, <2>4, SnapshotKept
<1>4. ASSUME NEW r, Unused(D, r, "snapshot") PROVE r \in W
  <2>1. r \in DOMAIN s /\ s[r].kind = "snapshot" /\ \A a \in D : Idle(a, r)
    BY <1>4, IsSeen DEF Unused, Idle
  <2>2. \A x \in DOMAIN s : \E c \in D :
          /\ s[x] = c[x] /\ ~ Keeps(c, x, r) /\ c[r].kind = "snapshot" /\ c[r].refs = s[r].refs
    BY <2>1, NoUserSeen DEF Fixed, CopyKinds
  <2>3. s[r].refs # {}
    BY <2>1, <2>2, SnapshotKept
  <2>4. \A i \in DOMAIN s : s[i].kind = "image" => r \notin s[i].refs
    BY <2>2, SnapshotKept
  <2>5. \A v \in s[r].refs : v \in DOMAIN s => s[v].kind # "volume"
    BY <2>2, SnapshotKept
  <2> QED  BY <1>2, <2>1, <2>3, <2>4, <2>5
<1>5. \A k : <<"orphaned-snapshot", k>> \in Judged => k = "snapshot"
  BY DEF Judged
<1> QED  BY <1>1, <1>3, <1>4, <1>5, RightlyJudged

LEMMA UnusedAmi ==
  ASSUME NEW D, NEW s, Witnessed(D, s), AllOf(D, s, "instance"), AllOf(D, s, "image")
  PROVE  Right(D, "unused-ami", unused_ami(s).finds)
<1> DEFINE W == {i \in Unless(s, Of(s, "image") \ UNION {s[i].refs : i \in Of(s, "instance")},
                              {"young", "undated"}) : s[i].refs # {}}
<1>1. Reports("unused-ami", unused_ami(s).finds, W)
  <2>1. unused_ami(s).finds = {AmiFinding(s, i) : i \in W}
    BY DEF unused_ami
  <2> HIDE DEF W
  <2> QED  BY <2>1, DetailedFindings DEF Reports
<1>2. \A r : r \in W <=> /\ r \in DOMAIN s /\ s[r].kind = "image" /\ s[r].refs # {}
                         /\ "young" \notin s[r].is /\ "undated" \notin s[r].is
                         /\ \A i \in DOMAIN s : s[i].kind = "instance" => r \notin s[i].refs
  BY DEF Of, Unless
<1> HIDE DEF W
<1>3. ASSUME NEW r \in W, NEW u, InUse(D, u, r) PROVE FALSE
  <2>1. PICK b \in D : r \in DOMAIN b /\ s[r] = b[r]
    BY <1>2, WasSeen
  <2>2. b[r].kind = "image" /\ Keeps(b, u, r)
    BY <1>2, <1>3, <2>1 DEF InUse
  <2>3. b[u].kind = "instance"
    BY <1>2, <2>1, <2>2, ImageKept
  <2>4. u \in DOMAIN s /\ s[u].kind = "instance"
    BY <1>2, <1>3, <2>3, UserIsSeen
  <2>5. PICK c \in D : s[u] = c[u] /\ Keeps(c, u, r) /\ c[r].kind = "image"
    BY <1>2, <1>3, <2>3, UserIsSeen
  <2>6. r \in c[u].refs
    BY <1>2, <2>4, <2>5, ImageKept
  <2> QED  BY <1>2, <2>4, <2>5, <2>6
<1>4. ASSUME NEW r, Unused(D, r, "image") PROVE r \in W
  <2>1. r \in DOMAIN s /\ s[r].kind = "image" /\ \A a \in D : Idle(a, r)
    BY <1>4, IsSeen DEF Unused, Idle
  <2>2. \A x \in DOMAIN s : \E c \in D :
          s[x] = c[x] /\ ~ Keeps(c, x, r) /\ c[r].kind = "image" /\ c \in D
    BY <2>1, NoUserSeen
  <2>3. "young" \notin s[r].is /\ "undated" \notin s[r].is
    BY <2>1, <2>2, ImageKept
  <2>4. \A i \in DOMAIN s : s[i].kind = "instance" => r \notin s[i].refs
    BY <2>2, ImageKept
  <2>5. s[r].refs # {}
    BY <2>1, <2>2 DEF Idle, Charges
  <2> QED  BY <1>2, <2>1, <2>3, <2>4, <2>5
<1>5. \A k : <<"unused-ami", k>> \in Judged => k = "image"
  BY DEF Judged
<1> QED  BY <1>1, <1>3, <1>4, <1>5, RightlyJudged

LEMMA IncompleteMultipartUpload ==
  ASSUME NEW D, NEW s, Witnessed(D, s), AllOf(D, s, "bucket"), AllOf(D, s, "upload")
  PROVE  Right(D, "incomplete-multipart-upload", incomplete_multipart_upload(s).finds)
<1> DEFINE W == {b \in Of(s, "bucket") : Naming(s, "upload", b) # {}}
<1>1. Reports("incomplete-multipart-upload", incomplete_multipart_upload(s).finds, W)
  <2>1. incomplete_multipart_upload(s).finds =
          {Finding("incomplete-multipart-upload", b, Naming(s, "upload", b), FALSE) : b \in W}
    BY DEF incomplete_multipart_upload
  <2> HIDE DEF W
  <2> QED  BY <2>1, BilledReports
<1>2. \A r : r \in W <=> /\ r \in DOMAIN s /\ s[r].kind = "bucket"
                         /\ \E x \in DOMAIN s : s[x].kind = "upload" /\ r \in s[x].refs
  BY DEF Of, Naming
<1> HIDE DEF W
<1>3. ASSUME NEW r \in W, NEW u, InUse(D, u, r) PROVE FALSE
  <2>1. PICK b \in D : r \in DOMAIN b /\ s[r] = b[r]
    BY <1>2, WasSeen
  <2> QED  BY <1>2, <1>3, <2>1, BucketKept DEF InUse
<1>4. ASSUME NEW r, Unused(D, r, "bucket") PROVE r \in W
  <2>1. r \in DOMAIN s /\ s[r].kind = "bucket" /\ \A a \in D : Idle(a, r)
    BY <1>4, IsSeen DEF Unused, Idle
  <2>2. PICK a \in D : Of(a, "upload") \subseteq DOMAIN s
    BY DEF AllOf
  <2>3. PICK b \in D : r \in DOMAIN b /\ s[r] = b[r]
    BY <2>1, WasSeen
  <2>4. a[r].kind = "bucket"
    BY <2>1, <2>3, KindStays DEF Idle
  <2>5. PICK x \in DOMAIN a : a[x].kind = "upload" /\ r \in a[x].refs
    BY <2>1, <2>4 DEF Idle, Charges, Naming, Of
  <2>6. x \in DOMAIN s
    BY <2>2, <2>5 DEF Of
  <2>7. PICK c \in D : x \in DOMAIN c /\ s[x] = c[x]
    BY <2>6, WasSeen
  <2>8. c[x].kind = "upload" /\ c[x].refs = a[x].refs
    BY <2>5, <2>7, KindStays DEF Fixed
  <2> QED  BY <1>2, <2>1, <2>5, <2>6, <2>7, <2>8
<1>5. \A k : <<"incomplete-multipart-upload", k>> \in Judged => k = "bucket"
  BY DEF Judged
<1> QED  BY <1>1, <1>3, <1>4, <1>5, RightlyJudged

LEMMA StoppedInstances ==
  ASSUME NEW D, NEW s, Witnessed(D, s), AllOf(D, s, "instance"), AllAtOnce(D, s, "volume")
  PROVE  Right(D, "stopped-instance", stopped_instances(s).finds)
<1> DEFINE W == {i \in In(s, "instance", "stopped") : Naming(s, "volume", i) # {}}
<1>1. Reports("stopped-instance", stopped_instances(s).finds, W)
  <2>1. stopped_instances(s).finds =
          {Finding("stopped-instance", i, Naming(s, "volume", i), FALSE) : i \in W}
    BY DEF stopped_instances
  <2> HIDE DEF W
  <2> QED  BY <2>1, BilledReports
<1>2. \A r : r \in W <=> /\ r \in DOMAIN s /\ s[r].kind = "instance" /\ s[r].state = "stopped"
                         /\ \E x \in DOMAIN s : s[x].kind = "volume" /\ r \in s[x].refs
  BY DEF In, Of, Naming
<1> HIDE DEF W
<1>3. ASSUME NEW r \in W, NEW u, InUse(D, u, r) PROVE FALSE
  <2>1. PICK b \in D : r \in DOMAIN b /\ s[r] = b[r]
    BY <1>2, WasSeen
  <2> QED  BY <1>2, <1>3, <2>1, InstanceKept DEF InUse
<1>4. ASSUME NEW r, Unused(D, r, "instance") PROVE r \in W
  <2>1. r \in DOMAIN s /\ s[r].kind = "instance" /\ \A a \in D : Idle(a, r)
    BY <1>4, IsSeen DEF Unused, Idle
  <2>2. PICK a \in D : \A x \in Of(a, "volume") : x \in DOMAIN s /\ s[x] = a[x]
    BY DEF AllAtOnce
  <2>3. PICK b \in D : r \in DOMAIN b /\ s[r] = b[r]
    BY <2>1, WasSeen
  <2>4. a[r].kind = "instance"
    BY <2>1, <2>3, KindStays DEF Idle
  <2>5. PICK x \in DOMAIN a : a[x].kind = "volume" /\ r \in a[x].refs
    BY <2>1, <2>4 DEF Idle, Charges, Naming, Of
  <2>6. x \in DOMAIN s /\ s[x] = a[x]
    BY <2>2, <2>5 DEF Of
  <2>7. s[r].state = "stopped"
    BY <2>1, <2>3, InstanceKept DEF Idle, Users
  <2> QED  BY <1>2, <2>1, <2>5, <2>6, <2>7
<1>5. \A k : <<"stopped-instance", k>> \in Judged => k = "instance"
  BY DEF Judged
<1> QED  BY <1>1, <1>3, <1>4, <1>5, RightlyJudged

LEMMA UnusedSecurityGroup ==
  ASSUME NEW D, NEW s, Witnessed(D, s), AllOf(D, s, "group"), AllOf(D, s, "interface")
  PROVE  Right(D, "unused-security-group", unused_security_group(s).finds)
<1> DEFINE W == Unless(s, Of(s, "group"), {"default"})
                  \ ((UNION {s[e].refs : e \in Of(s, "interface")})
                       \cup (UNION {s[g].refs \ {g} : g \in Of(s, "group")}))
<1>1. Reports("unused-security-group", unused_security_group(s).finds, W)
  <2>1. unused_security_group(s).finds = Free("unused-security-group", W)
    BY DEF unused_security_group
  <2> HIDE DEF W
  <2> QED  BY <2>1, FreeReports
<1>2. \A r : r \in W <=>
        /\ r \in DOMAIN s /\ s[r].kind = "group" /\ "default" \notin s[r].is
        /\ \A e \in DOMAIN s : s[e].kind = "interface" => r \notin s[e].refs
        /\ \A g \in DOMAIN s : s[g].kind = "group" /\ r \in s[g].refs => g = r
  BY DEF Of, Unless
<1> HIDE DEF W
<1>3. ASSUME NEW r \in W, NEW u, InUse(D, u, r) PROVE FALSE
  <2>1. PICK b \in D : r \in DOMAIN b /\ s[r] = b[r]
    BY <1>2, WasSeen
  <2>2. b[r].kind = "group" /\ Keeps(b, u, r)
    BY <1>2, <1>3, <2>1 DEF InUse
  <2>3. (u # r /\ b[u].kind = "group") \/ b[u].kind = "interface"
    BY <1>2, <2>1, <2>2, GroupKept
  <2>4. u \in DOMAIN s /\ s[u].kind = b[u].kind
    BY <1>2, <1>3, <2>3, UserIsSeen
  <2>5. PICK c \in D : s[u] = c[u] /\ Keeps(c, u, r) /\ c[r].kind = "group"
    BY <1>2, <1>3, <2>3, UserIsSeen
  <2>6. u # r
    BY <2>1, <2>2, <2>3
  <2>7. r \in c[u].refs
    BY <2>5, <2>6, GroupKept
  <2> QED  BY <1>2, <2>3, <2>4, <2>5, <2>6, <2>7
<1>4. ASSUME NEW r, Unused(D, r, "group") PROVE r \in W
  <2>1. r \in DOMAIN s /\ s[r].kind = "group" /\ \A a \in D : Idle(a, r)
    BY <1>4, IsSeen DEF Unused, Idle
  <2>2. \A x \in DOMAIN s : \E c \in D :
          s[x] = c[x] /\ ~ Keeps(c, x, r) /\ c[r].kind = "group"
    BY <2>1, NoUserSeen
  <2>3. "default" \notin s[r].is
    BY <2>1, <2>2, GroupKept
  <2>4. \A e \in DOMAIN s : s[e].kind = "interface" => r \notin s[e].refs
    BY <2>2, GroupKept
  <2>5. \A g \in DOMAIN s : s[g].kind = "group" /\ r \in s[g].refs => g = r
    BY <2>2, GroupKept
  <2> QED  BY <1>2, <2>1, <2>3, <2>4, <2>5
<1>5. \A k : <<"unused-security-group", k>> \in Judged => k = "group"
  BY DEF Judged
<1> QED  BY <1>1, <1>3, <1>4, <1>5, RightlyJudged

LEMMA EmptyVpc ==
  ASSUME NEW D, NEW s, Witnessed(D, s), AllOf(D, s, "vpc"), AllOf(D, s, "interface")
  PROVE  Right(D, "empty-vpc", empty_vpc(s).finds)
<1> DEFINE W == {v \in Unless(s, Of(s, "vpc"), {"default"}) : Naming(s, "interface", v) = {}}
<1>1. Reports("empty-vpc", empty_vpc(s).finds, W)
  <2>1. empty_vpc(s).finds = Free("empty-vpc", W)
    BY DEF empty_vpc
  <2> HIDE DEF W
  <2> QED  BY <2>1, FreeReports
<1>2. \A r : r \in W <=>
        /\ r \in DOMAIN s /\ s[r].kind = "vpc" /\ "default" \notin s[r].is
        /\ \A e \in DOMAIN s : s[e].kind = "interface" => r \notin s[e].refs
  BY DEF Of, Unless, Naming
<1> HIDE DEF W
<1>3. ASSUME NEW r \in W, NEW u, InUse(D, u, r) PROVE FALSE
  <2>1. PICK b \in D : r \in DOMAIN b /\ s[r] = b[r]
    BY <1>2, WasSeen
  <2>2. b[r].kind = "vpc" /\ Keeps(b, u, r)
    BY <1>2, <1>3, <2>1 DEF InUse
  <2>3. b[u].kind = "interface"
    BY <1>2, <2>1, <2>2, VpcKept
  <2>4. u \in DOMAIN s /\ s[u].kind = "interface"
    BY <1>2, <1>3, <2>3, UserIsSeen
  <2>5. PICK c \in D : s[u] = c[u] /\ Keeps(c, u, r) /\ c[r].kind = "vpc"
    BY <1>2, <1>3, <2>3, UserIsSeen
  <2> QED  BY <1>2, <2>4, <2>5, VpcKept
<1>4. ASSUME NEW r, Unused(D, r, "vpc") PROVE r \in W
  <2>1. r \in DOMAIN s /\ s[r].kind = "vpc" /\ \A a \in D : Idle(a, r)
    BY <1>4, IsSeen DEF Unused, Idle
  <2>2. \A x \in DOMAIN s : \E c \in D :
          s[x] = c[x] /\ ~ Keeps(c, x, r) /\ c[r].kind = "vpc"
    BY <2>1, NoUserSeen
  <2>3. "default" \notin s[r].is
    BY <2>1, <2>2, VpcKept
  <2>4. \A e \in DOMAIN s : s[e].kind = "interface" => r \notin s[e].refs
    BY <2>2, VpcKept
  <2> QED  BY <1>2, <2>1, <2>3, <2>4
<1>5. \A k : <<"empty-vpc", k>> \in Judged => k = "vpc"
  BY DEF Judged
<1> QED  BY <1>1, <1>3, <1>4, <1>5, RightlyJudged

LEMMA IdleNatGateway ==
  ASSUME NEW D, NEW s, Witnessed(D, s), AllOf(D, s, "nat"), AllOf(D, s, "interface")
  PROVE  Right(D, "idle-nat-gateway", idle_nat_gateway(s).finds)
<1> DEFINE W == {n \in In(s, "nat", "available") :
                   s[n].refs \cap vpcs_with_workloads(s) = {}}
<1>1. Reports("idle-nat-gateway", idle_nat_gateway(s).finds, W)
  <2>1. idle_nat_gateway(s).finds = Priced("idle-nat-gateway", W)
    BY DEF idle_nat_gateway
  <2> HIDE DEF W
  <2> QED  BY <2>1, PricedReports
<1>2. \A r : r \in W <=>
        /\ r \in DOMAIN s /\ s[r].kind = "nat" /\ s[r].state = "available"
        /\ \A e \in DOMAIN s :
             /\ s[e].kind = "interface" /\ s[e].state = "in-use" /\ "plumbing" \notin s[e].is
             => s[e].refs \cap s[r].refs = {}
  BY DEF In, Of, Unless, vpcs_with_workloads
<1> HIDE DEF W
<1>3. ASSUME NEW r \in W, NEW u, InUse(D, u, r) PROVE FALSE
  <2>1. PICK b \in D : r \in DOMAIN b /\ s[r] = b[r]
    BY <1>2, WasSeen
  <2>2. b[r].kind = "nat" /\ Keeps(b, u, r)
    BY <1>2, <1>3, <2>1 DEF InUse
  <2>3. b[u].kind = "interface"
    BY <1>2, <2>1, <2>2, NatKept
  <2>4. u \in DOMAIN s /\ s[u].kind = "interface"
    BY <1>2, <1>3, <2>3, UserIsSeen
  <2>5. PICK c \in D : s[u] = c[u] /\ Keeps(c, u, r) /\ c[r].kind = "nat"
                       /\ c[r].refs = s[r].refs
    BY <1>2, <1>3, <2>3, UserIsSeen DEF Fixed
  <2>6. u # r
    BY <1>2, <2>4
  <2>7. /\ c[u].state = "in-use" /\ "plumbing" \notin c[u].is
        /\ c[u].refs \cap c[r].refs # {}
    BY <2>5, <2>6, NatKept
  <2> QED  BY <1>2, <2>4, <2>5, <2>7
<1>4. ASSUME NEW r, Unused(D, r, "nat") PROVE r \in W
  <2>1. r \in DOMAIN s /\ s[r].kind = "nat" /\ \A a \in D : Idle(a, r)
    BY <1>4, IsSeen DEF Unused, Idle
  <2>2. \A x \in DOMAIN s : \E c \in D :
          /\ s[x] = c[x] /\ ~ Keeps(c, x, r)
          /\ c[r].kind = "nat" /\ c[r].refs = s[r].refs
    BY <2>1, NoUserSeen DEF Fixed
  <2>3. s[r].state = "available"
    BY <2>1, <2>2, NatKept
  <2>4. ASSUME NEW e \in DOMAIN s, s[e].kind = "interface", s[e].state = "in-use",
               "plumbing" \notin s[e].is
        PROVE  s[e].refs \cap s[r].refs = {}
    <3>1. PICK c \in D : /\ s[e] = c[e] /\ ~ Keeps(c, e, r)
                         /\ c[r].kind = "nat" /\ c[r].refs = s[r].refs
      BY <2>2
    <3> QED  BY <2>4, <3>1, NatKept
  <2> QED  BY <1>2, <2>1, <2>3, <2>4
<1>5. \A k : <<"idle-nat-gateway", k>> \in Judged => k = "nat"
  BY DEF Judged
<1> QED  BY <1>1, <1>3, <1>4, <1>5, RightlyJudged

LEMMA UnusedVpcEndpoint ==
  ASSUME NEW D, NEW s, Witnessed(D, s), AllOf(D, s, "endpoint"), AllOf(D, s, "interface")
  PROVE  Right(D, "unused-vpc-endpoint", unused_vpc_endpoint(s).finds)
<1> DEFINE W == {e \in Unless(s, In(s, "endpoint", "available"), {"gateway"}) :
                   s[e].refs \cap vpcs_with_workloads(s) = {}}
<1>1. Reports("unused-vpc-endpoint", unused_vpc_endpoint(s).finds, W)
  <2>1. unused_vpc_endpoint(s).finds = Priced("unused-vpc-endpoint", W)
    BY DEF unused_vpc_endpoint
  <2> HIDE DEF W
  <2> QED  BY <2>1, PricedReports
<1>2. \A r : r \in W <=>
        /\ r \in DOMAIN s /\ s[r].kind = "endpoint"
        /\ s[r].state = "available" /\ "gateway" \notin s[r].is
        /\ \A e \in DOMAIN s :
             /\ s[e].kind = "interface" /\ s[e].state = "in-use" /\ "plumbing" \notin s[e].is
             => s[e].refs \cap s[r].refs = {}
  BY DEF In, Of, Unless, vpcs_with_workloads
<1> HIDE DEF W
<1>3. ASSUME NEW r \in W, NEW u, InUse(D, u, r) PROVE FALSE
  <2>1. PICK b \in D : r \in DOMAIN b /\ s[r] = b[r]
    BY <1>2, WasSeen
  <2>2. b[r].kind = "endpoint" /\ Keeps(b, u, r)
    BY <1>2, <1>3, <2>1 DEF InUse
  <2>3. b[u].kind = "interface"
    BY <1>2, <2>1, <2>2, EndpointKept
  <2>4. u \in DOMAIN s /\ s[u].kind = "interface"
    BY <1>2, <1>3, <2>3, UserIsSeen
  <2>5. PICK c \in D : s[u] = c[u] /\ Keeps(c, u, r) /\ c[r].kind = "endpoint"
                       /\ c[r].refs = s[r].refs
    BY <1>2, <1>3, <2>3, UserIsSeen DEF Fixed
  <2>6. u # r
    BY <1>2, <2>4
  <2>7. /\ c[u].state = "in-use" /\ "plumbing" \notin c[u].is
        /\ c[u].refs \cap c[r].refs # {}
    BY <2>5, <2>6, EndpointKept
  <2> QED  BY <1>2, <2>4, <2>5, <2>7
<1>4. ASSUME NEW r, Unused(D, r, "endpoint") PROVE r \in W
  <2>1. r \in DOMAIN s /\ s[r].kind = "endpoint" /\ \A a \in D : Idle(a, r)
    BY <1>4, IsSeen DEF Unused, Idle
  <2>2. \A x \in DOMAIN s : \E c \in D :
          /\ s[x] = c[x] /\ ~ Keeps(c, x, r)
          /\ c[r].kind = "endpoint" /\ c[r].refs = s[r].refs
    BY <2>1, NoUserSeen DEF Fixed
  <2>3. s[r].state = "available" /\ "gateway" \notin s[r].is
    BY <2>1, <2>2, EndpointKept
  <2>4. ASSUME NEW e \in DOMAIN s, s[e].kind = "interface", s[e].state = "in-use",
               "plumbing" \notin s[e].is
        PROVE  s[e].refs \cap s[r].refs = {}
    <3>1. PICK c \in D : /\ s[e] = c[e] /\ ~ Keeps(c, e, r)
                         /\ c[r].kind = "endpoint" /\ c[r].refs = s[r].refs
      BY <2>2
    <3> QED  BY <2>4, <3>1, EndpointKept
  <2> QED  BY <1>2, <2>1, <2>3, <2>4
<1>5. \A k : <<"unused-vpc-endpoint", k>> \in Judged => k = "endpoint"
  BY DEF Judged
<1> QED  BY <1>1, <1>3, <1>4, <1>5, RightlyJudged

LEMMA IdleLoadBalancer ==
  ASSUME NEW D, NEW s, Witnessed(D, s), AllOf(D, s, "balancer"), AllOf(D, s, "target-group")
  PROVE  Right(D, "idle-load-balancer", idle_load_balancer(s).finds)
<1> DEFINE W == {b \in In(s, "balancer", "active") :
                   {g \in Naming(s, "target-group", b) : "has-targets" \in s[g].is} = {}}
<1>1. Reports("idle-load-balancer", idle_load_balancer(s).finds, W)
  <2>1. idle_load_balancer(s).finds = Priced("idle-load-balancer", W)
    BY DEF idle_load_balancer
  <2> HIDE DEF W
  <2> QED  BY <2>1, PricedReports
<1>2. \A r : r \in W <=>
        /\ r \in DOMAIN s /\ s[r].kind = "balancer" /\ s[r].state = "active"
        /\ \A g \in DOMAIN s :
             s[g].kind = "target-group" /\ r \in s[g].refs => "has-targets" \notin s[g].is
  BY DEF In, Of, Naming
<1> HIDE DEF W
<1>3. ASSUME NEW r \in W, NEW u, InUse(D, u, r) PROVE FALSE
  <2>1. PICK b \in D : r \in DOMAIN b /\ s[r] = b[r]
    BY <1>2, WasSeen
  <2>2. b[r].kind = "balancer" /\ Keeps(b, u, r)
    BY <1>2, <1>3, <2>1 DEF InUse
  <2>3. b[u].kind = "target-group"
    BY <1>2, <2>1, <2>2, BalancerKept
  <2>4. u \in DOMAIN s /\ s[u].kind = "target-group"
    BY <1>2, <1>3, <2>3, UserIsSeen
  <2>5. PICK c \in D : s[u] = c[u] /\ Keeps(c, u, r) /\ c[r].kind = "balancer"
    BY <1>2, <1>3, <2>3, UserIsSeen
  <2>6. u # r
    BY <1>2, <2>4
  <2>7. r \in c[u].refs /\ "has-targets" \in c[u].is
    BY <2>5, <2>6, BalancerKept
  <2> QED  BY <1>2, <2>4, <2>5, <2>7
<1>4. ASSUME NEW r, Unused(D, r, "balancer") PROVE r \in W
  <2>1. r \in DOMAIN s /\ s[r].kind = "balancer" /\ \A a \in D : Idle(a, r)
    BY <1>4, IsSeen DEF Unused, Idle
  <2>2. \A x \in DOMAIN s : \E c \in D :
          s[x] = c[x] /\ ~ Keeps(c, x, r) /\ c[r].kind = "balancer"
    BY <2>1, NoUserSeen
  <2>3. s[r].state = "active"
    BY <2>1, <2>2, BalancerKept
  <2>4. \A g \in DOMAIN s :
          s[g].kind = "target-group" /\ r \in s[g].refs => "has-targets" \notin s[g].is
    BY <2>2, BalancerKept
  <2> QED  BY <1>2, <2>1, <2>3, <2>4
<1>5. \A k : <<"idle-load-balancer", k>> \in Judged => k = "balancer"
  BY DEF Judged
<1> QED  BY <1>1, <1>3, <1>4, <1>5, RightlyJudged

LEMMA OrphanedRdsSnapshot ==
  ASSUME NEW D, NEW s, Witnessed(D, s), AllOf(D, s, "database"), AllOf(D, s, "db-snapshot")
  PROVE  Right(D, "orphaned-rds-snapshot", orphaned_rds_snapshot(s).finds)
<1> DEFINE W == {r \in Unless(s, In(s, "db-snapshot", "available"), {"auto"}) :
                   s[r].refs # {} /\ s[r].refs \cap Of(s, "database") = {}}
<1>1. Reports("orphaned-rds-snapshot", orphaned_rds_snapshot(s).finds, W)
  <2>1. orphaned_rds_snapshot(s).finds = Estimated("orphaned-rds-snapshot", W)
    BY DEF orphaned_rds_snapshot
  <2> HIDE DEF W
  <2> QED  BY <2>1, EstimatedReports
<1>2. \A r : r \in W <=>
        /\ r \in DOMAIN s /\ s[r].kind = "db-snapshot" /\ s[r].state = "available"
        /\ "auto" \notin s[r].is /\ s[r].refs # {}
        /\ \A d \in s[r].refs : d \in DOMAIN s => s[d].kind # "database"
  BY DEF In, Of, Unless
<1> HIDE DEF W
<1>3. ASSUME NEW r \in W, NEW u, InUse(D, u, r) PROVE FALSE
  <2>1. PICK b \in D : r \in DOMAIN b /\ s[r] = b[r]
    BY <1>2, WasSeen
  <2>2. b[r].kind = "db-snapshot" /\ Keeps(b, u, r)
    BY <1>2, <1>3, <2>1 DEF InUse
  <2>3. u \in b[r].refs /\ b[u].kind = "database"
    BY <1>2, <2>1, <2>2, DbSnapshotKept
  <2>4. u \in DOMAIN s /\ s[u].kind = "database"
    BY <1>2, <1>3, <2>3, UserIsSeen
  <2> QED  BY <1>2, <2>1, <2>3, <2>4
<1>4. ASSUME NEW r, Unused(D, r, "db-snapshot") PROVE r \in W
  <2>1. r \in DOMAIN s /\ s[r].kind = "db-snapshot" /\ \A a \in D : Idle(a, r)
    BY <1>4, IsSeen DEF Unused, Idle
  <2>2. \A x \in DOMAIN s : \E c \in D :
          /\ s[x] = c[x] /\ ~ Keeps(c, x, r)
          /\ c[r].kind = "db-snapshot" /\ c[r].refs = s[r].refs
    BY <2>1, NoUserSeen DEF Fixed, CopyKinds
  <2>3. s[r].state = "available" /\ "auto" \notin s[r].is /\ s[r].refs # {}
    BY <2>1, <2>2, DbSnapshotKept
  <2>4. \A d \in s[r].refs : d \in DOMAIN s => s[d].kind # "database"
    BY <2>2, DbSnapshotKept
  <2> QED  BY <1>2, <2>1, <2>3, <2>4
<1>5. \A k : <<"orphaned-rds-snapshot", k>> \in Judged => k = "db-snapshot"
  BY DEF Judged
<1> QED  BY <1>1, <1>3, <1>4, <1>5, RightlyJudged

LEMMA UnusedRoute53HealthCheck ==
  ASSUME NEW D, NEW s, Witnessed(D, s), AllOf(D, s, "health-check"), AllOf(D, s, "zone")
  PROVE  Right(D, "unused-route53-health-check", unused_route53_health_check(s).finds)
<1> DEFINE W == Of(s, "health-check") \ UNION {s[z].refs : z \in Of(s, "zone")}
<1>1. Reports("unused-route53-health-check", unused_route53_health_check(s).finds, W)
  <2>1. unused_route53_health_check(s).finds = Estimated("unused-route53-health-check", W)
    BY DEF unused_route53_health_check
  <2> HIDE DEF W
  <2> QED  BY <2>1, EstimatedReports
<1>2. \A r : r \in W <=>
        /\ r \in DOMAIN s /\ s[r].kind = "health-check"
        /\ \A z \in DOMAIN s : s[z].kind = "zone" => r \notin s[z].refs
  BY DEF Of
<1> HIDE DEF W
<1>3. ASSUME NEW r \in W, NEW u, InUse(D, u, r) PROVE FALSE
  <2>1. PICK b \in D : r \in DOMAIN b /\ s[r] = b[r]
    BY <1>2, WasSeen
  <2>2. b[r].kind = "health-check" /\ Keeps(b, u, r)
    BY <1>2, <1>3, <2>1 DEF InUse
  <2>3. b[u].kind = "zone"
    BY <2>2, HealthCheckKept
  <2>4. u \in DOMAIN s /\ s[u].kind = "zone"
    BY <1>2, <1>3, <2>3, UserIsSeen
  <2>5. PICK c \in D : s[u] = c[u] /\ Keeps(c, u, r) /\ c[r].kind = "health-check"
    BY <1>2, <1>3, <2>3, UserIsSeen
  <2> QED  BY <1>2, <2>4, <2>5, HealthCheckKept
<1>4. ASSUME NEW r, Unused(D, r, "health-check") PROVE r \in W
  <2>1. r \in DOMAIN s /\ s[r].kind = "health-check" /\ \A a \in D : Idle(a, r)
    BY <1>4, IsSeen DEF Unused, Idle
  <2>2. \A x \in DOMAIN s : \E c \in D :
          s[x] = c[x] /\ ~ Keeps(c, x, r) /\ c[r].kind = "health-check"
    BY <2>1, NoUserSeen
  <2>3. \A z \in DOMAIN s : s[z].kind = "zone" => r \notin s[z].refs
    BY <2>2, HealthCheckKept
  <2> QED  BY <1>2, <2>1, <2>3
<1>5. \A k : <<"unused-route53-health-check", k>> \in Judged => k = "health-check"
  BY DEF Judged
<1> QED  BY <1>1, <1>3, <1>4, <1>5, RightlyJudged

LEMMA LightsailOrphanedSnapshot ==
  ASSUME NEW D, NEW s, Witnessed(D, s), AllOf(D, s, "ls-instance"), AllOf(D, s, "ls-disk"),
         AllOf(D, s, "ls-instance-snapshot"), AllOf(D, s, "ls-disk-snapshot")
  PROVE  Right(D, "lightsail-orphaned-snapshot", lightsail_orphaned_snapshot(s).finds)
<1> DEFINE live == Of(s, "ls-instance") \cup Of(s, "ls-disk")
           Orphaned(kind) == {x \in Unless(s, Of(s, kind), {"auto", "unnamed"}) :
                                s[x].refs \cap live = {}}
           W == Orphaned("ls-instance-snapshot") \cup Orphaned("ls-disk-snapshot")
<1>1. Reports("lightsail-orphaned-snapshot", lightsail_orphaned_snapshot(s).finds, W)
  <2>1. lightsail_orphaned_snapshot(s).finds =
          {LightsailFinding(x, "instance") : x \in Orphaned("ls-instance-snapshot")}
            \cup {LightsailFinding(x, "disk") : x \in Orphaned("ls-disk-snapshot")}
    BY DEF lightsail_orphaned_snapshot
  <2> HIDE DEF Orphaned
  <2> QED  BY <2>1, DetailedFindings DEF Reports
<1>2. \A r : r \in W <=>
        /\ r \in DOMAIN s /\ s[r].kind \in {"ls-instance-snapshot", "ls-disk-snapshot"}
        /\ "auto" \notin s[r].is /\ "unnamed" \notin s[r].is
        /\ \A x \in s[r].refs : x \in DOMAIN s => s[x].kind \notin {"ls-instance", "ls-disk"}
  BY DEF Of, Unless
<1> HIDE DEF W
<1>3. ASSUME NEW r \in W, NEW u, InUse(D, u, r) PROVE FALSE
  <2>1. PICK b \in D : r \in DOMAIN b /\ s[r] = b[r]
    BY <1>2, WasSeen
  <2>2. b[r].kind \in {"ls-instance-snapshot", "ls-disk-snapshot"} /\ Keeps(b, u, r)
    BY <1>2, <1>3, <2>1 DEF InUse
  <2>3. u \in b[r].refs /\ b[u].kind \in {"ls-instance", "ls-disk"}
    BY <1>2, <2>1, <2>2, LightsailInstanceSnapshotKept, LightsailDiskSnapshotKept
  <2>4. u \in DOMAIN s /\ s[u].kind \in {"ls-instance", "ls-disk"}
    BY <1>2, <1>3, <2>3, UserIsSeen
  <2> QED  BY <1>2, <2>1, <2>3, <2>4
<1>4. ASSUME NEW kind \in {"ls-instance-snapshot", "ls-disk-snapshot"},
             NEW r, Unused(D, r, kind)
      PROVE  r \in W
  <2>1. r \in DOMAIN s /\ s[r].kind = kind /\ \A a \in D : Idle(a, r)
    BY <1>4, IsSeen DEF Unused, Idle
  <2>2. \A x \in DOMAIN s : \E c \in D :
          s[x] = c[x] /\ ~ Keeps(c, x, r) /\ c[r].kind = kind /\ c[r].refs = s[r].refs
    BY <1>4, <2>1, NoUserSeen DEF Fixed, CopyKinds
  <2>3. "auto" \notin s[r].is /\ "unnamed" \notin s[r].is
    BY <2>1, <2>2, LightsailInstanceSnapshotKept, LightsailDiskSnapshotKept
  <2>4. \A x \in s[r].refs : x \in DOMAIN s => s[x].kind \notin {"ls-instance", "ls-disk"}
    BY <2>2, LightsailInstanceSnapshotKept, LightsailDiskSnapshotKept
  <2> QED  BY <1>2, <1>4, <2>1, <2>3, <2>4
<1>5. \A k : <<"lightsail-orphaned-snapshot", k>> \in Judged
             => k \in {"ls-instance-snapshot", "ls-disk-snapshot"}
  BY DEF Judged
<1> QED  BY <1>1, <1>3, <1>4, <1>5, RightlyJudged

(*****************************************************************************)
(* All checks.                                                               *)
(*****************************************************************************)
\* What the check lists, in order.
Listings(c) == CHECKS(c, Nothing).reads
\* All that the check lists was read, one kind at one moment unless its
\* resources are asked for one by one.
ReadAll(D, s, c) ==
  \A kind \in Range(Listings(c)) :
    AllOf(D, s, kind) /\ (kind \notin OneByOne(c) => AllAtOnce(D, s, kind))

LEMMA ReadsAre ==
  ASSUME NEW s
  PROVE
    /\ CHECKS("unattached-ebs", s).reads = <<"volume">>
    /\ CHECKS("orphaned-snapshot", s).reads = <<"volume", "image", "snapshot">>
    /\ CHECKS("unused-ami", s).reads = <<"instance", "image">>
    /\ CHECKS("unmounted-efs", s).reads = <<"file-system">>
    /\ CHECKS("incomplete-multipart-upload", s).reads = <<"bucket", "upload">>
    /\ CHECKS("ecr-stale-images", s).reads = <<"repository">>
    /\ CHECKS("stopped-instance", s).reads = <<"instance", "volume">>
    /\ CHECKS("unassociated-eip", s).reads = <<"address">>
    /\ CHECKS("available-eni", s).reads = <<"interface">>
    /\ CHECKS("detached-internet-gateway", s).reads = <<"gateway">>
    /\ CHECKS("unused-security-group", s).reads = <<"group", "interface">>
    /\ CHECKS("idle-nat-gateway", s).reads = <<"nat", "interface">>
    /\ CHECKS("unused-vpc-endpoint", s).reads = <<"endpoint", "interface">>
    /\ CHECKS("empty-vpc", s).reads = <<"vpc", "interface">>
    /\ CHECKS("idle-load-balancer", s).reads = <<"balancer", "target-group">>
    /\ CHECKS("empty-classic-lb", s).reads = <<"classic">>
    /\ CHECKS("stopped-rds-instance", s).reads = <<"database">>
    /\ CHECKS("orphaned-rds-snapshot", s).reads = <<"database", "db-snapshot">>
    /\ CHECKS("idle-provisioned-dynamodb", s).reads = <<"table">>
    /\ CHECKS("log-group-no-retention", s).reads = <<"log-group">>
    /\ CHECKS("disabled-kms-key", s).reads = <<"key">>
    /\ CHECKS("stale-secret", s).reads = <<"secret">>
    /\ CHECKS("unused-route53-health-check", s).reads = <<"health-check", "zone">>
    /\ CHECKS("unused-route53-zone", s).reads = <<"zone">>
    /\ CHECKS("lightsail-stopped-instance", s).reads = <<"ls-instance">>
    /\ CHECKS("lightsail-unattached-disk", s).reads = <<"ls-disk">>
    /\ CHECKS("lightsail-unattached-static-ip", s).reads = <<"ls-ip">>
    /\ CHECKS("lightsail-empty-load-balancer", s).reads = <<"ls-balancer">>
    /\ CHECKS("lightsail-idle-container-service", s).reads = <<"ls-service">>
    /\ CHECKS("lightsail-orphaned-snapshot", s).reads =
         <<"ls-instance", "ls-disk", "ls-instance-snapshot", "ls-disk-snapshot">>
<1>1. CHECKS("unattached-ebs", s).reads = <<"volume">>
  BY DEF CHECKS, unattached_ebs
<1>2. CHECKS("orphaned-snapshot", s).reads = <<"volume", "image", "snapshot">>
  BY DEF CHECKS, orphaned_snapshots
<1>3. CHECKS("unused-ami", s).reads = <<"instance", "image">>
  BY DEF CHECKS, unused_ami
<1>4. CHECKS("unmounted-efs", s).reads = <<"file-system">>
  BY DEF CHECKS, unmounted_efs
<1>5. CHECKS("incomplete-multipart-upload", s).reads = <<"bucket", "upload">>
  BY DEF CHECKS, incomplete_multipart_upload
<1>6. CHECKS("ecr-stale-images", s).reads = <<"repository">>
  BY DEF CHECKS, ecr_stale_images
<1>7. CHECKS("stopped-instance", s).reads = <<"instance", "volume">>
  BY DEF CHECKS, stopped_instances
<1>8. CHECKS("unassociated-eip", s).reads = <<"address">>
  BY DEF CHECKS, unassociated_eip
<1>9. CHECKS("available-eni", s).reads = <<"interface">>
  BY DEF CHECKS, available_eni, simple_check
<1>10. CHECKS("detached-internet-gateway", s).reads = <<"gateway">>
  BY DEF CHECKS, detached_internet_gateway, simple_check
<1>11. CHECKS("unused-security-group", s).reads = <<"group", "interface">>
  BY DEF CHECKS, unused_security_group
<1>12. CHECKS("idle-nat-gateway", s).reads = <<"nat", "interface">>
  BY DEF CHECKS, idle_nat_gateway
<1>13. CHECKS("unused-vpc-endpoint", s).reads = <<"endpoint", "interface">>
  BY DEF CHECKS, unused_vpc_endpoint
<1>14. CHECKS("empty-vpc", s).reads = <<"vpc", "interface">>
  BY DEF CHECKS, empty_vpc
<1>15. CHECKS("idle-load-balancer", s).reads = <<"balancer", "target-group">>
  BY DEF CHECKS, idle_load_balancer
<1>16. CHECKS("empty-classic-lb", s).reads = <<"classic">>
  BY DEF CHECKS, classic_load_balancer
<1>17. CHECKS("stopped-rds-instance", s).reads = <<"database">>
  BY DEF CHECKS, stopped_rds_instance
<1>18. CHECKS("orphaned-rds-snapshot", s).reads = <<"database", "db-snapshot">>
  BY DEF CHECKS, orphaned_rds_snapshot
<1>19. CHECKS("idle-provisioned-dynamodb", s).reads = <<"table">>
  BY DEF CHECKS, idle_provisioned_dynamodb
<1>20. CHECKS("log-group-no-retention", s).reads = <<"log-group">>
  BY DEF CHECKS, log_group_no_retention
<1>21. CHECKS("disabled-kms-key", s).reads = <<"key">>
  BY DEF CHECKS, disabled_kms_key
<1>22. CHECKS("stale-secret", s).reads = <<"secret">>
  BY DEF CHECKS, stale_secret
<1>23. CHECKS("unused-route53-health-check", s).reads = <<"health-check", "zone">>
  BY DEF CHECKS, unused_route53_health_check
<1>24. CHECKS("unused-route53-zone", s).reads = <<"zone">>
  BY DEF CHECKS, unused_route53_zone
<1>25. CHECKS("lightsail-stopped-instance", s).reads = <<"ls-instance">>
  BY DEF CHECKS, lightsail_stopped_instance
<1>26. CHECKS("lightsail-unattached-disk", s).reads = <<"ls-disk">>
  BY DEF CHECKS, lightsail_unattached_disk
<1>27. CHECKS("lightsail-unattached-static-ip", s).reads = <<"ls-ip">>
  BY DEF CHECKS, lightsail_unattached_static_ip
<1>28. CHECKS("lightsail-empty-load-balancer", s).reads = <<"ls-balancer">>
  BY DEF CHECKS, lightsail_empty_load_balancer
<1>29. CHECKS("lightsail-idle-container-service", s).reads = <<"ls-service">>
  BY DEF CHECKS, lightsail_idle_container_service
<1>30. CHECKS("lightsail-orphaned-snapshot", s).reads =
         <<"ls-instance", "ls-disk", "ls-instance-snapshot", "ls-disk-snapshot">>
  BY DEF CHECKS, lightsail_orphaned_snapshot
<1> QED  BY <1>1, <1>2, <1>3, <1>4, <1>5, <1>6, <1>7, <1>8, <1>9, <1>10, <1>11, <1>12, <1>13,
         <1>14, <1>15, <1>16, <1>17, <1>18, <1>19, <1>20, <1>21, <1>22, <1>23, <1>24, <1>25,
         <1>26, <1>27, <1>28, <1>29, <1>30

LEMMA TupleRange ==
  /\ \A x : Range(<<x>>) = {x}
  /\ \A x, y : Range(<<x, y>>) = {x, y}
  /\ \A x, y, z : Range(<<x, y, z>>) = {x, y, z}
  /\ \A x, y, z, w : Range(<<x, y, z, w>>) = {x, y, z, w}
<1>1. \A x : Range(<<x>>) = {x}
  BY DEF Range
<1>2. \A x, y : Range(<<x, y>>) = {x, y}
  BY DEF Range
<1>3. \A x, y, z : Range(<<x, y, z>>) = {x, y, z}
  BY DEF Range
<1>4. \A x, y, z, w : Range(<<x, y, z, w>>) = {x, y, z, w}
  BY DEF Range
<1> QED  BY <1>1, <1>2, <1>3, <1>4

LEMMA EveryCheckIsRight ==
  ASSUME NEW D, NEW s, NEW c \in CheckNames, Witnessed(D, s), ReadAll(D, s, c)
  PROVE  Right(D, c, CHECKS(c, s).finds)
<1>1. CASE c = "unattached-ebs"
  <2>0. Listings(c) = <<"volume">>
    BY <1>1, ReadsAre DEF Listings
  <2>1. Range(Listings(c)) = {"volume"}
    BY <2>0, TupleRange
  <2>2. CHECKS(c, s) = unattached_ebs(s)
    BY <1>1 DEF CHECKS
  <2> QED  BY <1>1, <2>1, <2>2, UnattachedEbs DEF ReadAll
<1>2. CASE c = "orphaned-snapshot"
  <2>0. Listings(c) = <<"volume", "image", "snapshot">>
    BY <1>2, ReadsAre DEF Listings
  <2>1. Range(Listings(c)) = {"volume", "image", "snapshot"}
    BY <2>0, TupleRange
  <2>2. CHECKS(c, s) = orphaned_snapshots(s)
    BY <1>2 DEF CHECKS
  <2> QED  BY <1>2, <2>1, <2>2, OrphanedSnapshots DEF ReadAll
<1>3. CASE c = "unused-ami"
  <2>0. Listings(c) = <<"instance", "image">>
    BY <1>3, ReadsAre DEF Listings
  <2>1. Range(Listings(c)) = {"instance", "image"}
    BY <2>0, TupleRange
  <2>2. CHECKS(c, s) = unused_ami(s)
    BY <1>3 DEF CHECKS
  <2> QED  BY <1>3, <2>1, <2>2, UnusedAmi DEF ReadAll
<1>4. CASE c = "unmounted-efs"
  <2>0. Listings(c) = <<"file-system">>
    BY <1>4, ReadsAre DEF Listings
  <2>1. Range(Listings(c)) = {"file-system"}
    BY <2>0, TupleRange
  <2>2. CHECKS(c, s) = unmounted_efs(s)
    BY <1>4 DEF CHECKS
  <2> QED  BY <1>4, <2>1, <2>2, UnmountedEfs DEF ReadAll
<1>5. CASE c = "incomplete-multipart-upload"
  <2>0. Listings(c) = <<"bucket", "upload">>
    BY <1>5, ReadsAre DEF Listings
  <2>1. Range(Listings(c)) = {"bucket", "upload"}
    BY <2>0, TupleRange
  <2>2. CHECKS(c, s) = incomplete_multipart_upload(s)
    BY <1>5 DEF CHECKS
  <2> QED  BY <1>5, <2>1, <2>2, IncompleteMultipartUpload DEF ReadAll
<1>6. CASE c = "ecr-stale-images"
  <2>0. Listings(c) = <<"repository">>
    BY <1>6, ReadsAre DEF Listings
  <2>1. Range(Listings(c)) = {"repository"}
    BY <2>0, TupleRange
  <2>2. CHECKS(c, s) = ecr_stale_images(s)
    BY <1>6 DEF CHECKS
  <2> QED  BY <1>6, <2>1, <2>2, EcrStaleImages DEF ReadAll
<1>7. CASE c = "stopped-instance"
  <2>0. Listings(c) = <<"instance", "volume">>
    BY <1>7, ReadsAre DEF Listings
  <2>1. Range(Listings(c)) = {"instance", "volume"}
    BY <2>0, TupleRange
  <2>2. CHECKS(c, s) = stopped_instances(s)
    BY <1>7 DEF CHECKS
  <2> QED  BY <1>7, <2>1, <2>2, StoppedInstances DEF ReadAll, OneByOne
<1>8. CASE c = "unassociated-eip"
  <2>0. Listings(c) = <<"address">>
    BY <1>8, ReadsAre DEF Listings
  <2>1. Range(Listings(c)) = {"address"}
    BY <2>0, TupleRange
  <2>2. CHECKS(c, s) = unassociated_eip(s)
    BY <1>8 DEF CHECKS
  <2> QED  BY <1>8, <2>1, <2>2, UnassociatedEip DEF ReadAll
<1>9. CASE c = "available-eni"
  <2>0. Listings(c) = <<"interface">>
    BY <1>9, ReadsAre DEF Listings
  <2>1. Range(Listings(c)) = {"interface"}
    BY <2>0, TupleRange
  <2>2. CHECKS(c, s) = available_eni(s)
    BY <1>9 DEF CHECKS
  <2> QED  BY <1>9, <2>1, <2>2, AvailableEni DEF ReadAll
<1>10. CASE c = "detached-internet-gateway"
  <2>0. Listings(c) = <<"gateway">>
    BY <1>10, ReadsAre DEF Listings
  <2>1. Range(Listings(c)) = {"gateway"}
    BY <2>0, TupleRange
  <2>2. CHECKS(c, s) = detached_internet_gateway(s)
    BY <1>10 DEF CHECKS
  <2> QED  BY <1>10, <2>1, <2>2, DetachedInternetGateway DEF ReadAll
<1>11. CASE c = "unused-security-group"
  <2>0. Listings(c) = <<"group", "interface">>
    BY <1>11, ReadsAre DEF Listings
  <2>1. Range(Listings(c)) = {"group", "interface"}
    BY <2>0, TupleRange
  <2>2. CHECKS(c, s) = unused_security_group(s)
    BY <1>11 DEF CHECKS
  <2> QED  BY <1>11, <2>1, <2>2, UnusedSecurityGroup DEF ReadAll
<1>12. CASE c = "idle-nat-gateway"
  <2>0. Listings(c) = <<"nat", "interface">>
    BY <1>12, ReadsAre DEF Listings
  <2>1. Range(Listings(c)) = {"nat", "interface"}
    BY <2>0, TupleRange
  <2>2. CHECKS(c, s) = idle_nat_gateway(s)
    BY <1>12 DEF CHECKS
  <2> QED  BY <1>12, <2>1, <2>2, IdleNatGateway DEF ReadAll
<1>13. CASE c = "unused-vpc-endpoint"
  <2>0. Listings(c) = <<"endpoint", "interface">>
    BY <1>13, ReadsAre DEF Listings
  <2>1. Range(Listings(c)) = {"endpoint", "interface"}
    BY <2>0, TupleRange
  <2>2. CHECKS(c, s) = unused_vpc_endpoint(s)
    BY <1>13 DEF CHECKS
  <2> QED  BY <1>13, <2>1, <2>2, UnusedVpcEndpoint DEF ReadAll
<1>14. CASE c = "empty-vpc"
  <2>0. Listings(c) = <<"vpc", "interface">>
    BY <1>14, ReadsAre DEF Listings
  <2>1. Range(Listings(c)) = {"vpc", "interface"}
    BY <2>0, TupleRange
  <2>2. CHECKS(c, s) = empty_vpc(s)
    BY <1>14 DEF CHECKS
  <2> QED  BY <1>14, <2>1, <2>2, EmptyVpc DEF ReadAll
<1>15. CASE c = "idle-load-balancer"
  <2>0. Listings(c) = <<"balancer", "target-group">>
    BY <1>15, ReadsAre DEF Listings
  <2>1. Range(Listings(c)) = {"balancer", "target-group"}
    BY <2>0, TupleRange
  <2>2. CHECKS(c, s) = idle_load_balancer(s)
    BY <1>15 DEF CHECKS
  <2> QED  BY <1>15, <2>1, <2>2, IdleLoadBalancer DEF ReadAll
<1>16. CASE c = "empty-classic-lb"
  <2>0. Listings(c) = <<"classic">>
    BY <1>16, ReadsAre DEF Listings
  <2>1. Range(Listings(c)) = {"classic"}
    BY <2>0, TupleRange
  <2>2. CHECKS(c, s) = classic_load_balancer(s)
    BY <1>16 DEF CHECKS
  <2> QED  BY <1>16, <2>1, <2>2, ClassicLoadBalancer DEF ReadAll
<1>17. CASE c = "stopped-rds-instance"
  <2>0. Listings(c) = <<"database">>
    BY <1>17, ReadsAre DEF Listings
  <2>1. Range(Listings(c)) = {"database"}
    BY <2>0, TupleRange
  <2>2. CHECKS(c, s) = stopped_rds_instance(s)
    BY <1>17 DEF CHECKS
  <2> QED  BY <1>17, <2>1, <2>2, StoppedRdsInstance DEF ReadAll
<1>18. CASE c = "orphaned-rds-snapshot"
  <2>0. Listings(c) = <<"database", "db-snapshot">>
    BY <1>18, ReadsAre DEF Listings
  <2>1. Range(Listings(c)) = {"database", "db-snapshot"}
    BY <2>0, TupleRange
  <2>2. CHECKS(c, s) = orphaned_rds_snapshot(s)
    BY <1>18 DEF CHECKS
  <2> QED  BY <1>18, <2>1, <2>2, OrphanedRdsSnapshot DEF ReadAll
<1>19. CASE c = "idle-provisioned-dynamodb"
  <2>0. Listings(c) = <<"table">>
    BY <1>19, ReadsAre DEF Listings
  <2>1. Range(Listings(c)) = {"table"}
    BY <2>0, TupleRange
  <2>2. CHECKS(c, s) = idle_provisioned_dynamodb(s)
    BY <1>19 DEF CHECKS
  <2> QED  BY <1>19, <2>1, <2>2, IdleProvisionedDynamodb DEF ReadAll
<1>20. CASE c = "log-group-no-retention"
  <2>0. Listings(c) = <<"log-group">>
    BY <1>20, ReadsAre DEF Listings
  <2>1. Range(Listings(c)) = {"log-group"}
    BY <2>0, TupleRange
  <2>2. CHECKS(c, s) = log_group_no_retention(s)
    BY <1>20 DEF CHECKS
  <2> QED  BY <1>20, <2>1, <2>2, LogGroupNoRetention DEF ReadAll
<1>21. CASE c = "disabled-kms-key"
  <2>0. Listings(c) = <<"key">>
    BY <1>21, ReadsAre DEF Listings
  <2>1. Range(Listings(c)) = {"key"}
    BY <2>0, TupleRange
  <2>2. CHECKS(c, s) = disabled_kms_key(s)
    BY <1>21 DEF CHECKS
  <2> QED  BY <1>21, <2>1, <2>2, DisabledKmsKey DEF ReadAll
<1>22. CASE c = "stale-secret"
  <2>0. Listings(c) = <<"secret">>
    BY <1>22, ReadsAre DEF Listings
  <2>1. Range(Listings(c)) = {"secret"}
    BY <2>0, TupleRange
  <2>2. CHECKS(c, s) = stale_secret(s)
    BY <1>22 DEF CHECKS
  <2> QED  BY <1>22, <2>1, <2>2, StaleSecret DEF ReadAll
<1>23. CASE c = "unused-route53-health-check"
  <2>0. Listings(c) = <<"health-check", "zone">>
    BY <1>23, ReadsAre DEF Listings
  <2>1. Range(Listings(c)) = {"health-check", "zone"}
    BY <2>0, TupleRange
  <2>2. CHECKS(c, s) = unused_route53_health_check(s)
    BY <1>23 DEF CHECKS
  <2> QED  BY <1>23, <2>1, <2>2, UnusedRoute53HealthCheck DEF ReadAll
<1>24. CASE c = "unused-route53-zone"
  <2>0. Listings(c) = <<"zone">>
    BY <1>24, ReadsAre DEF Listings
  <2>1. Range(Listings(c)) = {"zone"}
    BY <2>0, TupleRange
  <2>2. CHECKS(c, s) = unused_route53_zone(s)
    BY <1>24 DEF CHECKS
  <2> QED  BY <1>24, <2>1, <2>2, UnusedZone DEF ReadAll
<1>25. CASE c = "lightsail-stopped-instance"
  <2>0. Listings(c) = <<"ls-instance">>
    BY <1>25, ReadsAre DEF Listings
  <2>1. Range(Listings(c)) = {"ls-instance"}
    BY <2>0, TupleRange
  <2>2. CHECKS(c, s) = lightsail_stopped_instance(s)
    BY <1>25 DEF CHECKS
  <2> QED  BY <1>25, <2>1, <2>2, LightsailStoppedInstance DEF ReadAll
<1>26. CASE c = "lightsail-unattached-disk"
  <2>0. Listings(c) = <<"ls-disk">>
    BY <1>26, ReadsAre DEF Listings
  <2>1. Range(Listings(c)) = {"ls-disk"}
    BY <2>0, TupleRange
  <2>2. CHECKS(c, s) = lightsail_unattached_disk(s)
    BY <1>26 DEF CHECKS
  <2> QED  BY <1>26, <2>1, <2>2, LightsailUnattachedDisk DEF ReadAll
<1>27. CASE c = "lightsail-unattached-static-ip"
  <2>0. Listings(c) = <<"ls-ip">>
    BY <1>27, ReadsAre DEF Listings
  <2>1. Range(Listings(c)) = {"ls-ip"}
    BY <2>0, TupleRange
  <2>2. CHECKS(c, s) = lightsail_unattached_static_ip(s)
    BY <1>27 DEF CHECKS
  <2> QED  BY <1>27, <2>1, <2>2, LightsailUnattachedStaticIp DEF ReadAll
<1>28. CASE c = "lightsail-empty-load-balancer"
  <2>0. Listings(c) = <<"ls-balancer">>
    BY <1>28, ReadsAre DEF Listings
  <2>1. Range(Listings(c)) = {"ls-balancer"}
    BY <2>0, TupleRange
  <2>2. CHECKS(c, s) = lightsail_empty_load_balancer(s)
    BY <1>28 DEF CHECKS
  <2> QED  BY <1>28, <2>1, <2>2, LightsailEmptyLoadBalancer DEF ReadAll
<1>29. CASE c = "lightsail-idle-container-service"
  <2>0. Listings(c) = <<"ls-service">>
    BY <1>29, ReadsAre DEF Listings
  <2>1. Range(Listings(c)) = {"ls-service"}
    BY <2>0, TupleRange
  <2>2. CHECKS(c, s) = lightsail_idle_container_service(s)
    BY <1>29 DEF CHECKS
  <2> QED  BY <1>29, <2>1, <2>2, LightsailIdleContainerService DEF ReadAll
<1>30. CASE c = "lightsail-orphaned-snapshot"
  <2>0. Listings(c) = <<"ls-instance", "ls-disk", "ls-instance-snapshot", "ls-disk-snapshot">>
    BY <1>30, ReadsAre DEF Listings
  <2>1. Range(Listings(c)) = {"ls-instance", "ls-disk", "ls-instance-snapshot", "ls-disk-snapshot"}
    BY <2>0, TupleRange
  <2>2. CHECKS(c, s) = lightsail_orphaned_snapshot(s)
    BY <1>30 DEF CHECKS
  <2> QED  BY <1>30, <2>1, <2>2, LightsailOrphanedSnapshot DEF ReadAll
<1> QED  BY <1>1, <1>2, <1>3, <1>4, <1>5, <1>6, <1>7, <1>8, <1>9, <1>10, <1>11, <1>12, <1>13,
         <1>14, <1>15, <1>16, <1>17, <1>18, <1>19, <1>20, <1>21, <1>22, <1>23, <1>24, <1>25,
         <1>26, <1>27,
        <1>28, <1>29, <1>30 DEF CheckNames

(*****************************************************************************)
(* What the cleaners' calls leave is an account AWS would keep.              *)
(*****************************************************************************)
SoundAt(a, x) ==
  /\ a[x].kind \in Kinds /\ a[x].is \subseteq Facts
  /\ a[x].kind \in Holding => a[x].refs \subseteq DOMAIN a
  /\ a[x].kind = "volume" /\ a[x].state = "available" => a[x].refs = {}

LEMMA SoundEachWay ==
  ASSUME NEW a PROVE Sound(a) <=> \A x \in DOMAIN a : SoundAt(a, x)
BY DEF Sound, SoundAt

LEMMA CopiesAreSound ==
  ASSUME NEW a, Sound(a), NEW of, NEW kind \in CopyKinds
  PROVE  Sound(WithCopies(a, of, kind))
<1> DEFINE c == WithCopies(a, of, kind)
<1>1. DOMAIN a \subseteq DOMAIN c /\ \A x \in DOMAIN a : c[x] = a[x]
  BY DEF WithCopies
<1>2. \A x \in DOMAIN c \ DOMAIN a : c[x].kind = kind /\ c[x].is = {}
  BY DEF WithCopies, Resource
<1>3. kind \in Kinds
  <2>1. kind \in {"snapshot", "ls-instance-snapshot", "ls-disk-snapshot"} \/ kind = "db-snapshot"
    BY DEF CopyKinds
  <2>2. <<"db-snapshot", "available">> \in AtRest
    BY AtRestIs
  <2>3. "db-snapshot" \in {s[1] : s \in AtRest}
    BY <2>2
  <2> QED  BY <2>1, <2>3 DEF Kinds
<1>4. kind \notin Holding /\ kind # "volume"
  BY DEF CopyKinds, Holding
<1> HIDE DEF c
<1>5. ASSUME NEW x \in DOMAIN c PROVE SoundAt(c, x)
  <2>1. CASE x \in DOMAIN a
    BY <1>1, <2>1, SoundEachWay DEF SoundAt
  <2>2. CASE x \notin DOMAIN a
    BY <1>2, <1>3, <1>4, <1>5, <2>2 DEF SoundAt
  <2> QED  BY <2>1, <2>2
<1> QED  BY <1>5, SoundEachWay DEF c

LEMMA RemovalIsSound ==
  ASSUME NEW a, Sound(a), NEW r
  PROVE  Sound(Removed(a, r))
<1> DEFINE c == Removed(a, r)
           gone == FallsWith(a, r)
<1>1. DOMAIN c = DOMAIN a \ gone
  BY DEF Removed
<1>2. ASSUME NEW x \in DOMAIN c
      PROVE  /\ c[x].kind = a[x].kind /\ c[x].is = a[x].is
             /\ a[x].kind \in Holding => c[x].refs = a[x].refs \ gone
             /\ a[x].kind = "volume" /\ c[x].state = "available" => c[x].refs = {}
  <2>1. x \in DOMAIN a
    BY <1>1, <1>2
  <2>2. CASE a[x].kind \in Holding /\ a[x].refs \cap gone # {}
    <3>1. c[x] = [a[x] EXCEPT !.refs = @ \ gone,
                              !.state = IF a[x].kind = "volume" /\ a[x].refs \subseteq gone
                                        THEN "available" ELSE @]
      BY <1>1, <1>2, <2>2 DEF Removed
    <3> QED  BY <2>1, <2>2, <3>1 DEF Sound
  <2>3. CASE ~ (a[x].kind \in Holding /\ a[x].refs \cap gone # {})
    <3>1. c[x] = a[x]
      BY <1>1, <1>2, <2>3 DEF Removed
    <3> QED  BY <2>1, <2>3, <3>1 DEF Sound
  <2> QED  BY <2>2, <2>3
<1> HIDE DEF c, gone
<1>3. ASSUME NEW x \in DOMAIN c PROVE SoundAt(c, x)
  <2>1. SoundAt(a, x)
    BY <1>1, <1>3, SoundEachWay
  <2> QED  BY <1>1, <1>2, <1>3, <2>1 DEF SoundAt
<1> QED  BY <1>3, SoundEachWay DEF c

LEMMA ImageIsSound ==
  ASSUME NEW a, Sound(a), NEW i, NEW refs, refs \subseteq DOMAIN a
  PROVE  Sound(With(a, i, Resource("image", "none", refs, {"young"})))
<1> DEFINE c == With(a, i, Resource("image", "none", refs, {"young"}))
<1>1. DOMAIN c = DOMAIN a \cup {i} /\ \A x \in DOMAIN a : x # i => c[x] = a[x]
  BY DEF With
<1>2. /\ c[i].kind = "image" /\ c[i].refs = refs /\ c[i].is = {"young"}
  BY DEF With, Resource
<1>3. "image" \in Kinds
  BY DEF Kinds
<1>4. "young" \in Facts
  <2>1. <<"image", "young">> \in Sparing
    BY SparingIs
  <2> QED  BY <2>1 DEF Facts
<1> HIDE DEF c
<1>5. ASSUME NEW x \in DOMAIN c PROVE SoundAt(c, x)
  <2>1. CASE x # i
    BY <1>1, <2>1, SoundEachWay DEF SoundAt
  <2>2. CASE x = i
    BY <1>1, <1>2, <1>3, <1>4, <2>2 DEF SoundAt
  <2> QED  BY <2>1, <2>2
<1> QED  BY <1>5, SoundEachWay DEF c

LEMMA TurnedIsSound ==
  ASSUME NEW a, Sound(a), NEW r \in DOMAIN a, NEW fact \in Facts
  PROVE  Sound(Turned(a, r, fact))
<1> DEFINE c == Turned(a, r, fact)
<1>1. DOMAIN c = DOMAIN a
  BY DEF Turned
<1>2. ASSUME NEW x \in DOMAIN c
      PROVE  /\ c[x].kind = a[x].kind /\ c[x].refs = a[x].refs /\ c[x].state = a[x].state
             /\ c[x].is \subseteq a[x].is \cup {fact}
  <2>1. CASE x = r
    <3>1. c[x] = [a[x] EXCEPT !.is = @ \cup {fact}]
      BY <1>1, <1>2, <2>1 DEF Turned
    <3> QED  BY <3>1
  <2>2. CASE x # r
    BY <1>1, <1>2, <2>2 DEF Turned
  <2> QED  BY <2>1, <2>2
<1> HIDE DEF c
<1>3. ASSUME NEW x \in DOMAIN c PROVE SoundAt(c, x)
  <2>1. SoundAt(a, x)
    BY <1>1, <1>3, SoundEachWay
  <2> QED  BY <1>1, <1>2, <1>3, <2>1 DEF SoundAt
<1> QED  BY <1>3, SoundEachWay DEF c

LEMMA TurnedToIsSound ==
  ASSUME NEW a, Sound(a), NEW r \in DOMAIN a, NEW state, state # "available"
  PROVE  Sound(TurnedTo(a, r, state))
<1> DEFINE c == TurnedTo(a, r, state)
<1>1. DOMAIN c = DOMAIN a
  BY DEF TurnedTo
<1>2. ASSUME NEW x \in DOMAIN c
      PROVE  /\ c[x].kind = a[x].kind /\ c[x].refs = a[x].refs /\ c[x].is = a[x].is
             /\ c[x].state = a[x].state \/ c[x].state # "available"
  <2>1. CASE x = r
    <3>1. c[x] = [a[x] EXCEPT !.state = state]
      BY <1>1, <1>2, <2>1 DEF TurnedTo
    <3> QED  BY <3>1
  <2>2. CASE x # r
    BY <1>1, <1>2, <2>2 DEF TurnedTo
  <2> QED  BY <2>1, <2>2
<1> HIDE DEF c
<1>3. ASSUME NEW x \in DOMAIN c PROVE SoundAt(c, x)
  <2>1. SoundAt(a, x)
    BY <1>1, <1>3, SoundEachWay
  <2> QED  BY <1>1, <1>2, <1>3, <2>1 DEF SoundAt
<1> QED  BY <1>3, SoundEachWay DEF c

LEMMA CallIsSound ==
  ASSUME NEW a, Sound(a), NEW operation, NEW r \in DOMAIN a
  PROVE  Sound(CallEffect(a, operation, r))
<1>1. CASE operation \in {"ec2.create_snapshot", "lightsail.create_disk_snapshot",
                          "lightsail.create_instance_snapshot"}
  <2>1. \E kind \in CopyKinds : CallEffect(a, operation, r) = WithCopies(a, {r}, kind)
    BY <1>1 DEF CallEffect, CopyKinds
  <2> QED  BY <2>1, CopiesAreSound
<1>2. CASE operation = "ec2.create_image"
  <2> DEFINE volumes == Naming(a, "volume", r)
             copied == WithCopies(a, volumes, "snapshot")
  <2>1. CallEffect(a, operation, r) =
          With(copied, CopyOf(r), Resource("image", "none", {CopyOf(v) : v \in volumes}, {"young"}))
    BY <1>2 DEF CallEffect
  <2>2. "snapshot" \in CopyKinds
    BY DEF CopyKinds
  <2>3. Sound(copied)
    BY <2>2, CopiesAreSound
  <2>4. {CopyOf(v) : v \in volumes} \subseteq DOMAIN copied
    BY DEF WithCopies
  <2> HIDE DEF volumes, copied
  <2> QED  BY <2>1, <2>3, <2>4, ImageIsSound
<1>3. CASE operation = "rds.delete_db_instance"
  <2>1. CallEffect(a, operation, r) = Removed(WithCopies(a, {r}, "db-snapshot"), r)
    BY <1>3 DEF CallEffect
  <2>2. "db-snapshot" \in CopyKinds
    BY DEF CopyKinds
  <2> QED  BY <2>1, <2>2, CopiesAreSound, RemovalIsSound
<1>4. CASE operation \in {"logs.put_retention_policy", "secretsmanager.delete_secret"}
  <2>1. \E fact \in {"retention", "deleted"} : CallEffect(a, operation, r) = Turned(a, r, fact)
    BY <1>4 DEF CallEffect
  <2>2. {"retention", "deleted"} \subseteq Facts
    <3>1. <<"log-group", "retention">> \in Sparing /\ <<"secret", "deleted">> \in Sparing
      BY SparingIs
    <3> QED  BY <3>1 DEF Facts
  <2> QED  BY <2>1, <2>2, TurnedIsSound
<1>5. CASE operation \in {"kms.schedule_key_deletion", "lightsail.update_container_service"}
  <2>1. \E state \in {"PendingDeletion", "DISABLED"} :
          CallEffect(a, operation, r) = TurnedTo(a, r, state)
    BY <1>5 DEF CallEffect
  <2> QED  BY <2>1, TurnedToIsSound
<1>6. CASE operation \notin
         {"ec2.create_snapshot", "lightsail.create_disk_snapshot",
          "lightsail.create_instance_snapshot", "ec2.create_image", "rds.delete_db_instance",
          "logs.put_retention_policy", "secretsmanager.delete_secret",
          "kms.schedule_key_deletion", "lightsail.update_container_service"}
  <2>1. CallEffect(a, operation, r) = Removed(a, r)
    BY <1>6 DEF CallEffect
  <2> QED  BY <2>1, RemovalIsSound
<1> QED  BY <1>1, <1>2, <1>3, <1>4, <1>5, <1>6

(*****************************************************************************)
(* How far the reading of a check has come.                                  *)
(*****************************************************************************)
\* What there was of the kind at one moment was read then or, of a kind asked
\* for one by one, has been read or is pending.
Came(D, s, p, c, kind) ==
  \E a \in D : \A x \in Of(a, kind) :
    IF kind \in OneByOne(c) THEN x \in DOMAIN s \cup p ELSE x \in DOMAIN s /\ s[x] = a[x]

\* The check has returned early: there was none of what it judges.
CutShort(D, s, p, l, c) ==
  /\ c \in ReturnEarly /\ DOMAIN s = {} /\ p = {} /\ l = <<>>
  /\ \E a \in D : Of(a, Listings(c)[1]) = {}

\* Of a check with the listings l still to make and p pending, s is what it
\* read while the accounts there were were D.
Reads(D, s, p, l, c) ==
  /\ Witnessed(D, s)
  /\ \A x \in DOMAIN s : s[x].kind \in Range(Listings(c))
  /\ \A x \in p : \E a \in D :
       x \in DOMAIN a /\ a[x].kind \in OneByOne(c) /\ a[x].kind \in Range(Listings(c))
  /\ l \in Seq(Range(Listings(c))) /\ Len(l) <= Len(Listings(c))
  /\ Len(l) = Len(Listings(c)) => l = Listings(c) /\ DOMAIN s = {} /\ p = {}
  /\ \/ CutShort(D, s, p, l, c)
     \/ \A kind \in Range(Listings(c)) : kind \in Range(l) \/ Came(D, s, p, c, kind)

LEMMA TuplesAreSequences ==
  ASSUME NEW l,
         \/ \E x : l = <<x>>
         \/ \E x, y : l = <<x, y>>
         \/ \E x, y, z : l = <<x, y, z>>
         \/ \E x, y, z, w : l = <<x, y, z, w>>
  PROVE  l \in Seq(Range(l)) /\ Len(l) \in Nat \ {0}
<1>1. \A S : \A x \in S : <<x>> \in Seq(S)
  OBVIOUS
<1>2. \A S : \A x, y \in S : <<x, y>> \in Seq(S)
  OBVIOUS
<1>3. \A S : \A x, y, z \in S : <<x, y, z>> \in Seq(S)
  OBVIOUS
<1>4. \A S : \A x, y, z, w \in S : <<x, y, z, w>> \in Seq(S)
  OBVIOUS
<1>5. l \in Seq(Range(l))
  <2>1. CASE \E x : l = <<x>>
    <3>1. PICK x : l = <<x>>
      BY <2>1
    <3>2. x \in Range(l)
      BY <3>1, TupleRange
    <3> QED  BY <1>1, <3>1, <3>2
  <2>2. CASE \E x, y : l = <<x, y>>
    <3>1. PICK x, y : l = <<x, y>>
      BY <2>2
    <3>2. x \in Range(l) /\ y \in Range(l)
      BY <3>1, TupleRange
    <3> QED  BY <1>2, <3>1, <3>2
  <2>3. CASE \E x, y, z : l = <<x, y, z>>
    <3>1. PICK x, y, z : l = <<x, y, z>>
      BY <2>3
    <3>2. x \in Range(l) /\ y \in Range(l) /\ z \in Range(l)
      BY <3>1, TupleRange
    <3> QED  BY <1>3, <3>1, <3>2
  <2>4. CASE \E x, y, z, w : l = <<x, y, z, w>>
    <3>1. PICK x, y, z, w : l = <<x, y, z, w>>
      BY <2>4
    <3>2. x \in Range(l) /\ y \in Range(l) /\ z \in Range(l) /\ w \in Range(l)
      BY <3>1, TupleRange
    <3> QED  BY <1>4, <3>1, <3>2
  <2> QED  BY <2>1, <2>2, <2>3, <2>4
<1>6. Len(l) \in {1, 2, 3, 4}
  OBVIOUS
<1> QED  BY <1>5, <1>6

ListOne ==
  {"unattached-ebs", "unmounted-efs", "ecr-stale-images", "unassociated-eip", "available-eni",
   "detached-internet-gateway", "empty-classic-lb", "stopped-rds-instance",
   "idle-provisioned-dynamodb", "log-group-no-retention", "disabled-kms-key", "stale-secret",
   "unused-route53-zone", "lightsail-stopped-instance", "lightsail-unattached-disk",
   "lightsail-unattached-static-ip", "lightsail-empty-load-balancer",
   "lightsail-idle-container-service"}
ListTwo ==
  {"unused-ami", "incomplete-multipart-upload", "stopped-instance", "unused-security-group",
   "idle-nat-gateway", "unused-vpc-endpoint", "empty-vpc", "idle-load-balancer",
   "orphaned-rds-snapshot", "unused-route53-health-check"}

\* Each check lists one kind or a few.
LEMMA ListingsAreASequence ==
  ASSUME NEW c \in CheckNames
  PROVE  Listings(c) \in Seq(Range(Listings(c))) /\ Len(Listings(c)) \in Nat \ {0}
<1> DEFINE l == CHECKS(c, Nothing).reads
<1>1. CASE c \in ListOne
  <2> DEFINE R(d) == \E x : CHECKS(d, Nothing).reads = <<x>>
  <2>1. /\ R("unattached-ebs") /\ R("unmounted-efs") /\ R("ecr-stale-images")
        /\ R("unassociated-eip") /\ R("available-eni") /\ R("detached-internet-gateway")
        /\ R("empty-classic-lb") /\ R("stopped-rds-instance") /\ R("idle-provisioned-dynamodb")
        /\ R("log-group-no-retention") /\ R("disabled-kms-key") /\ R("stale-secret")
        /\ R("unused-route53-zone") /\ R("lightsail-stopped-instance")
        /\ R("lightsail-unattached-disk") /\ R("lightsail-unattached-static-ip")
        /\ R("lightsail-empty-load-balancer") /\ R("lightsail-idle-container-service")
    BY ReadsAre
  <2> HIDE DEF R
  <2>2. R(c)
    BY <1>1, <2>1 DEF ListOne
  <2>3. \E x : l = <<x>>
    BY <2>2 DEF R
  <2> HIDE DEF l
  <2> QED  BY <2>3, TuplesAreSequences DEF l, Listings
<1>2. CASE c \in ListTwo
  <2> DEFINE R(d) == \E x, y : CHECKS(d, Nothing).reads = <<x, y>>
  <2>1. /\ R("unused-ami") /\ R("incomplete-multipart-upload") /\ R("stopped-instance")
        /\ R("unused-security-group") /\ R("idle-nat-gateway") /\ R("unused-vpc-endpoint")
        /\ R("empty-vpc") /\ R("idle-load-balancer") /\ R("orphaned-rds-snapshot")
        /\ R("unused-route53-health-check")
    BY ReadsAre
  <2> HIDE DEF R
  <2>2. R(c)
    BY <1>2, <2>1 DEF ListTwo
  <2>3. \E x, y : l = <<x, y>>
    BY <2>2 DEF R
  <2> HIDE DEF l
  <2> QED  BY <2>3, TuplesAreSequences DEF l, Listings
<1>3. CASE c = "orphaned-snapshot"
  <2>1. l = <<"volume", "image", "snapshot">>
    BY <1>3, ReadsAre
  <2> HIDE DEF l
  <2>2. \E x, y, z : l = <<x, y, z>>
    BY <2>1
  <2> QED  BY <2>2, TuplesAreSequences DEF l, Listings
<1>4. CASE c = "lightsail-orphaned-snapshot"
  <2>1. l = <<"ls-instance", "ls-disk", "ls-instance-snapshot", "ls-disk-snapshot">>
    BY <1>4, ReadsAre
  <2> HIDE DEF l
  <2>2. \E x, y, z, w : l = <<x, y, z, w>>
    BY <2>1
  <2> QED  BY <2>2, TuplesAreSequences DEF l, Listings
<1> QED  BY <1>1, <1>2, <1>3, <1>4 DEF CheckNames, ListOne, ListTwo

LEMMA EarlyListings ==
  ASSUME NEW c \in ReturnEarly
  PROVE  /\ c \in CheckNames /\ Len(Listings(c)) = 2
         /\ Listings(c)[1] \notin OneByOne(c)
         /\ \A kind : <<c, kind>> \in Judged => kind = Listings(c)[1]
<1>1. c \in CheckNames /\ Len(Listings(c)) = 2
  <2>1. c \in CheckNames
    BY DEF ReturnEarly, CheckNames
  <2>2. \E x, y : Listings(c) = <<x, y>>
    BY ReadsAre DEF Listings, ReturnEarly
  <2> QED  BY <2>1, <2>2
<1>2. Listings(c)[1] \notin OneByOne(c)
  BY ReadsAre DEF Listings, ReturnEarly, OneByOne
<1>3. \A kind : <<c, kind>> \in Judged => kind = Listings(c)[1]
  BY ReadsAre DEF Listings, ReturnEarly, Judged
<1> QED  BY <1>1, <1>2, <1>3

LEMMA NothingIsFound ==
  ASSUME NEW c \in ReturnEarly, NEW s, DOMAIN s = {}
  PROVE  CHECKS(c, s).finds = {}
<1>1. \A kind : Of(s, kind) = {}
  BY DEF Of
<1>2. \A kind, state : In(s, kind, state) = {}
  BY <1>1 DEF In
<1>3. \A facts : Unless(s, {}, facts) = {}
  BY DEF Unless
<1>4. \A name : Priced(name, {}) = {} /\ Free(name, {}) = {} /\ Estimated(name, {}) = {}
  BY DEF Priced, Free, Estimated
<1>5. CASE c = "stopped-instance"
  BY <1>2, <1>5 DEF CHECKS, stopped_instances
<1>6. CASE c = "unused-security-group"
  BY <1>1, <1>3, <1>4, <1>6 DEF CHECKS, unused_security_group
<1>7. CASE c = "idle-nat-gateway"
  BY <1>2, <1>4, <1>7 DEF CHECKS, idle_nat_gateway
<1>8. CASE c = "unused-vpc-endpoint"
  BY <1>2, <1>3, <1>4, <1>8 DEF CHECKS, unused_vpc_endpoint
<1>9. CASE c = "empty-vpc"
  BY <1>1, <1>3, <1>4, <1>9 DEF CHECKS, empty_vpc
<1>10. CASE c = "unused-route53-health-check"
  BY <1>1, <1>4, <1>10 DEF CHECKS, unused_route53_health_check
<1> QED  BY <1>5, <1>6, <1>7, <1>8, <1>9, <1>10 DEF ReturnEarly

\* A check begins with nothing read, goes on while the owner changes the
\* account, lists a kind, and asks for a resource.
LEMMA ReadingBegins ==
  ASSUME NEW a, Sound(a), NEW c \in CheckNames
  PROVE  Reads({a}, Nothing, {}, Listings(c), c)
<1>1. DOMAIN Nothing = {}
  BY DEF Nothing
<1>2. Witnessed({a}, Nothing)
  BY <1>1 DEF Witnessed, SameThings, SameThing
<1>3. Listings(c) \in Seq(Range(Listings(c))) /\ Len(Listings(c)) <= Len(Listings(c))
  BY ListingsAreASequence
<1> QED  BY <1>1, <1>2, <1>3 DEF Reads

LEMMA AccountJoins ==
  ASSUME NEW D, NEW s, NEW p, NEW l, NEW c, Reads(D, s, p, l, c),
         NEW b, Sound(b), \A a \in D : SameThings(b, a)
  PROVE  Reads(D \cup {b}, s, p, l, c)
<1>1. Witnessed(D, s)
  BY DEF Reads
<1>2. Witnessed(D \cup {b}, s)
  BY <1>1 DEF Witnessed, SameThings, SameThing
<1>3. \A kind : Came(D, s, p, c, kind) => Came(D \cup {b}, s, p, c, kind)
  BY DEF Came
<1>4. CutShort(D, s, p, l, c) => CutShort(D \cup {b}, s, p, l, c)
  BY DEF CutShort
<1>5. \A x \in p : \E a \in D \cup {b} :
        x \in DOMAIN a /\ a[x].kind \in OneByOne(c) /\ a[x].kind \in Range(Listings(c))
  BY DEF Reads
<1> QED  BY <1>2, <1>3, <1>4, <1>5 DEF Reads

LEMMA OneListingLeft ==
  ASSUME NEW S, NEW l \in Seq(S), Len(l) = 1
  PROVE  Range(Tail(l)) = {}
<1>1. DOMAIN Tail(l) = 1 .. Len(Tail(l))
  OBVIOUS
<1>2. Len(Tail(l)) = 0
  OBVIOUS
<1>3. 1 .. 0 = {}
  OBVIOUS
<1> QED  BY <1>1, <1>2, <1>3 DEF Range

LEMMA ListingIsRead ==
  ASSUME NEW D, NEW s, NEW l, NEW c \in CheckNames, Reads(D, s, {}, l, c), l # <<>>,
         NEW a \in D, NEW t, NEW p, NEW k,
         IF Head(l) \in OneByOne(c)
         THEN p = Of(a, Head(l)) /\ t = s
         ELSE /\ p = {}
              /\ t = [r \in Of(a, Head(l)) \cup DOMAIN s |->
                        IF r \in Of(a, Head(l)) THEN a[r] ELSE s[r]],
         k = IF c \in ReturnEarly /\ Of(a, Head(l)) = {} THEN <<>> ELSE Tail(l)
  PROVE  Reads(D, t, p, k, c)
<1> DEFINE K == Head(l)
           R == Range(Listings(c))
<1>1. /\ Witnessed(D, s) /\ l \in Seq(R) /\ Len(l) <= Len(Listings(c))
      /\ \A kind \in R : kind \in Range(l) \/ Came(D, s, {}, c, kind)
  BY DEF Reads, CutShort
<1>2. K \in R /\ Tail(l) \in Seq(R) /\ Len(Tail(l)) < Len(l) /\ Len(l) > 0
  BY <1>1
<1>3. Range(l) = {K} \cup Range(Tail(l))
  <2>1. \A i \in 1 .. Len(l) : i = 1 \/ (i - 1 \in 1 .. Len(Tail(l)) /\ l[i] = Tail(l)[i - 1])
    BY <1>1
  <2>2. \A i \in 1 .. Len(Tail(l)) : i + 1 \in 1 .. Len(l) /\ Tail(l)[i] = l[i + 1]
    BY <1>1
  <2>3. DOMAIN l = 1 .. Len(l) /\ DOMAIN Tail(l) = 1 .. Len(Tail(l)) /\ 1 \in DOMAIN l /\ K = l[1]
    BY <1>1
  <2> QED  BY <2>1, <2>2, <2>3 DEF Range
<1>4. Witnessed(D, t)
  <2>1. Of(a, K) \subseteq DOMAIN a
    BY DEF Of
  <2>2. CASE K \in OneByOne(c)
    BY <1>1, <2>2
  <2>3. CASE K \notin OneByOne(c)
    <3>1. t = [r \in Of(a, K) \cup DOMAIN s |-> IF r \in Of(a, K) THEN a[r] ELSE s[r]]
      BY <2>3
    <3>2. ASSUME NEW x \in DOMAIN t PROVE \E b \in D : x \in DOMAIN b /\ t[x] = b[x]
      <4>1. CASE x \in Of(a, K)
        BY <2>1, <3>1, <3>2, <4>1
      <4>2. CASE x \notin Of(a, K)
        BY <1>1, <3>1, <3>2, <4>2, WasSeen
      <4> QED  BY <4>1, <4>2
    <3> QED  BY <1>1, <3>2 DEF Witnessed
  <2> QED  BY <2>2, <2>3
<1>5. \A x \in DOMAIN t : t[x].kind \in R
  <2>1. \A x \in DOMAIN s : s[x].kind \in R
    BY DEF Reads
  <2> QED  BY <1>2, <2>1 DEF Of
<1>6. \A x \in p : \E b \in D : x \in DOMAIN b /\ b[x].kind \in OneByOne(c) /\ b[x].kind \in R
  BY <1>2 DEF Of
<1>7. k \in Seq(R) /\ Len(k) < Len(Listings(c))
  <2>1. Len(Listings(c)) \in Nat \ {0} /\ Len(l) \in Nat /\ Len(Tail(l)) \in Nat
    BY <1>1, <1>2, ListingsAreASequence
  <2>2. <<>> \in Seq(R) /\ Len(<<>>) = 0
    OBVIOUS
  <2> HIDE DEF R
  <2>3. CASE k = <<>>
    <3>1. 0 < Len(Listings(c))
      BY <2>1
    <3> QED  BY <2>2, <2>3, <3>1
  <2>4. CASE k = Tail(l)
    BY <1>1, <1>2, <2>1, <2>4
  <2> QED  BY <2>3, <2>4
<1>8. Came(D, t, p, c, K)
  <2>1. CASE K \in OneByOne(c)
    BY <2>1 DEF Came
  <2>2. CASE K \notin OneByOne(c)
    BY <2>2 DEF Came
  <2> QED  BY <2>1, <2>2
<1>9. ASSUME NEW kind \in R, kind # K, Came(D, s, {}, c, kind) PROVE Came(D, t, p, c, kind)
  <2>1. PICK b \in D : \A x \in Of(b, kind) :
          IF kind \in OneByOne(c) THEN x \in DOMAIN s \cup {} ELSE x \in DOMAIN s /\ s[x] = b[x]
    BY <1>9 DEF Came
  <2>2. \A x \in Of(b, kind) : x \notin Of(a, K)
    BY <1>1, <1>9, KindStays DEF Of
  <2>3. DOMAIN s \subseteq DOMAIN t /\ \A x \in DOMAIN s \ Of(a, K) : t[x] = s[x]
    OBVIOUS
  <2>4. \A x \in Of(b, kind) :
          IF kind \in OneByOne(c) THEN x \in DOMAIN t \cup p ELSE x \in DOMAIN t /\ t[x] = b[x]
    BY <2>1, <2>2, <2>3
  <2> QED  BY <2>4 DEF Came
<1>10. CutShort(D, t, p, k, c) \/ \A kind \in R : kind \in Range(k) \/ Came(D, t, p, c, kind)
  <2>1. CASE k = Tail(l)
    BY <1>1, <1>3, <1>8, <1>9, <2>1
  <2>2. CASE c \in ReturnEarly /\ Of(a, K) = {} /\ Len(l) = Len(Listings(c))
    <3>1. l = Listings(c) /\ DOMAIN s = {}
      BY <2>2 DEF Reads
    <3>2. K = Listings(c)[1]
      BY <1>1, <1>2, <3>1
    <3>3. K \notin OneByOne(c)
      BY <2>2, <3>2, EarlyListings
    <3>4. DOMAIN t = {} /\ p = {} /\ k = <<>>
      BY <2>2, <3>1, <3>3
    <3> QED  BY <2>2, <3>2, <3>4 DEF CutShort
  <2>3. CASE c \in ReturnEarly /\ Of(a, K) = {} /\ Len(l) # Len(Listings(c))
    <3>1. Len(Listings(c)) = 2 /\ k = <<>>
      BY <2>3, EarlyListings
    <3>2. Len(l) \in Nat /\ Len(l) <= 2 /\ Len(l) > 0 /\ Len(l) # 2
      BY <1>1, <1>2, <2>3, <3>1
    <3>3. PICK n \in Nat : n = Len(l)
      BY <3>2
    <3>4. n = 1
      BY <3>2, <3>3
    <3>5. Len(l) = 1
      BY <3>3, <3>4
    <3>6. Range(Tail(l)) = {}
      BY <1>1, <3>5, OneListingLeft
    <3> QED  BY <1>1, <1>3, <1>8, <1>9, <3>6
  <2> QED  BY <2>1, <2>2, <2>3
<1> QED  BY <1>4, <1>5, <1>6, <1>7, <1>10 DEF Reads

LEMMA ResourceIsRead ==
  ASSUME NEW D, NEW s, NEW p, NEW l, NEW c \in CheckNames, Reads(D, s, p, l, c),
         NEW a \in D, NEW r \in p, r \in DOMAIN a,
         NEW t, t = [x \in {r} \cup DOMAIN s |-> IF x \in {r} THEN a[x] ELSE s[x]]
  PROVE  Reads(D, t, p \ {r}, l, c)
<1> DEFINE R == Range(Listings(c))
<1>1. Witnessed(D, s)
  BY DEF Reads
<1>2. Witnessed(D, t)
  <2>1. ASSUME NEW x \in DOMAIN t PROVE \E b \in D : x \in DOMAIN b /\ t[x] = b[x]
    <3>1. CASE x = r
      BY <3>1
    <3>2. CASE x # r
      BY <1>1, <2>1, <3>2, WasSeen
    <3> QED  BY <3>1, <3>2
  <2> QED  BY <1>1, <2>1 DEF Witnessed
<1>3. a[r].kind \in OneByOne(c) /\ a[r].kind \in R
  <2>1. PICK b \in D : r \in DOMAIN b /\ b[r].kind \in OneByOne(c) /\ b[r].kind \in R
    BY DEF Reads
  <2>2. a[r].kind = b[r].kind
    BY <1>1, <2>1, KindStays
  <2> QED  BY <2>1, <2>2
<1>4. \A x \in DOMAIN t : t[x].kind \in R
  BY <1>3 DEF Reads
<1>5. ASSUME NEW kind, Came(D, s, p, c, kind) PROVE Came(D, t, p \ {r}, c, kind)
  <2>1. PICK b \in D : \A x \in Of(b, kind) :
          IF kind \in OneByOne(c) THEN x \in DOMAIN s \cup p ELSE x \in DOMAIN s /\ s[x] = b[x]
    BY <1>5 DEF Came
  <2>2. kind \notin OneByOne(c) => \A x \in Of(b, kind) : x # r
    BY <1>1, <1>3, KindStays DEF Of
  <2>3. DOMAIN t = DOMAIN s \cup {r} /\ \A x \in DOMAIN s : x # r => t[x] = s[x]
    OBVIOUS
  <2>4. \A x \in Of(b, kind) :
          IF kind \in OneByOne(c) THEN x \in DOMAIN t \cup (p \ {r})
          ELSE x \in DOMAIN t /\ t[x] = b[x]
    BY <2>1, <2>2, <2>3
  <2> QED  BY <2>4 DEF Came
<1>6. ~ CutShort(D, s, p, l, c) /\ Len(l) # Len(Listings(c))
  BY DEF Reads, CutShort
<1> QED  BY <1>2, <1>4, <1>5, <1>6 DEF Reads

\* What it reports when it has read all is right.
LEMMA ReadingIsDone ==
  ASSUME NEW D, NEW s, NEW c \in CheckNames, Reads(D, s, {}, <<>>, c)
  PROVE  Right(D, c, CHECKS(c, s).finds)
<1>1. Witnessed(D, s)
  BY DEF Reads
<1>2. CASE CutShort(D, s, {}, <<>>, c)
  <2>1. CHECKS(c, s).finds = {}
    BY <1>2, NothingIsFound DEF CutShort
  <2>2. PICK a \in D : Of(a, Listings(c)[1]) = {}
    BY <1>2 DEF CutShort
  <2>3. ASSUME NEW kind, NEW r, <<c, kind>> \in Judged, Unused(D, r, kind) PROVE FALSE
    <3>1. kind = Listings(c)[1]
      BY <1>2, <2>3, EarlyListings DEF CutShort
    <3>2. PICK b \in D : b[r].kind = kind
      BY <2>3 DEF Unused
    <3>3. r \in DOMAIN a /\ r \in DOMAIN b
      BY <2>3 DEF Unused, Idle
    <3>4. a[r].kind = kind
      BY <1>1, <3>2, <3>3, KindStays
    <3> QED  BY <2>2, <3>1, <3>3, <3>4 DEF Of
  <2> QED  BY <2>1, <2>3 DEF Right
<1>3. CASE ~ CutShort(D, s, {}, <<>>, c)
  <2>1. Range(<<>>) = {}
    BY DEF Range
  <2>2. \A kind \in Range(Listings(c)) : Came(D, s, {}, c, kind)
    BY <1>3, <2>1 DEF Reads
  <2>3. ReadAll(D, s, c)
    <3>1. ASSUME NEW kind \in Range(Listings(c))
          PROVE  AllOf(D, s, kind) /\ (kind \notin OneByOne(c) => AllAtOnce(D, s, kind))
      <4>1. PICK a \in D : \A x \in Of(a, kind) :
              IF kind \in OneByOne(c) THEN x \in DOMAIN s \cup {}
              ELSE x \in DOMAIN s /\ s[x] = a[x]
        BY <2>2, <3>1 DEF Came
      <4>2. AllOf(D, s, kind)
        BY <4>1 DEF AllOf
      <4> QED  BY <4>1, <4>2 DEF AllAtOnce
    <3> QED  BY <3>1 DEF ReadAll
  <2> QED  BY <1>1, <2>3, EveryCheckIsRight
<1> QED  BY <1>2, <1>3

(*****************************************************************************)
(* The invariant: the account is sound, the report names checks that ran, and*)
(* what the running check has read is a reading of the account's past.       *)
(*****************************************************************************)
Running ==
  /\ scene \in DOMAIN Scenes /\ at \in DOMAIN checks
  /\ Sound(acct)
  /\ moves \subseteq Scenes[scene].moves /\ moved \in BOOLEAN
  /\ pc \in {"listing", "judged", "failed", "cleaning", "rested"}
Reported == \A f \in report : \E n \in 1 .. at : f.check = checks[n]
ReadSoFar ==
  /\ Reads(during, seen, pending, left, check)
  /\ pc \in {"listing", "judged", "failed"} => acct \in during
  /\ pc = "judged" => left = <<>> /\ pending = {}
RoundsInv == Running /\ Reported /\ ReadSoFar

LEMMA ChecksAreNamed ==
  ASSUME NEW s \in DOMAIN Scenes
  PROVE  /\ DOMAIN Scenes[s].checks = 1 .. Len(Scenes[s].checks) /\ 1 \in DOMAIN Scenes[s].checks
         /\ Len(Scenes[s].checks) \in Nat
         /\ \A n \in DOMAIN Scenes[s].checks : Scenes[s].checks[n] \in CheckNames
<1>1. PICK l : l = Scenes[s].checks
  OBVIOUS
<1>2. l \in Seq(CheckNames) /\ l # <<>>
  BY <1>1, SceneAssumption
<1>3. DOMAIN l = 1 .. Len(l) /\ 1 \in DOMAIN l /\ Len(l) \in Nat
  BY <1>2
<1>4. \A n \in DOMAIN l : l[n] \in CheckNames
  BY <1>2
<1> QED  BY <1>1, <1>3, <1>4

LEMMA CheckIsNamed ==
  ASSUME Running PROVE check \in CheckNames
BY ChecksAreNamed DEF Running, check, checks

LEMMA InitRounds == Init => RoundsInv
<1> SUFFICES ASSUME Init PROVE RoundsInv
  OBVIOUS
<1>1. Running
  BY ChecksAreNamed, SceneAssumption DEF Init, Running, checks
<1>2. Reported
  BY DEF Init, Reported
<1>3. left = Listings(check) /\ pending = {} /\ seen = Nothing /\ during = {acct}
  BY DEF Init, Listings
<1>4. Reads(during, seen, pending, left, check)
  BY <1>1, <1>3, CheckIsNamed, ReadingBegins DEF Running
<1> QED  BY <1>1, <1>2, <1>3, <1>4 DEF RoundsInv, ReadSoFar, Init

LEMMA RoundsStay ==
  ASSUME RoundsInv, UNCHANGED vars PROVE RoundsInv'
BY DEF RoundsInv, Running, Reported, ReadSoFar, vars, check, checks

\* A check begins on the account there is.
LEMMA CheckBegins ==
  ASSUME Running, NEW n \in DOMAIN checks, StartCheck(n), UNCHANGED <<scene, acct>>
  PROVE  ReadSoFar'
<1>1. PICK c : c = checks[n]
  OBVIOUS
<1>2. c \in CheckNames
  BY <1>1, ChecksAreNamed DEF Running, checks
<1>3. check' = c
  BY <1>1 DEF StartCheck, check, checks
<1>4. /\ left' = Listings(c) /\ pending' = {} /\ seen' = Nothing /\ during' = {acct}
      /\ acct' = acct /\ pc' = "listing"
  BY <1>1 DEF StartCheck, Listings
<1>5. PICK a : a = acct
  OBVIOUS
<1>6. Reads({a}, Nothing, {}, Listings(c), c)
  BY <1>2, <1>5, ReadingBegins DEF Running
<1>7. Reads(during', seen', pending', left', check')
  BY <1>3, <1>4, <1>5, <1>6
<1> QED  BY <1>4, <1>7 DEF ReadSoFar

\* Each action keeps it.
LEMMA ListsKeeps ==
  ASSUME RoundsInv, Lists PROVE RoundsInv'
<1>1. UNCHANGED <<scene, acct, moves, pc, at, report, moved, during>>
  BY DEF Lists
<1>2. Running' /\ Reported'
  BY <1>1 DEF RoundsInv, Running, Reported, checks
<1>3. PICK c : c = check
  OBVIOUS
<1>4. c \in CheckNames /\ check' = c
  BY <1>1, <1>3, CheckIsNamed DEF RoundsInv, check, checks
<1>5. /\ pc = "listing" /\ pending = {} /\ left # <<>> /\ acct \in during
      /\ Reads(during, seen, {}, left, c)
  BY <1>3 DEF Lists, RoundsInv, ReadSoFar
<1>6. /\ IF Head(left) \in OneByOne(c)
         THEN pending' = Of(acct, Head(left)) /\ seen' = seen
         ELSE seen' = Reading(Of(acct, Head(left))) /\ pending' = pending
      /\ left' = IF c \in ReturnEarly /\ Of(acct, Head(left)) = {} THEN <<>> ELSE Tail(left)
  BY <1>3 DEF Lists
<1>7. PICK D, a, s, l, t, p, k :
        /\ D = during /\ a = acct /\ s = seen /\ l = left
        /\ t = seen' /\ p = pending' /\ k = left'
  OBVIOUS
<1>8. IF Head(l) \in OneByOne(c)
      THEN p = Of(a, Head(l)) /\ t = s
      ELSE /\ p = {}
           /\ t = [r \in Of(a, Head(l)) \cup DOMAIN s |->
                     IF r \in Of(a, Head(l)) THEN a[r] ELSE s[r]]
  BY <1>5, <1>6, <1>7 DEF Reading
<1>9. k = IF c \in ReturnEarly /\ Of(a, Head(l)) = {} THEN <<>> ELSE Tail(l)
  BY <1>6, <1>7
<1>10. Reads(D, t, p, k, c)
  <2>1. c \in CheckNames /\ Reads(D, s, {}, l, c) /\ l # <<>> /\ a \in D
    BY <1>4, <1>5, <1>7
  <2> QED  BY <2>1, <1>8, <1>9, ListingIsRead
<1>11. ReadSoFar'
  BY <1>1, <1>4, <1>5, <1>7, <1>10 DEF ReadSoFar
<1> QED  BY <1>2, <1>11 DEF RoundsInv

LEMMA DescribesKeeps ==
  ASSUME RoundsInv, NEW r, Describes(r) PROVE RoundsInv'
<1>1. UNCHANGED <<scene, acct, moves, pc, at, left, report, moved, during>>
  BY DEF Describes
<1>2. Running' /\ Reported'
  BY <1>1 DEF RoundsInv, Running, Reported, checks
<1>3. PICK c : c = check
  OBVIOUS
<1>4. c \in CheckNames /\ check' = c
  BY <1>1, <1>3, CheckIsNamed DEF RoundsInv, check, checks
<1>5. /\ pc = "listing" /\ acct \in during /\ r \in pending /\ r \in DOMAIN acct
      /\ Reads(during, seen, pending, left, c)
  BY <1>3 DEF Describes, RoundsInv, ReadSoFar
<1>6. PICK D, a, s, p, l, t :
        D = during /\ a = acct /\ s = seen /\ p = pending /\ l = left /\ t = seen'
  OBVIOUS
<1>7. t = [x \in {r} \cup DOMAIN s |-> IF x \in {r} THEN a[x] ELSE s[x]]
  BY <1>6 DEF Describes, Reading
<1>8. Reads(D, t, p \ {r}, l, c)
  <2>1. c \in CheckNames /\ Reads(D, s, p, l, c) /\ a \in D /\ r \in p /\ r \in DOMAIN a
    BY <1>4, <1>5, <1>6
  <2> QED  BY <2>1, <1>7, ResourceIsRead
<1>9. pending' = pending \ {r}
  BY DEF Describes
<1>10. ReadSoFar'
  BY <1>1, <1>4, <1>5, <1>6, <1>8, <1>9 DEF ReadSoFar
<1> QED  BY <1>2, <1>10 DEF RoundsInv

LEMMA RaisesKeeps ==
  ASSUME RoundsInv, Raises PROVE RoundsInv'
BY DEF RoundsInv, Running, Reported, ReadSoFar, Raises, scanVars, check, checks

LEMMA JudgesKeeps ==
  ASSUME RoundsInv, Judges PROVE RoundsInv'
<1>1. /\ UNCHANGED <<scene, acct, moves, at, left, pending, seen, moved, during>>
      /\ pc = "listing" /\ left = <<>> /\ pending = {} /\ pc' = "judged"
      /\ report' = report \cup CHECKS(check, seen).finds
  BY DEF Judges
<1>2. Running'
  BY <1>1 DEF RoundsInv, Running, checks
<1>3. ReadSoFar'
  BY <1>1 DEF RoundsInv, ReadSoFar, check, checks
<1>4. Right(during, check, CHECKS(check, seen).finds)
  BY <1>1, CheckIsNamed, ReadingIsDone DEF RoundsInv, ReadSoFar
<1>5. \A f \in CHECKS(check, seen).finds : f.check = check
  BY <1>4 DEF Right
<1>6. at \in 1 .. at
  BY ChecksAreNamed DEF RoundsInv, Running, checks
<1>7. Reported'
  <2>1. \A f \in report' : \E n \in 1 .. at : f.check = checks[n]
    BY <1>1, <1>5, <1>6 DEF RoundsInv, Reported, check
  <2> QED  BY <1>1, <2>1 DEF Reported, checks
<1> QED  BY <1>2, <1>3, <1>7 DEF RoundsInv

LEMMA NextCheckKeeps ==
  ASSUME RoundsInv, NextCheck PROVE RoundsInv'
<1>1. /\ UNCHANGED <<scene, acct, moves, report, moved>>
      /\ at < Len(checks) /\ StartCheck(at + 1)
  BY DEF NextCheck
<1>2. at \in Nat /\ at + 1 \in DOMAIN checks
  BY <1>1, ChecksAreNamed DEF RoundsInv, Running, checks
<1>3. at' = at + 1 /\ pc' = "listing"
  BY <1>1 DEF StartCheck
<1>4. Running'
  BY <1>1, <1>2, <1>3 DEF RoundsInv, Running, checks
<1>5. ReadSoFar'
  BY <1>1, <1>2, CheckBegins DEF RoundsInv
<1>6. 1 .. at \subseteq 1 .. (at + 1)
  BY <1>2
<1>7. Reported'
  BY <1>1, <1>3, <1>6 DEF RoundsInv, Reported, checks
<1> QED  BY <1>4, <1>5, <1>7 DEF RoundsInv

LEMMA CleaningKeeps ==
  ASSUME RoundsInv, StartClean \/ Rest PROVE RoundsInv'
<1>1. UNCHANGED <<scene, acct, moves, at, left, pending, seen, report, moved, during>>
  BY DEF StartClean, Rest, scanVars
<1>2. pc' \in {"cleaning", "rested"}
  BY DEF StartClean, Rest
<1> QED  BY <1>1, <1>2 DEF RoundsInv, Running, Reported, ReadSoFar, check, checks

LEMMA CallKeeps ==
  ASSUME RoundsInv, NEW p, Call(p) PROVE RoundsInv'
<1>1. /\ UNCHANGED <<scene, moves, pc, at, left, pending, seen, report, during>>
      /\ pc = "cleaning"
  BY DEF Call, scanVars
<1>2. Sound(acct)
  BY DEF RoundsInv, Running
<1>3. Sound(acct') /\ moved' \in BOOLEAN
  <2>1. CASE Refused(acct, Head(p).operation, Head(p).target)
    BY <1>2, <2>1 DEF Call, RoundsInv, Running
  <2>2. CASE ~ Refused(acct, Head(p).operation, Head(p).target)
    <3>1. acct' = CallEffect(acct, Head(p).operation, Head(p).target) /\ moved' = TRUE
      BY <2>2 DEF Call, After
    <3>2. Head(p).target \in DOMAIN acct
      BY <2>2 DEF Refused
    <3> QED  BY <1>2, <3>1, <3>2, CallIsSound
  <2> QED  BY <2>1, <2>2
<1> QED  BY <1>1, <1>3 DEF RoundsInv, Running, Reported, ReadSoFar, check, checks

LEMMA AgainKeeps ==
  ASSUME RoundsInv, Again PROVE RoundsInv'
<1>1. /\ UNCHANGED <<scene, acct, moves>> /\ StartCheck(1) /\ report' = {} /\ moved' = FALSE
  BY DEF Again
<1>2. 1 \in DOMAIN checks
  BY ChecksAreNamed DEF RoundsInv, Running, checks
<1>3. at' = 1 /\ pc' = "listing"
  BY <1>1 DEF StartCheck
<1>4. Running'
  BY <1>1, <1>2, <1>3 DEF RoundsInv, Running, checks
<1>5. ReadSoFar'
  BY <1>1, <1>2, CheckBegins DEF RoundsInv
<1>6. Reported'
  BY <1>1 DEF Reported
<1> QED  BY <1>4, <1>5, <1>6 DEF RoundsInv

LEMMA OwnerKeeps ==
  ASSUME RoundsInv, NEW move, NEW a, Owner(move, a) PROVE RoundsInv'
<1>1. /\ UNCHANGED <<scene, pc, at, left, pending, seen, report>>
      /\ acct' = a /\ moves' = moves \ {move} /\ moved' = TRUE /\ Sound(a)
      /\ pc \in {"listing", "cleaning"}
  BY DEF Owner, scanVars
<1>2. Running'
  BY <1>1 DEF RoundsInv, Running, checks
<1>3. Reported'
  BY <1>1 DEF RoundsInv, Reported, checks
<1>4. check' = check
  BY <1>1 DEF check, checks
<1>5. CASE pc = "listing"
  <2>1. during' = during \cup {a} /\ \A b \in during : SameThings(a, b)
    BY <1>5 DEF Owner
  <2>2. Reads(during \cup {a}, seen, pending, left, check)
    BY <1>1, <2>1, AccountJoins DEF RoundsInv, ReadSoFar
  <2>3. ReadSoFar'
    BY <1>1, <1>4, <1>5, <2>1, <2>2 DEF ReadSoFar
  <2> QED  BY <1>2, <1>3, <2>3 DEF RoundsInv
<1>6. CASE pc = "cleaning"
  <2>1. during' = during
    BY <1>6 DEF Owner
  <2>2. ReadSoFar'
    BY <1>1, <1>4, <1>6, <2>1 DEF RoundsInv, ReadSoFar
  <2> QED  BY <1>2, <1>3, <2>2 DEF RoundsInv
<1> QED  BY <1>1, <1>5, <1>6

LEMMA NextRounds ==
  ASSUME RoundsInv, [Next]_vars PROVE RoundsInv'
<1>1. CASE Lists
  BY <1>1, ListsKeeps
<1>2. CASE Raises
  BY <1>2, RaisesKeeps
<1>3. CASE Judges
  BY <1>3, JudgesKeeps
<1>4. CASE NextCheck
  BY <1>4, NextCheckKeeps
<1>5. CASE StartClean \/ Rest
  BY <1>5, CleaningKeeps
<1>6. CASE Again
  BY <1>6, AgainKeeps
<1>7. CASE \E r \in pending : Describes(r)
  BY <1>7, DescribesKeeps
<1>8. CASE \E p \in todo \cup {plan} : Call(p)
  BY <1>8, CallKeeps
<1>9. CASE \E m \in moves : Creates(m) \/ Changes(m) \/ Deletes(m)
  BY <1>9, OwnerKeeps DEF Creates, Changes, Deletes
<1>10. CASE UNCHANGED vars
  BY <1>10, RoundsStay
<1> QED  BY <1>1, <1>2, <1>3, <1>4, <1>5, <1>6, <1>7, <1>8, <1>9, <1>10 DEF Next, Tool

LEMMA RoundsHold == Spec => []RoundsInv
<1>1. RoundsInv /\ [Next]_vars => RoundsInv'
  BY NextRounds
<1> QED  BY InitRounds, <1>1, PTL DEF Spec

\* TypeOK (Account, the report and what a check reads): whatever the cleaners
\* call and the owner does, the account stays one AWS would keep, the report
\* names checks that have run, and a check has read nothing but its listings.
THEOREM RoundsTyped == Spec => []TypeOK
<1>1. RoundsInv => TypeOK
  BY DEF RoundsInv, Running, Reported, ReadSoFar, Reads, Listings, TypeOK
<1> QED  BY RoundsHold, <1>1, PTL

LEMMA JudgedRight ==
  ASSUME RoundsInv, pc = "judged"
  PROVE  Right(during, check, found) /\ acct \in during
<1>1. Reads(during, seen, {}, <<>>, check) /\ acct \in during
  BY DEF RoundsInv, ReadSoFar
<1>2. check \in CheckNames
  BY CheckIsNamed DEF RoundsInv
<1> QED  BY <1>1, <1>2, ReadingIsDone DEF found

\* SteadyUseIsSeen (packs/core, packs/lightsail): no check reports a resource
\* one user kept in use while the check was reading, however the account
\* changed between its calls.
THEOREM SteadyUseSeen == Spec => []SteadyUseIsSeen
<1>1. RoundsInv => SteadyUseIsSeen
  <2> SUFFICES ASSUME RoundsInv, pc = "judged",
                      NEW r \in Flagged, NEW u \in DOMAIN acct,
                      \A a \in during : {r, u} \subseteq DOMAIN a /\ Keeps(a, u, r)
               PROVE  FALSE
    BY DEF SteadyUseIsSeen
  <2>1. PICK f \in found : f.id = r
    BY DEF Flagged
  <2>2. ~ InUse(during, u, f.id)
    BY JudgedRight DEF Right
  <2> QED  BY <2>1, <2>2 DEF InUse
<1> QED  BY RoundsHold, <1>1, PTL

\* SteadyWasteIsFound (packs/core, packs/lightsail): a check that finishes
\* reports every resource nothing used while it was reading.
THEOREM SteadyWasteFound == Spec => []SteadyWasteIsFound
<1>1. RoundsInv => SteadyWasteIsFound
  <2> SUFFICES ASSUME RoundsInv, pc = "judged", NEW r \in DOMAIN acct,
                      <<check, acct[r].kind>> \in Judged, \A a \in during : Idle(a, r)
               PROVE  r \in Flagged
    BY DEF SteadyWasteIsFound
  <2>1. Unused(during, r, acct[r].kind)
    BY JudgedRight DEF Unused
  <2>2. \E f \in found : f.id = r
    BY <2>1, JudgedRight DEF Right
  <2> QED  BY <2>2 DEF Flagged
<1> QED  BY RoundsHold, <1>1, PTL

(*****************************************************************************)
(* What a clean run keeps, of an account whose owner is an everyday one.     *)
(* Every resource is the owner's, of the kind it always had, or a copy the   *)
(* tool has made.                                                            *)
(*****************************************************************************)
\* What is copied, and as what.
CopiedAs ==
  {<<"volume", "snapshot">>, <<"database", "db-snapshot">>, <<"instance", "image">>,
   <<"ls-instance", "ls-instance-snapshot">>, <<"ls-disk", "ls-disk-snapshot">>}

OwnOf(s, r, res) ==
  /\ r \in OfKind(s, res.kind)
  /\ res.kind = "image" => res.refs \subseteq OfKind(s, "snapshot")
CopyIn(s, r, res, y) ==
  /\ y \in Owned(s) /\ r = CopyOf(y)
  /\ \E k : y \in OfKind(s, k) /\ <<k, res.kind>> \in CopiedAs
  /\ IF res.kind = "image"
     THEN "young" \in res.is /\ \A w \in res.refs : \E v \in OfKind(s, "volume") : w = CopyOf(v)
     ELSE res.refs = {y}
Sorted(s, a) ==
  /\ IsFiniteSet(DOMAIN a)
  /\ \A r \in DOMAIN a : OwnOf(s, r, a[r]) \/ \E y \in Owned(s) : CopyIn(s, r, a[r], y)

\* With the moves mv left, r is not made any more.
Spent(mv, r) == \A m \in mv : m.does = "create" => m.id # r

\* The facts no change brings about.
Lasting == {"root", "system", "young"}

\* The account a has become b, and of the moves mv those in nv are left.
Onward(s, mv, a, nv, b) ==
  /\ Sorted(s, b) /\ nv \subseteq mv
  /\ \A r \in DOMAIN b : r \in DOMAIN a \/ Spent(nv, r)
  /\ \A r \in Owned(s) \cap DOMAIN b : r \in DOMAIN a \/ ~ Spent(mv, r)
  /\ \A r \in Owned(s) \cap DOMAIN a \cap DOMAIN b :
       /\ b[r].is \cap Lasting \subseteq a[r].is
       /\ "root" \in b[r].is => b[r].refs \subseteq a[r].refs
  /\ \A y \in Owned(s) : CopyOf(y) \in DOMAIN b => CopyOf(y) \in DOMAIN a \/ y \in DOMAIN a

LEMMA CopiedAsIs ==
  \A k, l : <<k, l>> \in CopiedAs <=>
    \/ k = "volume" /\ l = "snapshot"
    \/ k = "database" /\ l = "db-snapshot"
    \/ k = "instance" /\ l = "image"
    \/ k = "ls-instance" /\ l = "ls-instance-snapshot"
    \/ k = "ls-disk" /\ l = "ls-disk-snapshot"
BY DEF CopiedAs

\* An id has one kind, and no copy's id is the owner's.
LEMMA OneKind ==
  ASSUME Everyday, NEW s \in DOMAIN Scenes
  PROVE  /\ \A k, l : \A r \in OfKind(s, k) : r \in OfKind(s, l) => k = l
         /\ \A k : OfKind(s, k) \subseteq Owned(s)
         /\ \A r \in Owned(s) : \E k : r \in OfKind(s, k)
<1>1. \A m \in Makes(s) :
        m.id \notin DOMAIN Scenes[s].there /\ \A n \in Makes(s) : n.id = m.id => n = m
  BY DEF Everyday, GivenOnce
<1>2. \A k, r : r \in OfKind(s, k) <=>
        \/ r \in DOMAIN Scenes[s].there /\ Scenes[s].there[r].kind = k
        \/ \E m \in Makes(s) : m.id = r /\ m.to.kind = k
  BY DEF OfKind, Of
<1>3. \A r : r \in Owned(s) <=>
        r \in DOMAIN Scenes[s].there \/ \E m \in Makes(s) : m.id = r
  BY DEF Owned
<1>4. ASSUME NEW k, NEW l, NEW r \in OfKind(s, k), r \in OfKind(s, l) PROVE k = l
  BY <1>1, <1>2, <1>4
<1>5. \A k : OfKind(s, k) \subseteq Owned(s)
  BY <1>2, <1>3
<1>6. ASSUME NEW r \in Owned(s) PROVE \E k : r \in OfKind(s, k)
  <2>1. CASE r \in DOMAIN Scenes[s].there
    <3>1. r \in OfKind(s, Scenes[s].there[r].kind)
      BY <1>2, <2>1
    <3> QED  BY <3>1
  <2>2. CASE \E m \in Makes(s) : m.id = r
    <3>1. PICK m \in Makes(s) : m.id = r
      BY <2>2
    <3>2. r \in OfKind(s, m.to.kind)
      BY <1>2, <3>1
    <3> QED  BY <3>2
  <2> QED  BY <1>3, <1>6, <2>1, <2>2
<1> QED  BY <1>4, <1>5, <1>6

LEMMA CopiesApart ==
  ASSUME Everyday, NEW s \in DOMAIN Scenes
  PROVE  \A r, q \in Owned(s) :
           /\ CopyOf(r) \notin Owned(s) /\ (CopyOf(q) = CopyOf(r) => q = r)
           /\ CopyOf(q) # NamespaceOf(r)
           /\ NamespaceOf(r) \in Owned(s) => NamespaceOf(r) \in OfKind(s, "namespace")
BY DEF Everyday, GivenOnce

\* What there is under an id of the owner's is the owner's; under a copy's, the copy.
LEMMA SortedTells ==
  ASSUME Everyday, NEW s \in DOMAIN Scenes, NEW a, Sorted(s, a), NEW r \in DOMAIN a
  PROVE  /\ r \in Owned(s) => OwnOf(s, r, a[r])
         /\ \A y \in Owned(s) : r = CopyOf(y) => CopyIn(s, r, a[r], y)
         /\ r \in Owned(s) \/ \E y \in Owned(s) : r = CopyOf(y)
         /\ \A k : r \in OfKind(s, k) => a[r].kind = k
<1>1. OwnOf(s, r, a[r]) \/ \E y \in Owned(s) : CopyIn(s, r, a[r], y)
  BY DEF Sorted
<1>2. \A res : OwnOf(s, r, res) => r \in OfKind(s, res.kind) /\ r \in Owned(s)
  BY OneKind DEF OwnOf
<1>3. \A y : CopyIn(s, r, a[r], y) => y \in Owned(s) /\ r = CopyOf(y)
  BY DEF CopyIn
<1>4. r \in Owned(s) => OwnOf(s, r, a[r])
  BY <1>1, <1>3, CopiesApart
<1>5. \A y \in Owned(s) : r = CopyOf(y) => CopyIn(s, r, a[r], y)
  BY <1>1, <1>2, <1>3, CopiesApart
<1>6. \A k : r \in OfKind(s, k) => a[r].kind = k
  BY <1>2, <1>4, OneKind
<1> QED  BY <1>1, <1>2, <1>3, <1>4, <1>5, <1>6

\* A copy's kind says what kind it is a copy of.
LEMMA CopyTells ==
  ASSUME Everyday, NEW s \in DOMAIN Scenes, NEW r, NEW res, NEW y, CopyIn(s, r, res, y)
  PROVE  \A k : y \in OfKind(s, k) => <<k, res.kind>> \in CopiedAs
BY OneKind DEF CopyIn

(*****************************************************************************)
(* What deleting leaves.                                                     *)
(*****************************************************************************)
LEMMA WhatFalls ==
  ASSUME NEW a, NEW r, NEW x \in FallsWith(a, r), x # r
  PROVE  \/ a[x].kind \in {"interface", "zone"}
         \/ a[x].kind = "volume" /\ "root" \in a[x].is /\ r \in a[x].refs
              /\ a[r].kind = "instance"
         \/ a[x].kind = "ls-disk" /\ "system" \in a[x].is
<1>1. CASE a[r].kind = "instance"
  BY <1>1 DEF FallsWith, Naming, Of
<1>2. CASE a[r].kind = "ls-instance"
  BY <1>2 DEF FallsWith, Naming, Of
<1>3. CASE a[r].kind = "namespace"
  BY <1>3 DEF FallsWith, Naming, Of
<1>4. CASE a[r].kind \notin {"instance", "ls-instance", "namespace"}
  BY <1>4 DEF FallsWith, Naming, Of
<1> QED  BY <1>1, <1>2, <1>3, <1>4

LEMMA WhatStays ==
  ASSUME NEW a, NEW r, NEW x \in DOMAIN Removed(a, r)
  PROVE  /\ x \in DOMAIN a \ FallsWith(a, r)
         /\ Removed(a, r)[x].kind = a[x].kind /\ Removed(a, r)[x].is = a[x].is
         /\ Removed(a, r)[x].refs \subseteq a[x].refs
         /\ a[x].kind \notin Holding => Removed(a, r)[x].refs = a[x].refs
<1> DEFINE c == Removed(a, r)
           gone == FallsWith(a, r)
<1>1. x \in DOMAIN a \ gone
  BY DEF Removed
<1>2. CASE a[x].kind \in Holding /\ a[x].refs \cap gone # {}
  <2>1. c[x] = [a[x] EXCEPT !.refs = @ \ gone,
                            !.state = IF a[x].kind = "volume" /\ a[x].refs \subseteq gone
                                      THEN "available" ELSE @]
    BY <1>1, <1>2 DEF Removed
  <2> QED  BY <1>1, <1>2, <2>1
<1>3. CASE ~ (a[x].kind \in Holding /\ a[x].refs \cap gone # {})
  <2>1. c[x] = a[x]
    BY <1>1, <1>3 DEF Removed
  <2> QED  BY <1>1, <2>1
<1> QED  BY <1>2, <1>3

LEMMA RemovalLeaves ==
  ASSUME NEW a, NEW r PROVE DOMAIN Removed(a, r) = DOMAIN a \ FallsWith(a, r)
BY DEF Removed

LEMMA RemovedSorted ==
  ASSUME Everyday, NEW s \in DOMAIN Scenes, NEW a, Sorted(s, a), NEW r
  PROVE  Sorted(s, Removed(a, r))
<1> DEFINE c == Removed(a, r)
<1>1. IsFiniteSet(DOMAIN c)
  BY RemovalLeaves, FS_Subset DEF Sorted
<1>2. ASSUME NEW x \in DOMAIN c PROVE OwnOf(s, x, c[x]) \/ \E y \in Owned(s) : CopyIn(s, x, c[x], y)
  <2>1. /\ x \in DOMAIN a /\ c[x].kind = a[x].kind /\ c[x].is = a[x].is
        /\ c[x].refs \subseteq a[x].refs /\ (a[x].kind \notin Holding => c[x].refs = a[x].refs)
    BY <1>2, WhatStays
  <2> HIDE DEF c
  <2>2. CASE OwnOf(s, x, a[x])
    BY <2>1, <2>2 DEF OwnOf
  <2>3. CASE \E y \in Owned(s) : CopyIn(s, x, a[x], y)
    <3>1. PICK y \in Owned(s) : CopyIn(s, x, a[x], y)
      BY <2>3
    <3>2. a[x].kind # "image" => a[x].kind \notin Holding
      BY <3>1, CopiedAsIs DEF CopyIn, Holding
    <3>3. CopyIn(s, x, c[x], y)
      BY <2>1, <3>1, <3>2 DEF CopyIn
    <3> QED  BY <3>3
  <2> QED  BY <2>1, <2>2, <2>3 DEF Sorted
<1> QED  BY <1>1, <1>2 DEF Sorted

\* Deleting brings nothing about, whatever falls with what is deleted.
LEMMA RemovalOnward ==
  ASSUME Everyday, NEW s \in DOMAIN Scenes, NEW a, Sorted(s, a), NEW r,
         NEW mv, NEW nv, nv \subseteq mv
  PROVE  Onward(s, mv, a, nv, Removed(a, r))
<1> DEFINE c == Removed(a, r)
<1>1. Sorted(s, c)
  BY RemovedSorted
<1>2. \A x \in DOMAIN c :
        x \in DOMAIN a /\ c[x].is = a[x].is /\ c[x].refs \subseteq a[x].refs
  BY WhatStays
<1> HIDE DEF c
<1>3. Onward(s, mv, a, nv, c)
  BY <1>1, <1>2 DEF Onward
<1> QED  BY <1>3 DEF c

(*****************************************************************************)
(* What copying adds.                                                        *)
(*****************************************************************************)
LEMMA CopiesAdded ==
  ASSUME NEW a, NEW of, NEW kind, NEW x \in DOMAIN WithCopies(a, of, kind)
  PROVE  /\ x \in DOMAIN a => WithCopies(a, of, kind)[x] = a[x]
         /\ x \notin DOMAIN a =>
              /\ \E y \in of : x = CopyOf(y)
              /\ WithCopies(a, of, kind)[x].kind = kind
              /\ WithCopies(a, of, kind)[x].refs = {y \in of : CopyOf(y) = x}
              /\ WithCopies(a, of, kind)[x].is = {}
BY DEF WithCopies, Resource

LEMMA CopiesAreThere ==
  ASSUME NEW a, NEW of, NEW kind
  PROVE  DOMAIN WithCopies(a, of, kind) = DOMAIN a \cup {CopyOf(y) : y \in of}
BY DEF WithCopies

LEMMA CopiesFinite ==
  ASSUME NEW of, IsFiniteSet(of) PROVE IsFiniteSet({CopyOf(y) : y \in of})
<1> DEFINE f == [y \in of |-> CopyOf(y)]
           T == {CopyOf(y) : y \in of}
<1>1. f \in [of -> T]
  OBVIOUS
<1>2. \A t \in T : \E y \in of : f[y] = t
  OBVIOUS
<1>3. f \in Surjection(of, T)
  BY <1>1, <1>2 DEF Surjection
<1> QED  BY <1>3, FS_Surjection

LEMMA CopiesSorted ==
  ASSUME Everyday, NEW s \in DOMAIN Scenes, NEW a, Sorted(s, a),
         NEW of, of \subseteq DOMAIN a, NEW k, of \subseteq OfKind(s, k),
         NEW kind, <<k, kind>> \in CopiedAs, kind # "image"
  PROVE  Sorted(s, WithCopies(a, of, kind))
<1> DEFINE c == WithCopies(a, of, kind)
<1>1. IsFiniteSet(DOMAIN c)
  <2>1. IsFiniteSet(of) /\ IsFiniteSet(DOMAIN a)
    BY FS_Subset DEF Sorted
  <2>2. IsFiniteSet({CopyOf(y) : y \in of})
    BY <2>1, CopiesFinite
  <2>3. IsFiniteSet(DOMAIN a \cup {CopyOf(y) : y \in of})
    BY <2>1, <2>2, FS_Union
  <2> QED  BY <2>3, CopiesAreThere
<1>2. ASSUME NEW x \in DOMAIN c PROVE OwnOf(s, x, c[x]) \/ \E y \in Owned(s) : CopyIn(s, x, c[x], y)
  <2>0. /\ x \in DOMAIN a => c[x] = a[x]
        /\ x \notin DOMAIN a => /\ \E y \in of : x = CopyOf(y)
                               /\ c[x].kind = kind /\ c[x].refs = {z \in of : CopyOf(z) = x}
    BY <1>2, CopiesAdded
  <2> HIDE DEF c
  <2>1. CASE x \in DOMAIN a
    BY <2>0, <2>1 DEF Sorted
  <2>2. CASE x \notin DOMAIN a
    <3>1. PICK y \in of : x = CopyOf(y)
      BY <2>0, <2>2
    <3>3. y \in Owned(s) /\ y \in OfKind(s, k) /\ of \subseteq Owned(s)
      BY OneKind
    <3>4. {z \in of : CopyOf(z) = x} = {y}
      BY <3>1, <3>3, CopiesApart
    <3>5. c[x].kind = kind /\ c[x].refs = {y}
      BY <2>0, <2>2, <3>4
    <3>6. CopyIn(s, x, c[x], y)
      BY <3>1, <3>3, <3>5 DEF CopyIn
    <3> QED  BY <3>3, <3>6
  <2> QED  BY <2>1, <2>2
<1> QED  BY <1>1, <1>2 DEF Sorted

LEMMA WithSorted ==
  ASSUME NEW s, NEW a, Sorted(s, a), NEW r, NEW res,
         OwnOf(s, r, res) \/ \E y \in Owned(s) : CopyIn(s, r, res, y)
  PROVE  Sorted(s, With(a, r, res))
<1> DEFINE c == With(a, r, res)
<1>1. DOMAIN c = DOMAIN a \cup {r} /\ c[r] = res /\ \A x \in DOMAIN a \ {r} : c[x] = a[x]
  BY DEF With
<1> HIDE DEF c
<1>2. IsFiniteSet(DOMAIN c)
  BY <1>1, FS_AddElement DEF Sorted
<1>3. ASSUME NEW x \in DOMAIN c PROVE OwnOf(s, x, c[x]) \/ \E y \in Owned(s) : CopyIn(s, x, c[x], y)
  <2>1. CASE x = r
    BY <1>1, <2>1
  <2>2. CASE x # r
    BY <1>1, <1>3, <2>2 DEF Sorted
  <2> QED  BY <2>1, <2>2
<1>4. Sorted(s, c)
  BY <1>2, <1>3 DEF Sorted
<1> QED  BY <1>4 DEF c

\* No move makes what has the id of a copy.
LEMMA CopiesAreSpent ==
  ASSUME Everyday, NEW s \in DOMAIN Scenes, NEW mv, mv \subseteq Scenes[s].moves,
         NEW y \in Owned(s)
  PROVE  Spent(mv, CopyOf(y))
<1>1. \A m \in mv : m.does = "create" => m.id \in Owned(s)
  BY DEF Owned, Makes
<1> QED  BY <1>1, CopiesApart DEF Spent

LEMMA CopyingOnward ==
  ASSUME Everyday, NEW s \in DOMAIN Scenes, NEW a, Sorted(s, a),
         NEW of, of \subseteq DOMAIN a, NEW k, of \subseteq OfKind(s, k),
         NEW kind, <<k, kind>> \in CopiedAs, kind # "image",
         NEW mv, mv \subseteq Scenes[s].moves
  PROVE  Onward(s, mv, a, mv, WithCopies(a, of, kind))
<1> DEFINE c == WithCopies(a, of, kind)
<1>1. Sorted(s, c)
  BY CopiesSorted
<1>2. /\ DOMAIN c = DOMAIN a \cup {CopyOf(y) : y \in of}
      /\ \A x \in DOMAIN a : c[x] = a[x]
  BY DEF WithCopies
<1> HIDE DEF c
<1>3. of \subseteq Owned(s)
  BY OneKind
<1>4. \A r \in DOMAIN c : r \in DOMAIN a \/ Spent(mv, r)
  BY <1>2, <1>3, CopiesAreSpent
<1>5. \A r \in Owned(s) \cap DOMAIN c : r \in DOMAIN a
  BY <1>2, <1>3, CopiesApart
<1>6. \A y \in Owned(s) : CopyOf(y) \in DOMAIN c => CopyOf(y) \in DOMAIN a \/ y \in DOMAIN a
  <2> SUFFICES ASSUME NEW y \in Owned(s), CopyOf(y) \in DOMAIN c, CopyOf(y) \notin DOMAIN a
               PROVE  y \in DOMAIN a
    OBVIOUS
  <2>1. PICK z \in of : CopyOf(y) = CopyOf(z)
    BY <1>2
  <2> QED  BY <1>3, <2>1, CopiesApart
<1>7. Onward(s, mv, a, mv, c)
  BY <1>1, <1>2, <1>4, <1>5, <1>6 DEF Onward
<1> QED  BY <1>7 DEF c

ImageOf(a, i) == CallEffect(a, "ec2.create_image", i)

LEMMA ImageOnward ==
  ASSUME Everyday, NEW s \in DOMAIN Scenes, NEW a, Sorted(s, a),
         NEW i \in DOMAIN a, i \in OfKind(s, "instance"),
         NEW mv, mv \subseteq Scenes[s].moves
  PROVE  /\ Onward(s, mv, a, mv, ImageOf(a, i))
         /\ DOMAIN a \subseteq DOMAIN ImageOf(a, i)
         /\ \A v \in Naming(a, "volume", i) : CopyOf(v) \in DOMAIN ImageOf(a, i)
         /\ \A x \in DOMAIN a \ {CopyOf(i)} : ImageOf(a, i)[x] = a[x]
<1> DEFINE vs == Naming(a, "volume", i)
           c == WithCopies(a, vs, "snapshot")
           res == Resource("image", "none", {CopyOf(v) : v \in vs}, {"young"})
           d == With(c, CopyOf(i), res)
<1>1. ImageOf(a, i) = d
  BY DEF ImageOf, CallEffect
<1>2. vs \subseteq DOMAIN a /\ vs \subseteq OfKind(s, "volume")
  <2>1. ASSUME NEW v \in vs PROVE v \in DOMAIN a /\ v \in OfKind(s, "volume")
    <3>1. v \in DOMAIN a /\ a[v].kind = "volume"
      BY DEF Naming, Of
    <3>2. ASSUME NEW y, CopyIn(s, v, a[v], y) PROVE FALSE
      <4>1. PICK k : <<k, "volume">> \in CopiedAs
        BY <3>1, <3>2 DEF CopyIn
      <4> QED  BY <4>1, CopiedAsIs
    <3>3. OwnOf(s, v, a[v])
      BY <3>1, <3>2 DEF Sorted
    <3> QED  BY <3>1, <3>3 DEF OwnOf
  <2> QED  BY <2>1
<1>3. i \in Owned(s)
  BY OneKind
<1>4. res.kind = "image" /\ res.refs = {CopyOf(v) : v \in vs} /\ res.is = {"young"}
  BY DEF Resource
<1>5. CopyIn(s, CopyOf(i), res, i)
  <2>1. \A w \in res.refs : \E v \in OfKind(s, "volume") : w = CopyOf(v)
    BY <1>2, <1>4
  <2> HIDE DEF res, vs
  <2> QED  BY <1>3, <1>4, <2>1, CopiedAsIs DEF CopyIn
<1>6. Onward(s, mv, a, mv, c) /\ DOMAIN c = DOMAIN a \cup {CopyOf(v) : v \in vs}
      /\ \A x \in DOMAIN a : c[x] = a[x]
  <2>1. \A x \in DOMAIN a : c[x] = a[x]
    BY DEF WithCopies
  <2> HIDE DEF vs, c
  <2>2. <<"volume", "snapshot">> \in CopiedAs
    BY CopiedAsIs
  <2>3. Onward(s, mv, a, mv, c)
    BY <1>2, <2>2, CopyingOnward DEF c
  <2> QED  BY <2>1, <2>3, CopiesAreThere DEF c
<1> HIDE DEF vs, c, res
<1>7. /\ DOMAIN d = DOMAIN c \cup {CopyOf(i)}
      /\ \A x \in DOMAIN c \ {CopyOf(i)} : d[x] = c[x]
  BY DEF With
<1>8. Sorted(s, d)
  BY <1>3, <1>5, <1>6, WithSorted DEF Onward
<1> HIDE DEF d
<1>9. CopyOf(i) \notin Owned(s) /\ Spent(mv, CopyOf(i))
      /\ \A y \in Owned(s) : CopyOf(y) = CopyOf(i) => y = i
  BY <1>3, CopiesApart, CopiesAreSpent
<1>10. Onward(s, mv, a, mv, d)
  BY <1>6, <1>7, <1>8, <1>9 DEF Onward
<1> QED  BY <1>1, <1>6, <1>7, <1>10 DEF vs

LEMMA SameDomainOnward ==
  ASSUME NEW s, NEW a, Sorted(s, a), NEW mv, NEW c, DOMAIN c = DOMAIN a,
         \A x \in DOMAIN a : /\ c[x].kind = a[x].kind /\ c[x].refs = a[x].refs
                             /\ a[x].is \subseteq c[x].is
                             /\ c[x].is \cap Lasting \subseteq a[x].is
  PROVE  Onward(s, mv, a, mv, c)
<1>1. ASSUME NEW x \in DOMAIN c PROVE OwnOf(s, x, c[x]) \/ \E y \in Owned(s) : CopyIn(s, x, c[x], y)
  <2>1. CASE OwnOf(s, x, a[x])
    BY <2>1 DEF OwnOf
  <2>2. CASE \E y \in Owned(s) : CopyIn(s, x, a[x], y)
    <3>1. PICK y \in Owned(s) : CopyIn(s, x, a[x], y)
      BY <2>2
    <3>2. CopyIn(s, x, c[x], y)
      BY <3>1 DEF CopyIn
    <3> QED  BY <3>2
  <2> QED  BY <2>1, <2>2 DEF Sorted
<1>2. Sorted(s, c)
  BY <1>1 DEF Sorted
<1> QED  BY <1>2 DEF Onward

LEMMA TurnedOnward ==
  ASSUME NEW s, NEW a, Sorted(s, a), NEW mv, NEW r, NEW fact, fact \notin Lasting
  PROVE  Onward(s, mv, a, mv, Turned(a, r, fact)) /\ DOMAIN Turned(a, r, fact) = DOMAIN a
<1> DEFINE c == Turned(a, r, fact)
<1>1. DOMAIN c = DOMAIN a
  BY DEF Turned
<1>2. ASSUME NEW x \in DOMAIN a
      PROVE  /\ c[x].kind = a[x].kind /\ c[x].refs = a[x].refs
             /\ a[x].is \subseteq c[x].is /\ c[x].is \subseteq a[x].is \cup {fact}
  <2>1. CASE x = r
    <3>1. c[x] = [a[x] EXCEPT !.is = @ \cup {fact}]
      BY <1>2, <2>1 DEF Turned
    <3> QED  BY <3>1
  <2>2. CASE x # r
    BY <1>2, <2>2 DEF Turned
  <2> QED  BY <2>1, <2>2
<1> HIDE DEF c
<1>3. Onward(s, mv, a, mv, c)
  BY <1>1, <1>2, SameDomainOnward
<1> QED  BY <1>1, <1>3 DEF c

LEMMA TurnedToOnward ==
  ASSUME NEW s, NEW a, Sorted(s, a), NEW mv, NEW r, NEW state
  PROVE  Onward(s, mv, a, mv, TurnedTo(a, r, state)) /\ DOMAIN TurnedTo(a, r, state) = DOMAIN a
<1> DEFINE c == TurnedTo(a, r, state)
<1>1. DOMAIN c = DOMAIN a
  BY DEF TurnedTo
<1>2. ASSUME NEW x \in DOMAIN a
      PROVE  c[x].kind = a[x].kind /\ c[x].refs = a[x].refs /\ c[x].is = a[x].is
  <2>1. CASE x = r
    <3>1. c[x] = [a[x] EXCEPT !.state = state]
      BY <1>2, <2>1 DEF TurnedTo
    <3> QED  BY <3>1
  <2>2. CASE x # r
    BY <1>2, <2>2 DEF TurnedTo
  <2> QED  BY <2>1, <2>2
<1> HIDE DEF c
<1>3. Onward(s, mv, a, mv, c)
  BY <1>1, <1>2, SameDomainOnward
<1> QED  BY <1>1, <1>3 DEF c

(*****************************************************************************)
(* What a call spares: of an account that was bf when cleaning began and is  *)
(* a before the call, b after it.                                            *)
(*****************************************************************************)
HoldsData(res) ==
  /\ res.kind \in {"volume", "database", "ls-instance", "ls-disk"}
  /\ "system" \notin res.is

Spared(s, bf, a, b) ==
  /\ \A x \in Owned(s) \cap DOMAIN bf : CopyOf(x) \in DOMAIN a => CopyOf(x) \in DOMAIN b
  /\ \A x \in DOMAIN bf \cap DOMAIN a :
       HoldsData(bf[x]) => x \in DOMAIN b \/ CopyOf(x) \in DOMAIN b
  /\ \A i \in Of(a, "image") :
       "young" \in a[i].is => i \in DOMAIN b /\ a[i].refs \subseteq DOMAIN b

NoNewSystem(s, bf, a) ==
  \A x \in Owned(s) \cap DOMAIN bf \cap DOMAIN a : "system" \in a[x].is => "system" \in bf[x].is

\* Behind an image are snapshots, and they are there.
LEMMA BehindImages ==
  ASSUME Everyday, NEW s \in DOMAIN Scenes, NEW a, Sorted(s, a), Sound(a),
         NEW i \in Of(a, "image"), NEW w \in a[i].refs
  PROVE  w \in DOMAIN a /\ a[w].kind = "snapshot"
<1>1. i \in DOMAIN a /\ a[i].kind = "image"
  BY DEF Of
<1>2. w \in DOMAIN a
  BY <1>1 DEF Sound, Holding
<1>3. CASE OwnOf(s, i, a[i])
  BY <1>1, <1>2, <1>3, SortedTells DEF OwnOf
<1>4. CASE \E y \in Owned(s) : CopyIn(s, i, a[i], y)
  <2>1. PICK v \in OfKind(s, "volume") : w = CopyOf(v)
    BY <1>1, <1>4 DEF CopyIn
  <2>2. v \in Owned(s)
    BY OneKind
  <2>3. CopyIn(s, w, a[w], v)
    BY <1>2, <2>1, <2>2, SortedTells
  <2>4. <<"volume", a[w].kind>> \in CopiedAs
    BY <2>1, <2>3, CopyTells
  <2> QED  BY <1>2, <2>4, CopiedAsIs
<1> QED  BY <1>1, <1>3, <1>4 DEF Sorted

LEMMA GrowthSpares ==
  ASSUME Everyday, NEW s \in DOMAIN Scenes, NEW a, Sorted(s, a), Sound(a),
         NEW bf, NEW b, DOMAIN a \subseteq DOMAIN b
  PROVE  Spared(s, bf, a, b)
<1>1. \A i \in Of(a, "image") : i \in DOMAIN a /\ a[i].refs \subseteq DOMAIN a
  BY BehindImages DEF Of
<1> QED  BY <1>1 DEF Spared

\* Deleting r is in order if r is no copy of what there was, what r holds has
\* been copied, and r is neither a young image nor behind one.
InOrder(s, bf, a, r) ==
  /\ \A x \in Owned(s) \cap DOMAIN bf : r # CopyOf(x)
  /\ r \in DOMAIN bf \cap DOMAIN a /\ HoldsData(bf[r]) => CopyOf(r) \in DOMAIN a
  /\ a[r].kind = "instance" =>
       \A v \in DOMAIN bf \cap DOMAIN a :
         a[v].kind = "volume" /\ "root" \in a[v].is /\ r \in a[v].refs => CopyOf(v) \in DOMAIN a
  /\ \A i \in Of(a, "image") : "young" \in a[i].is => r # i /\ r \notin a[i].refs

LEMMA RemovalSpares ==
  ASSUME Everyday, NEW s \in DOMAIN Scenes, NEW a, Sorted(s, a), Sound(a),
         NEW bf, Sorted(s, bf), NoNewSystem(s, bf, a), NEW r, InOrder(s, bf, a, r)
  PROVE  Spared(s, bf, a, Removed(a, r))
<1> DEFINE b == Removed(a, r)
<1>1. DOMAIN b = DOMAIN a \ FallsWith(a, r)
  BY RemovalLeaves
<1> HIDE DEF b
<1>2. ASSUME NEW x \in Owned(s) \cap DOMAIN bf, CopyOf(x) \in DOMAIN a PROVE CopyOf(x) \in DOMAIN b
  <2>1. CopyOf(x) # r
    BY DEF InOrder
  <2>2. CopyIn(s, CopyOf(x), a[CopyOf(x)], x)
    BY <1>2, SortedTells
  <2>3. a[CopyOf(x)].kind \notin {"interface", "zone", "volume", "ls-disk"}
    BY <2>2, CopiedAsIs DEF CopyIn
  <2> QED  BY <1>1, <1>2, <2>1, <2>3, WhatFalls
<1>3. ASSUME NEW x \in DOMAIN bf \cap DOMAIN a, HoldsData(bf[x])
      PROVE  x \in DOMAIN b \/ CopyOf(x) \in DOMAIN b
  <2>0. bf[x].kind \in {"volume", "database", "ls-instance", "ls-disk"}
    BY <1>3 DEF HoldsData
  <2>1. ASSUME NEW y, CopyIn(s, x, bf[x], y) PROVE FALSE
    <3>1. PICK k : <<k, bf[x].kind>> \in CopiedAs
      BY <2>1 DEF CopyIn
    <3> QED  BY <2>0, <3>1, CopiedAsIs
  <2>2. x \in OfKind(s, bf[x].kind) /\ x \in Owned(s)
    BY <2>1, OneKind DEF Sorted, OwnOf
  <2>3. a[x].kind = bf[x].kind
    BY <2>2, SortedTells
  <2>4. "system" \notin a[x].is
    BY <1>3, <2>2 DEF HoldsData, NoNewSystem
  <2>5. CASE x \notin FallsWith(a, r)
    BY <1>1, <2>5
  <2>6. CASE x = r
    BY <1>2, <1>3, <2>2, <2>6 DEF InOrder
  <2>7. CASE x \in FallsWith(a, r) /\ x # r
    <3>1. a[x].kind = "volume" /\ "root" \in a[x].is /\ r \in a[x].refs /\ a[r].kind = "instance"
      BY <1>3, <2>3, <2>4, <2>7, WhatFalls DEF HoldsData
    <3>2. CopyOf(x) \in DOMAIN a
      BY <3>1 DEF InOrder
    <3> QED  BY <1>2, <2>2, <3>2
  <2> QED  BY <2>5, <2>6, <2>7
<1>4. ASSUME NEW i \in Of(a, "image"), "young" \in a[i].is
      PROVE  i \in DOMAIN b /\ a[i].refs \subseteq DOMAIN b
  <2>1. i # r /\ r \notin a[i].refs
    BY <1>4 DEF InOrder
  <2>2. i \in DOMAIN a /\ a[i].kind = "image"
    BY DEF Of
  <2>3. i \in DOMAIN b
    BY <1>1, <2>1, <2>2, WhatFalls
  <2>4. ASSUME NEW w \in a[i].refs PROVE w \in DOMAIN b
    <3>1. w \in DOMAIN a /\ a[w].kind = "snapshot" /\ w # r
      BY <2>1, BehindImages
    <3> QED  BY <1>1, <3>1, WhatFalls
  <2> QED  BY <2>3, <2>4
<1>5. Spared(s, bf, a, b)
  BY <1>2, <1>3, <1>4 DEF Spared
<1> QED  BY <1>5 DEF b

(*****************************************************************************)
(* The calls of the plans. With the moves mv left, r is gone for good, or i  *)
(* is no young image and will not be one.                                    *)
(*****************************************************************************)
Stale(mv, a, r) == Spent(mv, r) /\ r \notin DOMAIN a
Old(mv, a, i) == Spent(mv, i) /\ (i \in DOMAIN a => "young" \notin a[i].is)

Copying ==
  {"ec2.create_snapshot", "ec2.create_image", "lightsail.create_instance_snapshot",
   "lightsail.create_disk_snapshot", "rds.delete_db_instance"}

\* A step that takes no data with it, nor the copy of any there was.
Harmless(s, mv, a, bf, st) ==
  /\ st.operation \notin Copying
  /\ \/ st.target \notin Owned(s) /\ \A y \in Owned(s) : st.target # CopyOf(y)
     \/ \E k :
          /\ st.target \in OfKind(s, k)
          /\ \A l : <<k, l>> \notin CopiedAs
          /\ k = "image" => Old(mv, a, st.target)
          /\ k = "snapshot" => st.operation = "ec2.delete_snapshot"
     \/ \E y \in Owned(s) :
          /\ st.target = CopyOf(y) /\ Stale(mv, a, y) /\ y \notin DOMAIN bf
          /\ y \notin OfKind(s, "instance")
          /\ y \in OfKind(s, "volume") => st.operation = "ec2.delete_snapshot"

\* What is copied before it is deleted, and the two calls.
SaveFirst ==
  {<<"volume", "ec2.create_snapshot", "ec2.delete_volume">>,
   <<"instance", "ec2.create_image", "ec2.terminate_instances">>,
   <<"ls-instance", "lightsail.create_instance_snapshot", "lightsail.delete_instance">>,
   <<"ls-disk", "lightsail.create_disk_snapshot", "lightsail.delete_disk">>}

\* The first of the two calls has been made.
Saved(bf, a, kind, r) ==
  IF kind = "instance"
  THEN \A v \in DOMAIN bf \cap DOMAIN a :
         a[v].kind = "volume" /\ "root" \in a[v].is /\ r \in a[v].refs => CopyOf(v) \in DOMAIN a
  ELSE CopyOf(r) \in DOMAIN a

LEMMA OnIs == \A op, r : On(op, r).operation = op /\ On(op, r).target = r
BY DEF On, StepIn

\* What such a step deletes is in order.
LEMMA HarmlessInOrder ==
  ASSUME Everyday, NEW s \in DOMAIN Scenes, NEW a, Sorted(s, a), Sound(a),
         NEW bf, Sorted(s, bf), NEW mv, NEW st, Harmless(s, mv, a, bf, st),
         ~ Refused(a, st.operation, st.target)
  PROVE  InOrder(s, bf, a, st.target)
<1> DEFINE r == st.target
<1>0. r \in DOMAIN a
  BY DEF Refused
<1>1. CASE r \notin Owned(s) /\ \A y \in Owned(s) : r # CopyOf(y)
  BY <1>0, <1>1, SortedTells
<1>2. CASE \E k : /\ r \in OfKind(s, k)
                  /\ \A l : <<k, l>> \notin CopiedAs
                  /\ k = "image" => Old(mv, a, r)
                  /\ k = "snapshot" => st.operation = "ec2.delete_snapshot"
  <2>1. PICK k : /\ r \in OfKind(s, k)
                 /\ \A l : <<k, l>> \notin CopiedAs
                 /\ k = "image" => Old(mv, a, r)
                 /\ k = "snapshot" => st.operation = "ec2.delete_snapshot"
    BY <1>2
  <2>2. k \notin {"volume", "database", "instance", "ls-instance", "ls-disk"}
    BY <2>1, CopiedAsIs
  <2>3. r \in Owned(s) /\ a[r].kind = k
    BY <1>0, <2>1, OneKind, SortedTells
  <2>4. \A x \in Owned(s) : r # CopyOf(x)
    BY <2>3, CopiesApart
  <2>5. r \in DOMAIN bf => ~ HoldsData(bf[r])
    <3>1. r \in DOMAIN bf => bf[r].kind = k
      BY <2>1, SortedTells
    <3> QED  BY <2>2, <3>1 DEF HoldsData
  <2>6. ASSUME NEW i \in Of(a, "image"), "young" \in a[i].is PROVE r # i /\ r \notin a[i].refs
    <3>1. r # i
      BY <1>0, <2>1, <2>3, <2>6 DEF Of, Old
    <3>2. ASSUME r \in a[i].refs PROVE FALSE
      <4>1. a[r].kind = "snapshot"
        BY <3>2, BehindImages
      <4>2. st.operation = "ec2.delete_snapshot" /\ i \in Naming(a, "image", r)
        BY <2>1, <2>3, <3>2, <4>1 DEF Naming
      <4> QED  BY <4>2 DEF Refused
    <3> QED  BY <3>1, <3>2
  <2> HIDE DEF r
  <2> QED  BY <2>2, <2>3, <2>4, <2>5, <2>6 DEF InOrder, r
<1>3. CASE \E y \in Owned(s) :
             /\ r = CopyOf(y) /\ Stale(mv, a, y) /\ y \notin DOMAIN bf
             /\ y \notin OfKind(s, "instance")
             /\ y \in OfKind(s, "volume") => st.operation = "ec2.delete_snapshot"
  <2>1. PICK y \in Owned(s) :
             /\ r = CopyOf(y) /\ Stale(mv, a, y) /\ y \notin DOMAIN bf
             /\ y \notin OfKind(s, "instance")
             /\ y \in OfKind(s, "volume") => st.operation = "ec2.delete_snapshot"
    BY <1>3
  <2>2. r \notin Owned(s) /\ \A x \in Owned(s) : r = CopyOf(x) => x = y
    BY <2>1, CopiesApart
  <2>3. CopyIn(s, r, a[r], y)
    BY <1>0, <2>1, SortedTells
  <2>4. PICK k : y \in OfKind(s, k) /\ <<k, a[r].kind>> \in CopiedAs
    BY <2>3 DEF CopyIn
  <2>5. k # "instance"
    BY <2>1, <2>4
  <2>6. a[r].kind \notin {"image", "instance"} /\ (a[r].kind = "snapshot" => k = "volume")
    BY <2>4, <2>5, CopiedAsIs
  <2>7. r \in DOMAIN bf => ~ HoldsData(bf[r])
    <3>1. ASSUME r \in DOMAIN bf PROVE CopyIn(s, r, bf[r], y)
      BY <2>1, <3>1, SortedTells
    <3>2. r \in DOMAIN bf =>
            bf[r].kind \notin {"volume", "database", "ls-instance", "ls-disk"}
      BY <3>1, CopiedAsIs DEF CopyIn
    <3> QED  BY <3>2 DEF HoldsData
  <2>8. ASSUME NEW i \in Of(a, "image"), "young" \in a[i].is PROVE r # i /\ r \notin a[i].refs
    <3>1. r # i
      BY <2>6 DEF Of
    <3>2. ASSUME r \in a[i].refs PROVE FALSE
      <4>1. a[r].kind = "snapshot"
        BY <3>2, BehindImages
      <4>2. st.operation = "ec2.delete_snapshot" /\ i \in Naming(a, "image", r)
        BY <2>1, <2>4, <2>6, <3>2, <4>1 DEF Naming
      <4> QED  BY <4>2 DEF Refused
    <3> QED  BY <3>1, <3>2
  <2> HIDE DEF r
  <2> QED  BY <2>1, <2>2, <2>6, <2>7, <2>8 DEF InOrder, r
<1> QED  BY <1>1, <1>2, <1>3 DEF Harmless

LEMMA HarmlessCall ==
  ASSUME Everyday, NEW s \in DOMAIN Scenes, NEW a, Sorted(s, a), Sound(a),
         NEW bf, Sorted(s, bf), NoNewSystem(s, bf, a), NEW mv, NEW st,
         Harmless(s, mv, a, bf, st), ~ Refused(a, st.operation, st.target)
  PROVE  /\ Onward(s, mv, a, mv, CallEffect(a, st.operation, st.target))
         /\ Spared(s, bf, a, CallEffect(a, st.operation, st.target))
<1> DEFINE op == st.operation
           r == st.target
           b == CallEffect(a, op, r)
<1>0. op \notin Copying /\ InOrder(s, bf, a, r)
  BY HarmlessInOrder DEF Harmless
<1> HIDE DEF r, op
<1>1. CASE op \in {"logs.put_retention_policy", "secretsmanager.delete_secret"}
  <2>1. \E fact \in {"retention", "deleted"} : b = Turned(a, r, fact)
    BY <1>1 DEF CallEffect
  <2> HIDE DEF b
  <2>2. Onward(s, mv, a, mv, b) /\ DOMAIN b = DOMAIN a
    BY <2>1, TurnedOnward DEF Lasting
  <2>3. Spared(s, bf, a, b)
    BY <2>2, GrowthSpares
  <2> QED  BY <2>2, <2>3 DEF b, op, r
<1>2. CASE op \in {"kms.schedule_key_deletion", "lightsail.update_container_service"}
  <2>1. \E state : b = TurnedTo(a, r, state)
    BY <1>2 DEF CallEffect
  <2> HIDE DEF b
  <2>2. Onward(s, mv, a, mv, b) /\ DOMAIN b = DOMAIN a
    BY <2>1, TurnedToOnward
  <2>3. Spared(s, bf, a, b)
    BY <2>2, GrowthSpares
  <2> QED  BY <2>2, <2>3 DEF b, op, r
<1>3. CASE op \notin
         {"logs.put_retention_policy", "secretsmanager.delete_secret",
          "kms.schedule_key_deletion", "lightsail.update_container_service"}
  <2>1. b = Removed(a, r)
    BY <1>0, <1>3 DEF CallEffect, Copying
  <2> HIDE DEF b
  <2>2. Onward(s, mv, a, mv, b)
    BY <2>1, RemovalOnward
  <2>3. Spared(s, bf, a, b)
    BY <1>0, <2>1, RemovalSpares
  <2> QED  BY <2>2, <2>3 DEF b, op, r
<1> QED  BY <1>1, <1>2, <1>3

\* What is not an image and not behind one: the kinds a plan copies.
LEMMA NoImage ==
  ASSUME Everyday, NEW s \in DOMAIN Scenes, NEW a, Sorted(s, a), Sound(a),
         NEW r \in DOMAIN a, a[r].kind \notin {"image", "snapshot"}
  PROVE  \A i \in Of(a, "image") : r # i /\ r \notin a[i].refs
BY BehindImages DEF Of

LEMMA FirstCall ==
  ASSUME Everyday, NEW s \in DOMAIN Scenes, NEW a, Sorted(s, a), Sound(a), NEW bf, NEW mv,
         mv \subseteq Scenes[s].moves,
         NEW way \in SaveFirst, NEW r \in DOMAIN a, r \in OfKind(s, way[1])
  PROVE  /\ Onward(s, mv, a, mv, CallEffect(a, way[2], r))
         /\ Spared(s, bf, a, CallEffect(a, way[2], r))
         /\ Saved(bf, CallEffect(a, way[2], r), way[1], r)
<1>0. r \in Owned(s)
  BY OneKind
<1>1. CASE way = <<"instance", "ec2.create_image", "ec2.terminate_instances">>
  <2> DEFINE b == ImageOf(a, r)
  <2>1. CallEffect(a, way[2], r) = b /\ way[1] = "instance"
    BY <1>1 DEF ImageOf
  <2>2. /\ Onward(s, mv, a, mv, b) /\ DOMAIN a \subseteq DOMAIN b
        /\ \A v \in Naming(a, "volume", r) : CopyOf(v) \in DOMAIN b
        /\ \A x \in DOMAIN a \ {CopyOf(r)} : b[x] = a[x]
    BY <2>1, ImageOnward
  <2> HIDE DEF b
  <2>3. Spared(s, bf, a, b)
    BY <2>2, GrowthSpares
  <2>4. ASSUME NEW v \in DOMAIN b, b[v].kind = "volume", r \in b[v].refs
        PROVE  CopyOf(v) \in DOMAIN b
    <3>1. ASSUME NEW y \in Owned(s), v = CopyOf(y) PROVE FALSE
      <4>1. CopyIn(s, v, b[v], y)
        BY <2>2, <3>1, SortedTells DEF Onward
      <4>2. PICK k : <<k, b[v].kind>> \in CopiedAs
        BY <4>1 DEF CopyIn
      <4> QED  BY <2>4, <4>2, CopiedAsIs
    <3>2. v \in Owned(s) /\ OwnOf(s, v, b[v])
      BY <2>2, <3>1, SortedTells DEF Onward
    <3>3. v # CopyOf(r) /\ v \in OfKind(s, "volume")
      BY <1>0, <2>4, <3>1, <3>2 DEF OwnOf
    <3>4. v \in DOMAIN a \/ ~ Spent(mv, v)
      BY <2>2, <3>2 DEF Onward
    <3>5. v \in DOMAIN a
      BY <2>2, <2>4, <3>4 DEF Onward
    <3> QED  BY <2>2, <2>4, <3>3, <3>5 DEF Naming, Of
  <2>5. Saved(bf, b, "instance", r)
    BY <2>4 DEF Saved
  <2> QED  BY <2>1, <2>2, <2>3, <2>5
<1>2. CASE way # <<"instance", "ec2.create_image", "ec2.terminate_instances">>
  <2>1. PICK kind : /\ CallEffect(a, way[2], r) = WithCopies(a, {r}, kind)
                    /\ <<way[1], kind>> \in CopiedAs /\ kind # "image" /\ way[1] # "instance"
    <3>1. CASE way[2] = "ec2.create_snapshot"
      BY <1>2, <3>1, CopiedAsIs DEF SaveFirst, CallEffect
    <3>2. CASE way[2] = "lightsail.create_instance_snapshot"
      BY <1>2, <3>2, CopiedAsIs DEF SaveFirst, CallEffect
    <3>3. CASE way[2] = "lightsail.create_disk_snapshot"
      BY <1>2, <3>3, CopiedAsIs DEF SaveFirst, CallEffect
    <3>4. way[2] \in {"ec2.create_snapshot", "lightsail.create_instance_snapshot",
                      "lightsail.create_disk_snapshot"}
      BY <1>2 DEF SaveFirst
    <3> QED  BY <3>1, <3>2, <3>3, <3>4
  <2> DEFINE b == WithCopies(a, {r}, kind)
  <2>2. DOMAIN b = DOMAIN a \cup {CopyOf(r)}
    BY DEF WithCopies
  <2>3. Onward(s, mv, a, mv, b)
    BY <2>1, CopyingOnward
  <2> HIDE DEF b
  <2>4. Spared(s, bf, a, b)
    BY <2>2, GrowthSpares
  <2>5. Saved(bf, b, way[1], r)
    BY <2>1, <2>2 DEF Saved
  <2> QED  BY <2>1, <2>3, <2>4, <2>5 DEF b
<1> QED  BY <1>1, <1>2

LEMMA SecondCall ==
  ASSUME Everyday, NEW s \in DOMAIN Scenes, NEW a, Sorted(s, a), Sound(a),
         NEW bf, Sorted(s, bf), NoNewSystem(s, bf, a), NEW mv,
         NEW way \in SaveFirst, NEW r \in DOMAIN a, r \in OfKind(s, way[1]),
         Saved(bf, a, way[1], r)
  PROVE  /\ Onward(s, mv, a, mv, CallEffect(a, way[3], r))
         /\ Spared(s, bf, a, CallEffect(a, way[3], r))
<1>1. way[1] \in {"volume", "instance", "ls-instance", "ls-disk"}
      /\ CallEffect(a, way[3], r) = Removed(a, r)
  BY DEF SaveFirst, CallEffect
<1>2. a[r].kind = way[1] /\ r \in Owned(s)
  BY OneKind, SortedTells
<1>3. \A i \in Of(a, "image") : r # i /\ r \notin a[i].refs
  BY <1>1, <1>2, NoImage
<1>4. \A x \in Owned(s) : r # CopyOf(x)
  BY <1>2, CopiesApart
<1>5. r \in DOMAIN bf => bf[r].kind = way[1]
  BY SortedTells
<1>6. InOrder(s, bf, a, r)
  BY <1>2, <1>3, <1>4, <1>5 DEF InOrder, Saved, HoldsData
<1> QED  BY <1>1, <1>6, RemovalOnward, RemovalSpares

LEMMA DatabaseCall ==
  ASSUME Everyday, NEW s \in DOMAIN Scenes, NEW a, Sorted(s, a), Sound(a),
         NEW bf, Sorted(s, bf), NoNewSystem(s, bf, a),
         NEW mv, mv \subseteq Scenes[s].moves,
         NEW r \in DOMAIN a, r \in OfKind(s, "database")
  PROVE  /\ Onward(s, mv, a, mv, CallEffect(a, "rds.delete_db_instance", r))
         /\ Spared(s, bf, a, CallEffect(a, "rds.delete_db_instance", r))
<1> DEFINE c == WithCopies(a, {r}, "db-snapshot")
           b == Removed(c, r)
<1>1. CallEffect(a, "rds.delete_db_instance", r) = b
  BY DEF CallEffect
<1>2. DOMAIN c = DOMAIN a \cup {CopyOf(r)} /\ \A x \in DOMAIN a : c[x] = a[x]
  BY DEF WithCopies
<1> HIDE DEF c
<1>3. r \in Owned(s) /\ a[r].kind = "database"
  BY OneKind, SortedTells
<1>4. Sound(c)
  BY CopiesAreSound DEF c, CopyKinds
<1>5. Onward(s, mv, a, mv, c)
  BY CopyingOnward, CopiedAsIs DEF c
<1>6. Sorted(s, c) /\ Spared(s, bf, a, c)
  BY <1>2, <1>5, GrowthSpares DEF Onward
<1>7. NoNewSystem(s, bf, c)
  BY <1>2, <1>3, CopiesApart DEF NoNewSystem
<1>8. \A x \in Owned(s) : r # CopyOf(x)
  BY <1>3, CopiesApart
<1>9. r \in DOMAIN c /\ c[r].kind = "database"
  BY <1>2, <1>3
<1>10. \A i \in Of(c, "image") : r # i /\ r \notin c[i].refs
  BY <1>4, <1>6, <1>9, NoImage
<1>11. InOrder(s, bf, c, r)
  BY <1>2, <1>8, <1>9, <1>10 DEF InOrder
<1>12. Onward(s, mv, c, mv, b) /\ Spared(s, bf, c, b)
  BY <1>4, <1>6, <1>7, <1>11, RemovalOnward, RemovalSpares
<1> HIDE DEF b
<1>13. Onward(s, mv, a, mv, b)
  <2>1. /\ DOMAIN b \subseteq DOMAIN c
        /\ \A x \in DOMAIN b : b[x].is = c[x].is /\ b[x].refs \subseteq c[x].refs
    BY WhatStays DEF b
  <2>2. Sorted(s, b)
    BY <1>12 DEF Onward
  <2>3. \A x \in Owned(s) \cap DOMAIN c : x \in DOMAIN a
    BY <1>2, <1>3, CopiesApart
  <2> QED  BY <1>2, <1>5, <2>1, <2>2, <2>3 DEF Onward
<1>14. Spared(s, bf, a, b)
  <2>1. \A x \in Owned(s) \cap DOMAIN bf : CopyOf(x) \in DOMAIN a => CopyOf(x) \in DOMAIN b
    BY <1>2, <1>12 DEF Spared
  <2>2. \A x \in DOMAIN bf \cap DOMAIN a :
          HoldsData(bf[x]) => x \in DOMAIN b \/ CopyOf(x) \in DOMAIN b
    BY <1>2, <1>12 DEF Spared
  <2>3. \A i \in Of(a, "image") : i \in Of(c, "image") /\ c[i] = a[i]
    BY <1>2 DEF Of
  <2> QED  BY <1>12, <2>1, <2>2, <2>3 DEF Spared
<1> QED  BY <1>1, <1>13, <1>14

(*****************************************************************************)
(* What the owner does.                                                      *)
(*****************************************************************************)
\* The same copies are there as before.
SameCopies(s, a, b) == \A y \in Owned(s) : CopyOf(y) \in DOMAIN a <=> CopyOf(y) \in DOMAIN b

LEMMA OwnMoves ==
  ASSUME Everyday, NEW s \in DOMAIN Scenes, NEW m \in Scenes[s].moves
  PROVE  /\ m.id \in Owned(s) /\ \A y \in Owned(s) : m.id # CopyOf(y)
         /\ m.does \in {"create", "change"} /\ m.to.kind = "image" =>
              m.to.refs \subseteq OfKind(s, "snapshot")
         /\ m.does = "change" => m.to.is \cap Lasting = {}
         /\ m.does = "create" =>
              m \in Makes(s) /\ m.id \in OfKind(s, m.to.kind) /\ m.id \notin DOMAIN Scenes[s].there
<1>1. /\ m.id \in Owned(s)
      /\ m.does \in {"create", "change"} /\ m.to.kind = "image" =>
           m.to.refs \subseteq OfKind(s, "snapshot")
      /\ m.does = "change" => m.to.is \cap Lasting = {}
  BY DEF Everyday, Ordinary, Lasting
<1>2. m.does = "create" => m \in Makes(s) /\ m.id \in OfKind(s, m.to.kind)
  BY DEF Makes, OfKind
<1>3. m.does = "create" => m.id \notin DOMAIN Scenes[s].there
  BY <1>2 DEF Everyday, GivenOnce
<1> QED  BY <1>1, <1>2, <1>3, CopiesApart

LEMMA WithCopiesTheSame ==
  ASSUME NEW s, NEW a, NEW r, NEW res, \A y \in Owned(s) : r # CopyOf(y)
  PROVE  SameCopies(s, a, With(a, r, res))
BY DEF SameCopies, With

LEMMA CreateOnward ==
  ASSUME Everyday, NEW s \in DOMAIN Scenes, NEW mv, mv \subseteq Scenes[s].moves,
         NEW a, Sorted(s, a), NEW m \in mv, m.does = "create", m.id \notin DOMAIN a
  PROVE  /\ Onward(s, mv, a, mv \ {m}, With(a, m.id, m.to))
         /\ SameCopies(s, a, With(a, m.id, m.to))
<1> DEFINE b == With(a, m.id, m.to)
<1>1. /\ m.id \in Owned(s) /\ \A y \in Owned(s) : m.id # CopyOf(y)
      /\ m \in Makes(s) /\ OwnOf(s, m.id, m.to)
  BY OwnMoves DEF OwnOf
<1>2. DOMAIN b = DOMAIN a \cup {m.id} /\ \A x \in DOMAIN a : b[x] = a[x]
  BY DEF With
<1> HIDE DEF b
<1>3. Sorted(s, b)
  BY <1>1, WithSorted DEF b
<1>4. Spent(mv \ {m}, m.id)
  <2>1. \A n \in Makes(s) : n.id = m.id => n = m
    BY <1>1 DEF Everyday, GivenOnce
  <2>2. \A n \in mv : n.does = "create" => n \in Makes(s)
    BY DEF Makes
  <2> QED  BY <2>1, <2>2 DEF Spent
<1>5. ~ Spent(mv, m.id)
  BY DEF Spent
<1>6. Onward(s, mv, a, mv \ {m}, b)
  BY <1>1, <1>2, <1>3, <1>4, <1>5 DEF Onward
<1>7. SameCopies(s, a, b)
  BY <1>1, WithCopiesTheSame DEF b
<1> QED  BY <1>6, <1>7 DEF b

LEMMA ChangeOnward ==
  ASSUME Everyday, NEW s \in DOMAIN Scenes, NEW mv, mv \subseteq Scenes[s].moves,
         NEW a, Sorted(s, a), NEW m \in mv, m.does = "change", m.id \in DOMAIN a,
         SameThings(With(a, m.id, m.to), a)
  PROVE  /\ Onward(s, mv, a, mv \ {m}, With(a, m.id, m.to))
         /\ SameCopies(s, a, With(a, m.id, m.to))
<1> DEFINE b == With(a, m.id, m.to)
<1>1. /\ m.id \in Owned(s) /\ \A y \in Owned(s) : m.id # CopyOf(y)
      /\ m.to.kind = "image" => m.to.refs \subseteq OfKind(s, "snapshot")
      /\ m.to.is \cap Lasting = {}
  BY OwnMoves
<1>2. DOMAIN b = DOMAIN a /\ b[m.id] = m.to /\ \A x \in DOMAIN a \ {m.id} : b[x] = a[x]
  BY DEF With
<1> HIDE DEF b
<1>3. m.to.kind = a[m.id].kind
  BY <1>2 DEF SameThings, SameThing, b
<1>4. OwnOf(s, m.id, a[m.id])
  BY <1>1, SortedTells
<1>5. OwnOf(s, m.id, m.to)
  BY <1>1, <1>3, <1>4 DEF OwnOf
<1>6. Sorted(s, b)
  BY <1>5, WithSorted DEF b
<1>7. \A x \in DOMAIN a : /\ b[x].is \cap Lasting \subseteq a[x].is
                          /\ "root" \in b[x].is => b[x].refs \subseteq a[x].refs
  BY <1>1, <1>2 DEF Lasting
<1>8. Onward(s, mv, a, mv \ {m}, b)
  BY <1>2, <1>6, <1>7 DEF Onward
<1>9. SameCopies(s, a, b)
  BY <1>1, WithCopiesTheSame DEF b
<1> QED  BY <1>8, <1>9 DEF b

LEMMA DeleteOnward ==
  ASSUME Everyday, NEW s \in DOMAIN Scenes, NEW mv, mv \subseteq Scenes[s].moves,
         NEW a, Sorted(s, a), NEW m \in mv
  PROVE  /\ Onward(s, mv, a, mv \ {m}, Removed(a, m.id))
         /\ SameCopies(s, a, Removed(a, m.id))
<1>1. \A y \in Owned(s) : m.id # CopyOf(y)
  BY OwnMoves
<1>2. ASSUME NEW y \in Owned(s), CopyOf(y) \in DOMAIN a PROVE CopyOf(y) \notin FallsWith(a, m.id)
  <2>1. CopyIn(s, CopyOf(y), a[CopyOf(y)], y)
    BY <1>2, SortedTells
  <2>2. a[CopyOf(y)].kind \notin {"interface", "zone", "volume", "ls-disk"}
    BY <2>1, CopiedAsIs DEF CopyIn
  <2> QED  BY <1>1, <2>2, WhatFalls
<1>3. SameCopies(s, a, Removed(a, m.id))
  BY <1>2, RemovalLeaves DEF SameCopies
<1> QED  BY <1>3, RemovalOnward

\* What Owner asks of a move, and what it makes of the account.
LEMMA OwnerOnward ==
  ASSUME Everyday, NEW s \in DOMAIN Scenes, NEW mv, mv \subseteq Scenes[s].moves,
         NEW a, Sorted(s, a), NEW m \in mv, NEW b, SameThings(b, a),
         \/ m.does = "create" /\ m.id \notin DOMAIN a /\ b = With(a, m.id, m.to)
         \/ m.does = "change" /\ m.id \in DOMAIN a /\ b = With(a, m.id, m.to)
         \/ b = Removed(a, m.id)
  PROVE  Onward(s, mv, a, mv \ {m}, b) /\ SameCopies(s, a, b)
BY CreateOnward, ChangeOnward, DeleteOnward

(*****************************************************************************)
(* What stays true as the account goes on.                                   *)
(*****************************************************************************)
LEMMA GoneStays ==
  ASSUME NEW s, NEW mv, NEW a, NEW nv, NEW b, Onward(s, mv, a, nv, b), NEW r \in Owned(s)
  PROVE  /\ Stale(mv, a, r) => Stale(nv, b, r)
         /\ Old(mv, a, r) => Old(nv, b, r)
<1>1. Spent(mv, r) => Spent(nv, r)
  BY DEF Onward, Spent
<1>2. Stale(mv, a, r) => Stale(nv, b, r)
  BY <1>1 DEF Onward, Stale
<1>3. ASSUME Old(mv, a, r) PROVE Old(nv, b, r)
  <2>1. r \in DOMAIN b => r \in DOMAIN a
    BY <1>3 DEF Onward, Old
  <2>2. r \in DOMAIN b => (b[r].is \cap Lasting) \subseteq a[r].is
    BY <2>1 DEF Onward
  <2> QED  BY <1>1, <1>3, <2>1, <2>2 DEF Old, Lasting
<1> QED  BY <1>2, <1>3

LEMMA HarmlessStays ==
  ASSUME Everyday, NEW s \in DOMAIN Scenes, NEW mv, NEW a, NEW nv, NEW b,
         Onward(s, mv, a, nv, b), NEW bf, NEW bg, DOMAIN bg \subseteq DOMAIN bf,
         NEW st, Harmless(s, mv, a, bf, st)
  PROVE  Harmless(s, nv, b, bg, st)
<1>1. \A k : OfKind(s, k) \subseteq Owned(s)
  BY OneKind
<1> QED  BY <1>1, GoneStays DEF Harmless

\* Of an account that was bf when cleaning began: nothing that held data is
\* lost, and nothing that was there has come back as something else.
KeptOf(s, mv, a, bf) ==
  /\ Sorted(s, bf) /\ NoNewSystem(s, bf, a)
  /\ \A x \in DOMAIN bf : Spent(mv, x)
  /\ \A x \in DOMAIN bf : HoldsData(bf[x]) => x \in DOMAIN a \/ CopyOf(x) \in DOMAIN a

LEMMA DataIsOwned ==
  ASSUME Everyday, NEW s \in DOMAIN Scenes, NEW bf, Sorted(s, bf),
         NEW x \in DOMAIN bf, HoldsData(bf[x])
  PROVE  x \in Owned(s)
<1>1. ASSUME NEW y, CopyIn(s, x, bf[x], y) PROVE FALSE
  <2>1. PICK k : <<k, bf[x].kind>> \in CopiedAs
    BY <1>1 DEF CopyIn
  <2>2. bf[x].kind \in {"volume", "database", "ls-instance", "ls-disk"}
    BY DEF HoldsData
  <2> QED  BY <2>1, <2>2, CopiedAsIs
<1> QED  BY <1>1, SortedTells

LEMMA NoNewSystemStays ==
  ASSUME NEW s, NEW mv, NEW a, NEW nv, NEW b, Onward(s, mv, a, nv, b),
         NEW bf, NoNewSystem(s, bf, a), \A x \in DOMAIN bf : Spent(mv, x)
  PROVE  NoNewSystem(s, bf, b)
<1> SUFFICES ASSUME NEW x \in Owned(s) \cap DOMAIN bf \cap DOMAIN b, "system" \in b[x].is
             PROVE  "system" \in bf[x].is
  BY DEF NoNewSystem
<1>1. x \in DOMAIN a
  BY DEF Onward
<1>2. (b[x].is \cap Lasting) \subseteq a[x].is
  BY <1>1 DEF Onward
<1> QED  BY <1>1, <1>2 DEF NoNewSystem, Lasting

LEMMA CallKeepsData ==
  ASSUME Everyday, NEW s \in DOMAIN Scenes, NEW mv, NEW a, NEW b, NEW bf,
         Onward(s, mv, a, mv, b), Spared(s, bf, a, b), KeptOf(s, mv, a, bf)
  PROVE  KeptOf(s, mv, b, bf)
<1>1. NoNewSystem(s, bf, b)
  BY NoNewSystemStays DEF KeptOf
<1>2. ASSUME NEW x \in DOMAIN bf, HoldsData(bf[x]) PROVE x \in DOMAIN b \/ CopyOf(x) \in DOMAIN b
  <2>1. x \in Owned(s)
    BY <1>2, DataIsOwned DEF KeptOf
  <2>2. x \in DOMAIN a \/ CopyOf(x) \in DOMAIN a
    BY <1>2 DEF KeptOf
  <2> QED  BY <1>2, <2>1, <2>2 DEF Spared
<1> QED  BY <1>1, <1>2 DEF KeptOf

LEMMA OwnerKeepsData ==
  ASSUME Everyday, NEW s \in DOMAIN Scenes, NEW mv, NEW a, NEW nv, NEW b, NEW bf,
         Onward(s, mv, a, nv, b), SameCopies(s, a, b), KeptOf(s, mv, a, bf)
  PROVE  KeptOf(s, nv, b, Without(bf, DOMAIN a \ DOMAIN b))
<1>0. PICK gone : gone = DOMAIN a \ DOMAIN b
  OBVIOUS
<1> DEFINE bg == Without(bf, gone)
<1>1. DOMAIN bg = DOMAIN bf \ gone /\ \A x \in DOMAIN bf \ gone : bg[x] = bf[x]
  BY DEF Without
<1> HIDE DEF bg
<1>2. Sorted(s, bg)
  <2>1. IsFiniteSet(DOMAIN bg)
    BY <1>1, FS_Subset DEF KeptOf, Sorted
  <2> QED  BY <1>1, <2>1 DEF KeptOf, Sorted
<1>3. NoNewSystem(s, bf, b)
  BY NoNewSystemStays DEF KeptOf
<1>4. NoNewSystem(s, bg, b)
  BY <1>1, <1>3 DEF NoNewSystem
<1>5. \A x \in DOMAIN bg : Spent(nv, x)
  BY <1>1 DEF KeptOf, Spent, Onward
<1>6. ASSUME NEW x \in DOMAIN bg, HoldsData(bg[x]) PROVE x \in DOMAIN b \/ CopyOf(x) \in DOMAIN b
  <2>1. x \in DOMAIN bf /\ HoldsData(bf[x]) /\ (x \in DOMAIN a => x \in DOMAIN b)
    BY <1>0, <1>1, <1>6
  <2>2. x \in Owned(s)
    BY <2>1, DataIsOwned DEF KeptOf
  <2> QED  BY <2>1, <2>2 DEF KeptOf, SameCopies
<1>7. KeptOf(s, nv, b, bg)
  BY <1>2, <1>4, <1>5, <1>6 DEF KeptOf
<1> QED  BY <1>0, <1>7 DEF bg

LEMMA SavedStays ==
  ASSUME Everyday, NEW s \in DOMAIN Scenes, NEW mv, NEW a, Sorted(s, a), NEW nv, NEW b,
         Onward(s, mv, a, nv, b), SameCopies(s, a, b),
         NEW bf, \A x \in DOMAIN bf : Spent(mv, x), NEW bg, DOMAIN bg \subseteq DOMAIN bf,
         NEW kind, NEW r \in Owned(s), Saved(bf, a, kind, r)
  PROVE  Saved(bg, b, kind, r)
<1>1. CASE kind # "instance"
  BY <1>1 DEF Saved, SameCopies
<1>2. CASE kind = "instance"
  <2> SUFFICES ASSUME NEW v \in DOMAIN bg \cap DOMAIN b,
                      b[v].kind = "volume", "root" \in b[v].is, r \in b[v].refs
               PROVE  CopyOf(v) \in DOMAIN b
    BY <1>2 DEF Saved
  <2>1. v \in Owned(s)
    <3>1. Sorted(s, b)
      BY DEF Onward
    <3>2. ASSUME NEW y, CopyIn(s, v, b[v], y) PROVE FALSE
      <4>1. PICK k : <<k, "volume">> \in CopiedAs
        BY <3>2 DEF CopyIn
      <4> QED  BY <4>1, CopiedAsIs
    <3> QED  BY <3>1, <3>2, SortedTells
  <2>2. v \in DOMAIN a
    BY <2>1 DEF Onward
  <2>3. "root" \in a[v].is /\ r \in a[v].refs
    BY <2>1, <2>2 DEF Onward, Lasting
  <2>4. a[v].kind = "volume"
    <3>1. Sorted(s, b)
      BY DEF Onward
    <3>2. OwnOf(s, v, b[v])
      BY <2>1, <3>1, SortedTells
    <3>3. v \in OfKind(s, "volume")
      BY <3>2 DEF OwnOf
    <3> QED  BY <2>2, <3>3, SortedTells
  <2>5. CopyOf(v) \in DOMAIN a
    BY <1>2, <2>2, <2>3, <2>4 DEF Saved
  <2> QED  BY <2>1, <2>5 DEF SameCopies
<1> QED  BY <1>1, <1>2

(*****************************************************************************)
(* What the checks report, and the plans made of it.                         *)
(*****************************************************************************)
\* Each finding is of what was read, and of a kind the check judges; it counts
\* no charge but that of what it is of.
OfJudged(s, finds, kind) == \A f \in finds : f.id \in DOMAIN s /\ s[f.id].kind = kind
ReportsKind(c, s, finds, kind) ==
  OfJudged(s, finds, kind) /\ \A f \in finds : f.bills \subseteq {f.id}

LEMMA ReportedKind ==
  ASSUME NEW c, NEW s, NEW kind, NEW W, W \subseteq Of(s, kind)
  PROVE  /\ ReportsKind(c, s, Priced(c, W), kind)
         /\ ReportsKind(c, s, Estimated(c, W), kind)
         /\ ReportsKind(c, s, Free(c, W), kind)
<1>1. /\ OfJudged(s, Priced(c, W), kind) /\ OfJudged(s, Estimated(c, W), kind)
      /\ OfJudged(s, Free(c, W), kind)
  BY PricedReports, EstimatedReports, FreeReports DEF Reports, OfJudged, Of
<1>2. \A f \in Priced(c, W) \cup Estimated(c, W) \cup Free(c, W) : f.bills \subseteq {f.id}
  BY DEF Priced, Estimated, Free, Finding
<1> QED  BY <1>1, <1>2 DEF ReportsKind

LEMMA WasteIsOfKind ==
  ASSUME NEW s, NEW kind
  PROVE  /\ \A state : In(s, kind, state) \subseteq Of(s, kind)
         /\ \A W : \A facts : W \subseteq Of(s, kind) => Unless(s, W, facts) \subseteq Of(s, kind)
BY DEF In, Unless

LEMMA FoundAreRead ==
  ASSUME NEW s
  PROVE  /\ ReportsKind("unattached-ebs", s, unattached_ebs(s).finds, "volume")
         /\ ReportsKind("unmounted-efs", s, unmounted_efs(s).finds, "file-system")
         /\ ReportsKind("ecr-stale-images", s, ecr_stale_images(s).finds, "repository")
         /\ ReportsKind("unassociated-eip", s, unassociated_eip(s).finds, "address")
         /\ ReportsKind("available-eni", s, available_eni(s).finds, "interface")
         /\ ReportsKind("detached-internet-gateway", s, detached_internet_gateway(s).finds,
                        "gateway")
         /\ ReportsKind("unused-security-group", s, unused_security_group(s).finds, "group")
         /\ ReportsKind("idle-nat-gateway", s, idle_nat_gateway(s).finds, "nat")
         /\ ReportsKind("unused-vpc-endpoint", s, unused_vpc_endpoint(s).finds, "endpoint")
         /\ ReportsKind("empty-vpc", s, empty_vpc(s).finds, "vpc")
         /\ ReportsKind("idle-load-balancer", s, idle_load_balancer(s).finds, "balancer")
         /\ ReportsKind("empty-classic-lb", s, classic_load_balancer(s).finds, "classic")
         /\ ReportsKind("stopped-rds-instance", s, stopped_rds_instance(s).finds, "database")
         /\ ReportsKind("orphaned-rds-snapshot", s, orphaned_rds_snapshot(s).finds, "db-snapshot")
         /\ ReportsKind("idle-provisioned-dynamodb", s, idle_provisioned_dynamodb(s).finds, "table")
         /\ ReportsKind("log-group-no-retention", s, log_group_no_retention(s).finds, "log-group")
         /\ ReportsKind("disabled-kms-key", s, disabled_kms_key(s).finds, "key")
         /\ ReportsKind("stale-secret", s, stale_secret(s).finds, "secret")
         /\ ReportsKind("unused-route53-health-check", s, unused_route53_health_check(s).finds,
                        "health-check")
         /\ ReportsKind("lightsail-stopped-instance", s, lightsail_stopped_instance(s).finds,
                        "ls-instance")
         /\ ReportsKind("lightsail-unattached-disk", s, lightsail_unattached_disk(s).finds,
                        "ls-disk")
         /\ ReportsKind("lightsail-unattached-static-ip", s,
                        lightsail_unattached_static_ip(s).finds, "ls-ip")
         /\ ReportsKind("lightsail-empty-load-balancer", s, lightsail_empty_load_balancer(s).finds,
                        "ls-balancer")
         /\ ReportsKind("lightsail-idle-container-service", s,
                        lightsail_idle_container_service(s).finds, "ls-service")
         /\ ReportsKind("orphaned-snapshot", s, orphaned_snapshots(s).finds, "snapshot")
<1>1. ReportsKind("unattached-ebs", s, unattached_ebs(s).finds, "volume")
  BY ReportedKind, WasteIsOfKind DEF unattached_ebs
<1>2. ReportsKind("unmounted-efs", s, unmounted_efs(s).finds, "file-system")
  BY ReportedKind, WasteIsOfKind DEF unmounted_efs
<1>3. ReportsKind("ecr-stale-images", s, ecr_stale_images(s).finds, "repository")
  BY ReportedKind, WasteIsOfKind DEF ecr_stale_images
<1>4. ReportsKind("unassociated-eip", s, unassociated_eip(s).finds, "address")
  BY ReportedKind, WasteIsOfKind DEF unassociated_eip
<1>5. ReportsKind("available-eni", s, available_eni(s).finds, "interface")
  BY ReportedKind, WasteIsOfKind DEF available_eni, simple_check
<1>6. ReportsKind("detached-internet-gateway", s, detached_internet_gateway(s).finds, "gateway")
  BY ReportedKind, WasteIsOfKind DEF detached_internet_gateway, simple_check
<1>7. ReportsKind("unused-security-group", s, unused_security_group(s).finds, "group")
  BY ReportedKind, WasteIsOfKind DEF unused_security_group
<1>8. ReportsKind("idle-nat-gateway", s, idle_nat_gateway(s).finds, "nat")
  BY ReportedKind, WasteIsOfKind DEF idle_nat_gateway
<1>9. ReportsKind("unused-vpc-endpoint", s, unused_vpc_endpoint(s).finds, "endpoint")
  BY ReportedKind, WasteIsOfKind DEF unused_vpc_endpoint
<1>10. ReportsKind("empty-vpc", s, empty_vpc(s).finds, "vpc")
  BY ReportedKind, WasteIsOfKind DEF empty_vpc
<1>11. ReportsKind("idle-load-balancer", s, idle_load_balancer(s).finds, "balancer")
  BY ReportedKind, WasteIsOfKind DEF idle_load_balancer
<1>12. ReportsKind("empty-classic-lb", s, classic_load_balancer(s).finds, "classic")
  BY ReportedKind, WasteIsOfKind DEF classic_load_balancer
<1>13. ReportsKind("stopped-rds-instance", s, stopped_rds_instance(s).finds, "database")
  BY ReportedKind, WasteIsOfKind DEF stopped_rds_instance
<1>14. ReportsKind("orphaned-rds-snapshot", s, orphaned_rds_snapshot(s).finds, "db-snapshot")
  BY ReportedKind, WasteIsOfKind DEF orphaned_rds_snapshot
<1>15. ReportsKind("idle-provisioned-dynamodb", s, idle_provisioned_dynamodb(s).finds, "table")
  BY ReportedKind, WasteIsOfKind DEF idle_provisioned_dynamodb
<1>16. ReportsKind("log-group-no-retention", s, log_group_no_retention(s).finds, "log-group")
  BY ReportedKind, WasteIsOfKind DEF log_group_no_retention
<1>17. ReportsKind("disabled-kms-key", s, disabled_kms_key(s).finds, "key")
  BY ReportedKind, WasteIsOfKind DEF disabled_kms_key
<1>18. ReportsKind("stale-secret", s, stale_secret(s).finds, "secret")
  BY ReportedKind, WasteIsOfKind DEF stale_secret
<1>19. ReportsKind("unused-route53-health-check", s, unused_route53_health_check(s).finds,
                   "health-check")
  BY ReportedKind, WasteIsOfKind DEF unused_route53_health_check
<1>20. ReportsKind("lightsail-stopped-instance", s, lightsail_stopped_instance(s).finds,
                   "ls-instance")
  BY ReportedKind, WasteIsOfKind DEF lightsail_stopped_instance
<1>21. ReportsKind("lightsail-unattached-disk", s, lightsail_unattached_disk(s).finds, "ls-disk")
  BY ReportedKind, WasteIsOfKind DEF lightsail_unattached_disk
<1>22. ReportsKind("lightsail-unattached-static-ip", s, lightsail_unattached_static_ip(s).finds,
                   "ls-ip")
  BY ReportedKind, WasteIsOfKind DEF lightsail_unattached_static_ip
<1>23. ReportsKind("lightsail-empty-load-balancer", s, lightsail_empty_load_balancer(s).finds,
                   "ls-balancer")
  BY ReportedKind, WasteIsOfKind DEF lightsail_empty_load_balancer
<1>24. ReportsKind("lightsail-idle-container-service", s,
                   lightsail_idle_container_service(s).finds, "ls-service")
  BY ReportedKind, WasteIsOfKind DEF lightsail_idle_container_service
<1>25. ReportsKind("orphaned-snapshot", s, orphaned_snapshots(s).finds, "snapshot")
  BY ReportedKind, WasteIsOfKind DEF orphaned_snapshots
<1> QED  BY <1>1, <1>2, <1>3, <1>4, <1>5, <1>6, <1>7, <1>8, <1>9, <1>10, <1>11, <1>12, <1>13,
        <1>14, <1>15, <1>16, <1>17, <1>18, <1>19, <1>20, <1>21, <1>22, <1>23, <1>24, <1>25

\* Those that count other charges: of an instance its volumes, of a bucket its uploads.
LEMMA BillsAreRead ==
  ASSUME NEW s
  PROVE  /\ OfJudged(s, stopped_instances(s).finds, "instance")
         /\ OfJudged(s, incomplete_multipart_upload(s).finds, "bucket")
         /\ \A f \in stopped_instances(s).finds : f.bills = Naming(s, "volume", f.id)
         /\ \A f \in incomplete_multipart_upload(s).finds : f.bills = Naming(s, "upload", f.id)
<1>1. ASSUME NEW f \in stopped_instances(s).finds
      PROVE  /\ f.id \in DOMAIN s /\ s[f.id].kind = "instance"
             /\ f.bills = Naming(s, "volume", f.id)
  <2>1. PICK i \in In(s, "instance", "stopped") :
          f = Finding("stopped-instance", i, Naming(s, "volume", i), FALSE)
    BY DEF stopped_instances
  <2>2. f.id = i /\ f.bills = Naming(s, "volume", i)
    BY <2>1 DEF Finding
  <2> QED  BY <2>2 DEF In, Of
<1>2. ASSUME NEW f \in incomplete_multipart_upload(s).finds
      PROVE  /\ f.id \in DOMAIN s /\ s[f.id].kind = "bucket"
             /\ f.bills = Naming(s, "upload", f.id)
  <2>1. PICK b \in Of(s, "bucket") :
          f = Finding("incomplete-multipart-upload", b, Naming(s, "upload", b), FALSE)
    BY DEF incomplete_multipart_upload
  <2>2. f.id = b /\ f.bills = Naming(s, "upload", b)
    BY <2>1 DEF Finding
  <2> QED  BY <2>2 DEF Of
<1> QED  BY <1>1, <1>2 DEF OfJudged

LEMMA DetailsAre ==
  /\ \A s, r : /\ AmiFinding(s, r).details.snapshot_ids = SetToSeq(s[r].refs)
               /\ AmiFinding(s, r).bills = s[r].refs
  /\ \A s, r : \/ ZoneFinding(s, r).details.namespace = NoNamespace
               \/ ZoneFinding(s, r).details.namespace.id = NamespaceOf(r)
  /\ \A s, r : ZoneFinding(s, r).bills = {r}
  /\ \A r, source : LightsailFinding(r, source).bills = {r}
BY DEF Finding, AmiFinding, ZoneFinding, LightsailFinding, NoDetails

LEMMA AmiFound ==
  ASSUME NEW s, NEW f \in unused_ami(s).finds
  PROVE  /\ f.id \in DOMAIN s /\ s[f.id].kind = "image" /\ "young" \notin s[f.id].is
         /\ f.details.snapshot_ids = SetToSeq(s[f.id].refs) /\ f.bills = s[f.id].refs
<1>1. PICK i \in Unless(s, Of(s, "image") \ UNION {s[i].refs : i \in Of(s, "instance")},
                        {"young", "undated"}) : f = AmiFinding(s, i)
  BY DEF unused_ami
<1>2. i \in DOMAIN s /\ s[i].kind = "image" /\ "young" \notin s[i].is
  BY DEF Unless, Of
<1> QED  BY <1>1, <1>2, DetailsAre, DetailedFindings

LEMMA ZoneFound ==
  ASSUME NEW s, NEW f \in unused_route53_zone(s).finds
  PROVE  /\ f.id \in DOMAIN s /\ s[f.id].kind = "zone"
         /\ f.details.namespace = NoNamespace \/ f.details.namespace.id = NamespaceOf(f.id)
         /\ f.bills \subseteq {f.id}
<1>1. PICK z \in Unless(s, Of(s, "zone"), {"records"}) : f = ZoneFinding(s, z)
  BY DEF unused_route53_zone
<1>2. z \in DOMAIN s /\ s[z].kind = "zone"
  BY DEF Unless, Of
<1> QED  BY <1>1, <1>2, DetailsAre, DetailedFindings

LEMMA LightsailFound ==
  ASSUME NEW s, NEW f \in lightsail_orphaned_snapshot(s).finds
  PROVE  /\ f.id \in DOMAIN s /\ s[f.id].kind \in {"ls-instance-snapshot", "ls-disk-snapshot"}
         /\ f.bills \subseteq {f.id}
<1>1. PICK kind \in {"ls-instance-snapshot", "ls-disk-snapshot"} :
        \E source, r : r \in Unless(s, Of(s, kind), {"auto", "unnamed"})
                        /\ f = LightsailFinding(r, source)
  BY DEF lightsail_orphaned_snapshot
<1>2. PICK r, source : r \in Unless(s, Of(s, kind), {"auto", "unnamed"})
                       /\ f = LightsailFinding(r, source)
  BY <1>1
<1>3. r \in DOMAIN s /\ s[r].kind = kind
  BY <1>2 DEF Unless, Of
<1> QED  BY <1>2, <1>3, DetailedFindings, DetailsAre

\* What each check reports it has read, and it is of a kind it judges; but for
\* three checks, it counts no other charge.
CountsOthers == {"unused-ami", "stopped-instance", "incomplete-multipart-upload"}
LEMMA FoundAreJudged ==
  ASSUME NEW c \in CheckNames, NEW s, NEW f \in CHECKS(c, s).finds
  PROVE  /\ f.id \in DOMAIN s /\ <<c, s[f.id].kind>> \in Judged
         /\ c \in CountsOthers \/ f.bills \subseteq {f.id}
<1>1. CASE c = "unattached-ebs"
  <2>1. f \in unattached_ebs(s).finds
    BY <1>1 DEF CHECKS
  <2>2. f.id \in DOMAIN s /\ s[f.id].kind = "volume" /\ f.bills \subseteq {f.id}
    BY <2>1, FoundAreRead DEF ReportsKind, OfJudged
  <2> QED  BY <1>1, <2>2 DEF Judged
<1>2. CASE c = "unmounted-efs"
  <2>1. f \in unmounted_efs(s).finds
    BY <1>2 DEF CHECKS
  <2>2. f.id \in DOMAIN s /\ s[f.id].kind = "file-system" /\ f.bills \subseteq {f.id}
    BY <2>1, FoundAreRead DEF ReportsKind, OfJudged
  <2> QED  BY <1>2, <2>2 DEF Judged
<1>3. CASE c = "ecr-stale-images"
  <2>1. f \in ecr_stale_images(s).finds
    BY <1>3 DEF CHECKS
  <2>2. f.id \in DOMAIN s /\ s[f.id].kind = "repository" /\ f.bills \subseteq {f.id}
    BY <2>1, FoundAreRead DEF ReportsKind, OfJudged
  <2> QED  BY <1>3, <2>2 DEF Judged
<1>4. CASE c = "unassociated-eip"
  <2>1. f \in unassociated_eip(s).finds
    BY <1>4 DEF CHECKS
  <2>2. f.id \in DOMAIN s /\ s[f.id].kind = "address" /\ f.bills \subseteq {f.id}
    BY <2>1, FoundAreRead DEF ReportsKind, OfJudged
  <2> QED  BY <1>4, <2>2 DEF Judged
<1>5. CASE c = "available-eni"
  <2>1. f \in available_eni(s).finds
    BY <1>5 DEF CHECKS
  <2>2. f.id \in DOMAIN s /\ s[f.id].kind = "interface" /\ f.bills \subseteq {f.id}
    BY <2>1, FoundAreRead DEF ReportsKind, OfJudged
  <2> QED  BY <1>5, <2>2 DEF Judged
<1>6. CASE c = "detached-internet-gateway"
  <2>1. f \in detached_internet_gateway(s).finds
    BY <1>6 DEF CHECKS
  <2>2. f.id \in DOMAIN s /\ s[f.id].kind = "gateway" /\ f.bills \subseteq {f.id}
    BY <2>1, FoundAreRead DEF ReportsKind, OfJudged
  <2> QED  BY <1>6, <2>2 DEF Judged
<1>7. CASE c = "unused-security-group"
  <2>1. f \in unused_security_group(s).finds
    BY <1>7 DEF CHECKS
  <2>2. f.id \in DOMAIN s /\ s[f.id].kind = "group" /\ f.bills \subseteq {f.id}
    BY <2>1, FoundAreRead DEF ReportsKind, OfJudged
  <2> QED  BY <1>7, <2>2 DEF Judged
<1>8. CASE c = "idle-nat-gateway"
  <2>1. f \in idle_nat_gateway(s).finds
    BY <1>8 DEF CHECKS
  <2>2. f.id \in DOMAIN s /\ s[f.id].kind = "nat" /\ f.bills \subseteq {f.id}
    BY <2>1, FoundAreRead DEF ReportsKind, OfJudged
  <2> QED  BY <1>8, <2>2 DEF Judged
<1>9. CASE c = "unused-vpc-endpoint"
  <2>1. f \in unused_vpc_endpoint(s).finds
    BY <1>9 DEF CHECKS
  <2>2. f.id \in DOMAIN s /\ s[f.id].kind = "endpoint" /\ f.bills \subseteq {f.id}
    BY <2>1, FoundAreRead DEF ReportsKind, OfJudged
  <2> QED  BY <1>9, <2>2 DEF Judged
<1>10. CASE c = "empty-vpc"
  <2>1. f \in empty_vpc(s).finds
    BY <1>10 DEF CHECKS
  <2>2. f.id \in DOMAIN s /\ s[f.id].kind = "vpc" /\ f.bills \subseteq {f.id}
    BY <2>1, FoundAreRead DEF ReportsKind, OfJudged
  <2> QED  BY <1>10, <2>2 DEF Judged
<1>11. CASE c = "idle-load-balancer"
  <2>1. f \in idle_load_balancer(s).finds
    BY <1>11 DEF CHECKS
  <2>2. f.id \in DOMAIN s /\ s[f.id].kind = "balancer" /\ f.bills \subseteq {f.id}
    BY <2>1, FoundAreRead DEF ReportsKind, OfJudged
  <2> QED  BY <1>11, <2>2 DEF Judged
<1>12. CASE c = "empty-classic-lb"
  <2>1. f \in classic_load_balancer(s).finds
    BY <1>12 DEF CHECKS
  <2>2. f.id \in DOMAIN s /\ s[f.id].kind = "classic" /\ f.bills \subseteq {f.id}
    BY <2>1, FoundAreRead DEF ReportsKind, OfJudged
  <2> QED  BY <1>12, <2>2 DEF Judged
<1>13. CASE c = "stopped-rds-instance"
  <2>1. f \in stopped_rds_instance(s).finds
    BY <1>13 DEF CHECKS
  <2>2. f.id \in DOMAIN s /\ s[f.id].kind = "database" /\ f.bills \subseteq {f.id}
    BY <2>1, FoundAreRead DEF ReportsKind, OfJudged
  <2> QED  BY <1>13, <2>2 DEF Judged
<1>14. CASE c = "orphaned-rds-snapshot"
  <2>1. f \in orphaned_rds_snapshot(s).finds
    BY <1>14 DEF CHECKS
  <2>2. f.id \in DOMAIN s /\ s[f.id].kind = "db-snapshot" /\ f.bills \subseteq {f.id}
    BY <2>1, FoundAreRead DEF ReportsKind, OfJudged
  <2> QED  BY <1>14, <2>2 DEF Judged
<1>15. CASE c = "idle-provisioned-dynamodb"
  <2>1. f \in idle_provisioned_dynamodb(s).finds
    BY <1>15 DEF CHECKS
  <2>2. f.id \in DOMAIN s /\ s[f.id].kind = "table" /\ f.bills \subseteq {f.id}
    BY <2>1, FoundAreRead DEF ReportsKind, OfJudged
  <2> QED  BY <1>15, <2>2 DEF Judged
<1>16. CASE c = "log-group-no-retention"
  <2>1. f \in log_group_no_retention(s).finds
    BY <1>16 DEF CHECKS
  <2>2. f.id \in DOMAIN s /\ s[f.id].kind = "log-group" /\ f.bills \subseteq {f.id}
    BY <2>1, FoundAreRead DEF ReportsKind, OfJudged
  <2> QED  BY <1>16, <2>2 DEF Judged
<1>17. CASE c = "disabled-kms-key"
  <2>1. f \in disabled_kms_key(s).finds
    BY <1>17 DEF CHECKS
  <2>2. f.id \in DOMAIN s /\ s[f.id].kind = "key" /\ f.bills \subseteq {f.id}
    BY <2>1, FoundAreRead DEF ReportsKind, OfJudged
  <2> QED  BY <1>17, <2>2 DEF Judged
<1>18. CASE c = "stale-secret"
  <2>1. f \in stale_secret(s).finds
    BY <1>18 DEF CHECKS
  <2>2. f.id \in DOMAIN s /\ s[f.id].kind = "secret" /\ f.bills \subseteq {f.id}
    BY <2>1, FoundAreRead DEF ReportsKind, OfJudged
  <2> QED  BY <1>18, <2>2 DEF Judged
<1>19. CASE c = "unused-route53-health-check"
  <2>1. f \in unused_route53_health_check(s).finds
    BY <1>19 DEF CHECKS
  <2>2. f.id \in DOMAIN s /\ s[f.id].kind = "health-check" /\ f.bills \subseteq {f.id}
    BY <2>1, FoundAreRead DEF ReportsKind, OfJudged
  <2> QED  BY <1>19, <2>2 DEF Judged
<1>20. CASE c = "lightsail-stopped-instance"
  <2>1. f \in lightsail_stopped_instance(s).finds
    BY <1>20 DEF CHECKS
  <2>2. f.id \in DOMAIN s /\ s[f.id].kind = "ls-instance" /\ f.bills \subseteq {f.id}
    BY <2>1, FoundAreRead DEF ReportsKind, OfJudged
  <2> QED  BY <1>20, <2>2 DEF Judged
<1>21. CASE c = "lightsail-unattached-disk"
  <2>1. f \in lightsail_unattached_disk(s).finds
    BY <1>21 DEF CHECKS
  <2>2. f.id \in DOMAIN s /\ s[f.id].kind = "ls-disk" /\ f.bills \subseteq {f.id}
    BY <2>1, FoundAreRead DEF ReportsKind, OfJudged
  <2> QED  BY <1>21, <2>2 DEF Judged
<1>22. CASE c = "lightsail-unattached-static-ip"
  <2>1. f \in lightsail_unattached_static_ip(s).finds
    BY <1>22 DEF CHECKS
  <2>2. f.id \in DOMAIN s /\ s[f.id].kind = "ls-ip" /\ f.bills \subseteq {f.id}
    BY <2>1, FoundAreRead DEF ReportsKind, OfJudged
  <2> QED  BY <1>22, <2>2 DEF Judged
<1>23. CASE c = "lightsail-empty-load-balancer"
  <2>1. f \in lightsail_empty_load_balancer(s).finds
    BY <1>23 DEF CHECKS
  <2>2. f.id \in DOMAIN s /\ s[f.id].kind = "ls-balancer" /\ f.bills \subseteq {f.id}
    BY <2>1, FoundAreRead DEF ReportsKind, OfJudged
  <2> QED  BY <1>23, <2>2 DEF Judged
<1>24. CASE c = "lightsail-idle-container-service"
  <2>1. f \in lightsail_idle_container_service(s).finds
    BY <1>24 DEF CHECKS
  <2>2. f.id \in DOMAIN s /\ s[f.id].kind = "ls-service" /\ f.bills \subseteq {f.id}
    BY <2>1, FoundAreRead DEF ReportsKind, OfJudged
  <2> QED  BY <1>24, <2>2 DEF Judged
<1>25. CASE c = "orphaned-snapshot"
  <2>1. f \in orphaned_snapshots(s).finds
    BY <1>25 DEF CHECKS
  <2>2. f.id \in DOMAIN s /\ s[f.id].kind = "snapshot" /\ f.bills \subseteq {f.id}
    BY <2>1, FoundAreRead DEF ReportsKind, OfJudged
  <2> QED  BY <1>25, <2>2 DEF Judged
<1>26. CASE c = "stopped-instance"
  <2>1. f \in stopped_instances(s).finds
    BY <1>26 DEF CHECKS
  <2>2. f.id \in DOMAIN s /\ s[f.id].kind = "instance"
    BY <2>1, BillsAreRead DEF OfJudged
  <2> QED  BY <1>26, <2>2 DEF Judged, CountsOthers
<1>27. CASE c = "incomplete-multipart-upload"
  <2>1. f \in incomplete_multipart_upload(s).finds
    BY <1>27 DEF CHECKS
  <2>2. f.id \in DOMAIN s /\ s[f.id].kind = "bucket"
    BY <2>1, BillsAreRead DEF OfJudged
  <2> QED  BY <1>27, <2>2 DEF Judged, CountsOthers
<1>28. CASE c = "unused-ami"
  <2>1. f \in unused_ami(s).finds
    BY <1>28 DEF CHECKS
  <2>2. f.id \in DOMAIN s /\ s[f.id].kind = "image"
    BY <2>1, AmiFound
  <2> QED  BY <1>28, <2>2 DEF Judged, CountsOthers
<1>29. CASE c = "unused-route53-zone"
  <2>1. f \in unused_route53_zone(s).finds
    BY <1>29 DEF CHECKS
  <2>2. f.id \in DOMAIN s /\ s[f.id].kind = "zone" /\ f.bills \subseteq {f.id}
    BY <2>1, ZoneFound
  <2> QED  BY <1>29, <2>2 DEF Judged
<1>30. CASE c = "lightsail-orphaned-snapshot"
  <2>1. f \in lightsail_orphaned_snapshot(s).finds
    BY <1>30 DEF CHECKS
  <2> QED  BY <1>30, <2>1, LightsailFound DEF Judged
<1> QED  BY <1>1, <1>2, <1>3, <1>4, <1>5, <1>6, <1>7, <1>8, <1>9, <1>10, <1>11, <1>12, <1>13,
        <1>14, <1>15, <1>16, <1>17, <1>18, <1>19, <1>20, <1>21, <1>22, <1>23, <1>24, <1>25, <1>26,
        <1>27, <1>28, <1>29, <1>30 DEF CheckNames

(*****************************************************************************)
(* While a check reads: D are the accounts there have been since it began.   *)
(*****************************************************************************)
\* What there is, and what a copy is of, is not made again.
OnceOf(s, mv, a) ==
  /\ \A r \in DOMAIN a : Spent(mv, r)
  /\ \A y \in Owned(s) : CopyOf(y) \in DOMAIN a => Spent(mv, y)

\* The copies have been there all along; what was gone at some moment, of
\* which there is a copy, is gone; and no image has become young.
MeanwhileOf(s, mv, a, D) ==
  \A d \in D :
    /\ Sorted(s, d) /\ SameCopies(s, d, a) /\ \A r \in DOMAIN d : Spent(mv, r)
    /\ \A y \in Owned(s) : CopyOf(y) \in DOMAIN a /\ y \notin DOMAIN d => Stale(mv, a, y)
    /\ \A i \in Owned(s) \cap DOMAIN a \cap DOMAIN d :
         "young" \in a[i].is => "young" \in d[i].is

LEMMA OnceStays ==
  ASSUME NEW s, NEW mv, NEW a, NEW nv, NEW b, Onward(s, mv, a, nv, b), OnceOf(s, mv, a)
  PROVE  OnceOf(s, nv, b)
<1>1. \A r : Spent(mv, r) => Spent(nv, r)
  BY DEF Onward, Spent
<1> QED  BY <1>1 DEF Onward, OnceOf

LEMMA MeanwhileBegins ==
  ASSUME NEW s, NEW mv, NEW a, Sorted(s, a), OnceOf(s, mv, a)
  PROVE  MeanwhileOf(s, mv, a, {a})
BY DEF MeanwhileOf, OnceOf, SameCopies, Stale

LEMMA MeanwhileStays ==
  ASSUME NEW s, NEW mv, NEW a, NEW nv, NEW b, Onward(s, mv, a, nv, b), SameCopies(s, a, b),
         OnceOf(s, mv, a), NEW D, MeanwhileOf(s, mv, a, D)
  PROVE  MeanwhileOf(s, nv, b, D \cup {b})
<1>1. \A r : Spent(mv, r) => Spent(nv, r)
  BY DEF Onward, Spent
<1>2. OnceOf(s, nv, b) /\ Sorted(s, b)
  BY OnceStays DEF Onward
<1>3. MeanwhileOf(s, nv, b, {b})
  BY <1>2, MeanwhileBegins
<1>4. ASSUME NEW d \in D
      PROVE  /\ Sorted(s, d) /\ SameCopies(s, d, b) /\ \A r \in DOMAIN d : Spent(nv, r)
             /\ \A y \in Owned(s) : CopyOf(y) \in DOMAIN b /\ y \notin DOMAIN d => Stale(nv, b, y)
             /\ \A i \in Owned(s) \cap DOMAIN b \cap DOMAIN d :
                  "young" \in b[i].is => "young" \in d[i].is
  <2>1. Sorted(s, d) /\ SameCopies(s, d, a) /\ \A r \in DOMAIN d : Spent(mv, r)
    BY DEF MeanwhileOf
  <2>2. SameCopies(s, d, b)
    BY <2>1 DEF SameCopies
  <2>3. ASSUME NEW y \in Owned(s), CopyOf(y) \in DOMAIN b, y \notin DOMAIN d PROVE Stale(nv, b, y)
    <3>1. Stale(mv, a, y)
      BY <2>3 DEF SameCopies, MeanwhileOf
    <3> QED  BY <1>1, <3>1 DEF Stale, Onward
  <2>4. ASSUME NEW i \in Owned(s) \cap DOMAIN b \cap DOMAIN d, "young" \in b[i].is
        PROVE  "young" \in d[i].is
    <3>1. i \in DOMAIN a
      BY <2>1 DEF Onward
    <3>2. (b[i].is \cap Lasting) \subseteq a[i].is
      BY <3>1 DEF Onward
    <3>3. "young" \in a[i].is
      BY <2>4, <3>2 DEF Lasting
    <3> QED  BY <3>1, <3>3 DEF MeanwhileOf
  <2> QED  BY <1>1, <2>1, <2>2, <2>3, <2>4
<1> QED  BY <1>3, <1>4 DEF MeanwhileOf

\* A finding is of something of the owner's, or of a copy of what is gone.
Fits(s, mv, a, f) ==
  /\ \E k :
       /\ <<f.check, k>> \in Judged
       /\ \/ /\ f.id \in OfKind(s, k)
             /\ f.check = "unused-ami" =>
                  Old(mv, a, f.id) /\ f.details.snapshot_ids \in Seq(OfKind(s, "snapshot"))
          \/ \E y \in Owned(s) :
               /\ f.id = CopyOf(y) /\ Stale(mv, a, y) /\ k # "image"
               /\ \E l : y \in OfKind(s, l) /\ <<l, k>> \in CopiedAs
  /\ f.check = "unused-route53-zone" =>
       f.details.namespace = NoNamespace \/ f.details.namespace.id = NamespaceOf(f.id)

LEMMA SeqOfSet ==
  ASSUME NEW S, IsFiniteSet(S)
  PROVE  /\ SetToSeq(S) \in [1 .. Cardinality(S) -> S] /\ Cardinality(S) \in Nat
         /\ \A T : S \subseteq T => SetToSeq(S) \in Seq(T)
<1>1. Cardinality(S) \in Nat
  BY FS_CardinalityType
<1>2. PICK e : e \in Bijection(1 .. Cardinality(S), S)
  BY FS_CardinalityType DEF ExistsBijection
<1>3. e \in [1 .. Cardinality(S) -> S] /\ IsInjective(e)
  BY <1>2 DEF Bijection, Injection
<1>4. SetToSeq(S) \in [1 .. Cardinality(S) -> S]
  BY <1>3 DEF SetToSeq
<1>5. ASSUME NEW T, S \subseteq T PROVE SetToSeq(S) \in Seq(T)
  <2>1. PICK n, q : n = Cardinality(S) /\ q = SetToSeq(S)
    OBVIOUS
  <2>2. n \in Nat /\ q \in [1 .. n -> T]
    BY <1>1, <1>4, <1>5, <2>1
  <2>3. q \in Seq(T)
    BY <2>2
  <2> QED  BY <2>1, <2>3
<1> QED  BY <1>1, <1>4, <1>5

LEMMA SourcesAreCopied ==
  \A l, k : <<l, k>> \in CopiedAs /\ k # "image" => <<l, k>> \in SourceOf
BY CopiedAsIs, SourceOfIs

LEMMA CopiedOneWay ==
  \A l, k, j : <<l, k>> \in CopiedAs /\ <<l, j>> \in CopiedAs => k = j
BY CopiedAsIs

LEMMA OnlyAmisJudgeImages == \A c : <<c, "image">> \in Judged => c = "unused-ami"
BY DEF Judged

\* What a check finds fits, of whatever has happened while it was reading.
LEMMA FoundFits ==
  ASSUME Everyday, NEW s \in DOMAIN Scenes, NEW mv, NEW a, NEW D, MeanwhileOf(s, mv, a, D),
         NEW seen0, Witnessed(D, seen0), NEW c \in CheckNames,
         Right(D, c, CHECKS(c, seen0).finds), NEW f \in CHECKS(c, seen0).finds
  PROVE  Fits(s, mv, a, f)
<1>1. PICK t, k : t = f.id /\ k = seen0[t].kind
  OBVIOUS
<1>2. t \in DOMAIN seen0 /\ <<c, k>> \in Judged /\ f.check = c
  BY <1>1, FoundAreJudged DEF Right
<1>3. PICK d \in D : t \in DOMAIN d /\ seen0[t] = d[t]
  BY <1>2, WasSeen
<1>4. Sorted(s, d) /\ SameCopies(s, d, a) /\ Spent(mv, t) /\ Sound(d)
  BY <1>3 DEF MeanwhileOf, Witnessed
<1>5. c = "unused-route53-zone" =>
        f.details.namespace = NoNamespace \/ f.details.namespace.id = NamespaceOf(t)
  BY <1>1, ZoneFound DEF CHECKS
<1>6. c = "unused-ami" =>
        /\ "young" \notin d[t].is /\ k = "image"
        /\ f.details.snapshot_ids = SetToSeq(d[t].refs)
  BY <1>1, <1>3, AmiFound DEF CHECKS
<1>7. CASE t \in Owned(s)
  <2>1. OwnOf(s, t, d[t])
    BY <1>3, <1>4, <1>7, SortedTells
  <2>2. t \in OfKind(s, k)
    BY <1>1, <1>3, <2>1 DEF OwnOf
  <2>3. ASSUME c = "unused-ami"
        PROVE  Old(mv, a, t) /\ f.details.snapshot_ids \in Seq(OfKind(s, "snapshot"))
    <3>1. Old(mv, a, t)
      BY <1>3, <1>4, <1>6, <1>7, <2>3 DEF Old, MeanwhileOf
    <3>2. d[t].refs \subseteq OfKind(s, "snapshot")
      BY <1>1, <1>3, <1>6, <2>1, <2>3 DEF OwnOf
    <3>3. d[t].refs \subseteq DOMAIN d
      BY <1>1, <1>3, <1>4, <1>6, <2>3 DEF Sound, Holding
    <3>4. IsFiniteSet(d[t].refs)
      BY <1>4, <3>3, FS_Subset DEF Sorted
    <3> QED  BY <1>6, <2>3, <3>1, <3>2, <3>4, SeqOfSet
  <2> QED  BY <1>1, <1>2, <1>5, <2>2, <2>3 DEF Fits
<1>8. CASE t \notin Owned(s)
  <2>1. PICK y \in Owned(s) : t = CopyOf(y)
    BY <1>3, <1>4, <1>8, SortedTells
  <2>2. CopyIn(s, t, d[t], y)
    BY <1>3, <1>4, <2>1, SortedTells
  <2>3. PICK l : y \in OfKind(s, l) /\ <<l, k>> \in CopiedAs
    BY <1>1, <1>3, <2>2 DEF CopyIn
  <2>4. k # "image"
    <3>1. k = "image" => "young" \in d[t].is
      BY <1>1, <1>3, <2>2 DEF CopyIn
    <3> QED  BY <1>2, <1>6, <3>1, OnlyAmisJudgeImages
  <2>5. PICK e \in D : ~ ({t, y} \subseteq DOMAIN e /\ Keeps(e, y, t))
    BY <1>1 DEF Right, InUse
  <2>6. t \in DOMAIN a /\ t \in DOMAIN e /\ Sorted(s, e)
    BY <1>3, <1>4, <2>1 DEF MeanwhileOf, SameCopies
  <2>7. y \notin DOMAIN e
    <3> SUFFICES ASSUME y \in DOMAIN e PROVE FALSE
      OBVIOUS
    <3>1. CopyIn(s, t, e[t], y) /\ e[y].kind = l
      BY <2>1, <2>3, <2>6, SortedTells
    <3>2. <<l, e[t].kind>> \in CopiedAs
      BY <2>3, <3>1, CopyTells
    <3>3. e[t].kind = k
      BY <2>3, <3>2, CopiedOneWay
    <3>4. y \in e[t].refs
      BY <2>4, <3>1, <3>3 DEF CopyIn
    <3>5. <<e[y].kind, e[t].kind>> \in SourceOf
      BY <2>3, <2>4, <3>1, <3>3, SourcesAreCopied
    <3> QED  BY <2>5, <2>6, <3>4, <3>5 DEF Keeps
  <2>8. Stale(mv, a, y)
    BY <2>1, <2>6, <2>7 DEF MeanwhileOf
  <2>9. c # "unused-route53-zone" \/ f.details.namespace = NoNamespace
          \/ f.details.namespace.id = NamespaceOf(f.id)
    BY <1>1, <1>5
  <2> QED  BY <1>1, <1>2, <2>1, <2>3, <2>4, <2>8, <2>9 DEF Fits
<1> QED  BY <1>7, <1>8

LEMMA FitsStays ==
  ASSUME Everyday, NEW s \in DOMAIN Scenes, NEW mv, NEW a, NEW nv, NEW b,
         Onward(s, mv, a, nv, b), NEW f, Fits(s, mv, a, f)
  PROVE  Fits(s, nv, b, f)
<1>1. \A k : OfKind(s, k) \subseteq Owned(s)
  BY OneKind
<1>2. PICK k :
        /\ <<f.check, k>> \in Judged
        /\ \/ /\ f.id \in OfKind(s, k)
              /\ f.check = "unused-ami" =>
                   Old(mv, a, f.id) /\ f.details.snapshot_ids \in Seq(OfKind(s, "snapshot"))
           \/ \E y \in Owned(s) :
                /\ f.id = CopyOf(y) /\ Stale(mv, a, y) /\ k # "image"
                /\ \E l : y \in OfKind(s, l) /\ <<l, k>> \in CopiedAs
  BY DEF Fits
<1>3. \/ /\ f.id \in OfKind(s, k)
         /\ f.check = "unused-ami" =>
              Old(nv, b, f.id) /\ f.details.snapshot_ids \in Seq(OfKind(s, "snapshot"))
      \/ \E y \in Owned(s) :
           /\ f.id = CopyOf(y) /\ Stale(nv, b, y) /\ k # "image"
           /\ \E l : y \in OfKind(s, l) /\ <<l, k>> \in CopiedAs
  BY <1>1, <1>2, GoneStays
<1> QED  BY <1>2, <1>3 DEF Fits

(*****************************************************************************)
(* The plans of a clean run: steps that are harmless, or the copying and the *)
(* deleting of one resource, of which the deleting may be what is left.      *)
(*****************************************************************************)
IsPlan(s, mv, a, bf, p) ==
  \/ p # <<>> /\ \E T : p \in Seq(T) /\ \A st \in T : Harmless(s, mv, a, bf, st)
  \/ \E way \in SaveFirst :
       \E r \in OfKind(s, way[1]) : p = <<On(way[2], r), On(way[3], r)>>
  \/ \E r \in OfKind(s, "database") : p = <<On("rds.delete_db_instance", r)>>

Halfway(s, bf, a, p) ==
  \E way \in SaveFirst :
    \E r \in OfKind(s, way[1]) : p = <<On(way[3], r)>> /\ Saved(bf, a, way[1], r)

LEMMA PlanStays ==
  ASSUME Everyday, NEW s \in DOMAIN Scenes, NEW mv, NEW a, NEW nv, NEW b,
         Onward(s, mv, a, nv, b), NEW bf, NEW bg, DOMAIN bg \subseteq DOMAIN bf,
         NEW p, IsPlan(s, mv, a, bf, p)
  PROVE  IsPlan(s, nv, b, bg, p)
<1>1. \A st : Harmless(s, mv, a, bf, st) => Harmless(s, nv, b, bg, st)
  BY HarmlessStays
<1>2. CASE p # <<>> /\ \E T : p \in Seq(T) /\ \A st \in T : Harmless(s, mv, a, bf, st)
  <2>1. PICK T : p \in Seq(T) /\ \A st \in T : Harmless(s, mv, a, bf, st)
    BY <1>2
  <2>2. \A st \in T : Harmless(s, nv, b, bg, st)
    BY <1>1, <2>1
  <2> QED  BY <1>2, <2>1, <2>2 DEF IsPlan
<1> QED  BY <1>2 DEF IsPlan

LEMMA HalfwayStays ==
  ASSUME Everyday, NEW s \in DOMAIN Scenes, NEW mv, NEW a, Sorted(s, a), NEW nv, NEW b,
         Onward(s, mv, a, nv, b), SameCopies(s, a, b),
         NEW bf, \A x \in DOMAIN bf : Spent(mv, x), NEW bg, DOMAIN bg \subseteq DOMAIN bf,
         NEW p, Halfway(s, bf, a, p)
  PROVE  Halfway(s, bg, b, p)
<1>1. PICK way, r :
          /\ way \in SaveFirst /\ r \in OfKind(s, way[1])
          /\ p = <<On(way[3], r)>> /\ Saved(bf, a, way[1], r)
  BY DEF Halfway
<1>2. r \in Owned(s)
  BY <1>1, OneKind
<1>3. Saved(bg, b, way[1], r)
  BY <1>1, <1>2, SavedStays
<1> QED  BY <1>1, <1>3 DEF Halfway

\* The next call of a plan takes no data with it, and leaves the rest of a plan.
LEMMA PlanCall ==
  ASSUME Everyday, NEW s \in DOMAIN Scenes, NEW a, Sorted(s, a), Sound(a),
         NEW bf, Sorted(s, bf), NoNewSystem(s, bf, a),
         NEW mv, mv \subseteq Scenes[s].moves,
         NEW p, IsPlan(s, mv, a, bf, p) \/ Halfway(s, bf, a, p),
         ~ Refused(a, Head(p).operation, Head(p).target),
         NEW b, b = CallEffect(a, Head(p).operation, Head(p).target)
  PROVE  /\ Onward(s, mv, a, mv, b) /\ Spared(s, bf, a, b)
         /\ Tail(p) = <<>> \/ IsPlan(s, mv, b, bf, Tail(p)) \/ Halfway(s, bf, b, Tail(p))
<1>0. Head(p).target \in DOMAIN a
  BY DEF Refused
<1>1. CASE p # <<>> /\ \E T : p \in Seq(T) /\ \A st \in T : Harmless(s, mv, a, bf, st)
  <2>1. PICK T : p \in Seq(T) /\ \A st \in T : Harmless(s, mv, a, bf, st)
    BY <1>1
  <2>2. Head(p) \in T /\ Tail(p) \in Seq(T)
    BY <1>1, <2>1
  <2>3. PICK st : st = Head(p)
    OBVIOUS
  <2>4. Onward(s, mv, a, mv, b) /\ Spared(s, bf, a, b)
    BY <2>1, <2>2, <2>3, HarmlessCall
  <2>5. \A x \in T : Harmless(s, mv, b, bf, x)
    BY <2>1, <2>4, HarmlessStays
  <2> QED  BY <2>2, <2>4, <2>5 DEF IsPlan
<1>2. CASE \E way \in SaveFirst :
             \E r \in OfKind(s, way[1]) : p = <<On(way[2], r), On(way[3], r)>>
  <2>1. PICK way, r :
          /\ way \in SaveFirst /\ r \in OfKind(s, way[1])
          /\ p = <<On(way[2], r), On(way[3], r)>>
    BY <1>2
  <2>2. Head(p) = On(way[2], r) /\ Tail(p) = <<On(way[3], r)>>
    BY <2>1
  <2>3. b = CallEffect(a, way[2], r) /\ r \in DOMAIN a
    BY <1>0, <2>2, OnIs
  <2>4. Onward(s, mv, a, mv, b) /\ Spared(s, bf, a, b) /\ Saved(bf, b, way[1], r)
    BY <2>1, <2>3, FirstCall
  <2> QED  BY <2>1, <2>2, <2>4 DEF Halfway
<1>3. CASE \E r \in OfKind(s, "database") : p = <<On("rds.delete_db_instance", r)>>
  <2>1. PICK r \in OfKind(s, "database") : p = <<On("rds.delete_db_instance", r)>>
    BY <1>3
  <2>2. Head(p) = On("rds.delete_db_instance", r) /\ Tail(p) = <<>>
    BY <2>1
  <2>3. b = CallEffect(a, "rds.delete_db_instance", r) /\ r \in DOMAIN a
    BY <1>0, <2>2, OnIs
  <2> QED  BY <2>2, <2>3, DatabaseCall
<1>4. CASE Halfway(s, bf, a, p)
  <2>1. PICK way, r :
          /\ way \in SaveFirst /\ r \in OfKind(s, way[1])
          /\ p = <<On(way[3], r)>> /\ Saved(bf, a, way[1], r)
    BY <1>4 DEF Halfway
  <2>2. Head(p) = On(way[3], r) /\ Tail(p) = <<>>
    BY <2>1
  <2>3. b = CallEffect(a, way[3], r) /\ r \in DOMAIN a
    BY <1>0, <2>2, OnIs
  <2> QED  BY <2>1, <2>2, <2>3, SecondCall
<1> QED  BY <1>1, <1>2, <1>3, <1>4 DEF IsPlan

(*****************************************************************************)
(* The cleaners, one by one: what each plans of a finding that fits is a     *)
(* plan, on the account there is when cleaning begins.                       *)
(*****************************************************************************)
\* Checks of what is copied first, of databases, and of what is only deleted.
FixedPlan(q) ==
  \/ \E way \in SaveFirst :
       q[2] = <<way[2], way[3]>> /\ \A k : <<q[1], k>> \in Judged => k = way[1]
  \/ q[2] = <<"rds.delete_db_instance">> /\ \A k : <<q[1], k>> \in Judged => k = "database"
  \/ \E op :
       /\ q[2] = <<op>> /\ op \notin Copying
       /\ \A k : <<q[1], k>> \in Judged =>
            /\ k # "image" /\ \A l : <<k, l>> \notin CopiedAs
            /\ k = "snapshot" => op = "ec2.delete_snapshot"

LEMMA JudgedIs ==
  /\ \A k : <<"unattached-ebs", k>> \in Judged => k = "volume"
  /\ \A k : <<"orphaned-snapshot", k>> \in Judged => k = "snapshot"
  /\ \A k : <<"unused-ami", k>> \in Judged => k = "image"
  /\ \A k : <<"unmounted-efs", k>> \in Judged => k = "file-system"
  /\ \A k : <<"stopped-instance", k>> \in Judged => k = "instance"
  /\ \A k : <<"unassociated-eip", k>> \in Judged => k = "address"
  /\ \A k : <<"available-eni", k>> \in Judged => k = "interface"
  /\ \A k : <<"idle-nat-gateway", k>> \in Judged => k = "nat"
  /\ \A k : <<"unused-vpc-endpoint", k>> \in Judged => k = "endpoint"
  /\ \A k : <<"unused-security-group", k>> \in Judged => k = "group"
  /\ \A k : <<"detached-internet-gateway", k>> \in Judged => k = "gateway"
  /\ \A k : <<"empty-classic-lb", k>> \in Judged => k = "classic"
  /\ \A k : <<"stopped-rds-instance", k>> \in Judged => k = "database"
  /\ \A k : <<"orphaned-rds-snapshot", k>> \in Judged => k = "db-snapshot"
  /\ \A k : <<"idle-provisioned-dynamodb", k>> \in Judged => k = "table"
  /\ \A k : <<"log-group-no-retention", k>> \in Judged => k = "log-group"
  /\ \A k : <<"disabled-kms-key", k>> \in Judged => k = "key"
  /\ \A k : <<"stale-secret", k>> \in Judged => k = "secret"
  /\ \A k : <<"unused-route53-health-check", k>> \in Judged => k = "health-check"
  /\ \A k : <<"unused-route53-zone", k>> \in Judged => k = "zone"
  /\ \A k : <<"idle-load-balancer", k>> \in Judged => k = "balancer"
  /\ \A k : <<"lightsail-stopped-instance", k>> \in Judged => k = "ls-instance"
  /\ \A k : <<"lightsail-unattached-static-ip", k>> \in Judged => k = "ls-ip"
  /\ \A k : <<"lightsail-unattached-disk", k>> \in Judged => k = "ls-disk"
  /\ \A k : <<"lightsail-idle-container-service", k>> \in Judged => k = "ls-service"
  /\ \A k : <<"lightsail-empty-load-balancer", k>> \in Judged => k = "ls-balancer"
  /\ \A k : <<"lightsail-orphaned-snapshot", k>> \in Judged =>
              k \in {"ls-instance-snapshot", "ls-disk-snapshot"}
BY DEF Judged

LEMMA NotCopied ==
  \A k : k \notin {"volume", "database", "instance", "ls-instance", "ls-disk"} =>
    \A l : <<k, l>> \notin CopiedAs
BY CopiedAsIs

LEMMA StorageFixed == \A q \in StoragePlans : FixedPlan(q)
BY JudgedIs, NotCopied DEF StoragePlans, FixedPlan, SaveFirst, Copying
LEMMA NetworkFixed == \A q \in NetworkPlans : FixedPlan(q)
BY JudgedIs, NotCopied DEF NetworkPlans, FixedPlan, SaveFirst, Copying
LEMMA DataFixed == \A q \in DataPlans : FixedPlan(q)
BY JudgedIs, NotCopied DEF DataPlans, FixedPlan, SaveFirst, Copying
LEMMA LightsailFixed == \A q \in LightsailPlans : FixedPlan(q)
BY JudgedIs, NotCopied DEF LightsailPlans, FixedPlan, SaveFirst, Copying

LEMMA CallsForFixed ==
  ASSUME NEW c \in CLEANERS \ Looking PROVE FixedPlan(<<c, CallsFor(c)>>)
<1>1. \E q \in FixedPlans : q[1] = c
  BY DEF CLEANERS
<1>2. PICK q : q = CHOOSE plans \in FixedPlans : plans[1] = c
  OBVIOUS
<1>3. q \in FixedPlans /\ q[1] = c /\ q[2] = CallsFor(c)
  BY <1>1, <1>2 DEF CallsFor
<1>4. FixedPlan(q)
  BY <1>3, StorageFixed, NetworkFixed, DataFixed, LightsailFixed DEF FixedPlans
<1> QED  BY <1>3, <1>4 DEF FixedPlan

\* A step on what a finding is of, when nothing is copied of its kind.
LEMMA FindingHarmless ==
  ASSUME Everyday, NEW s \in DOMAIN Scenes, NEW mv, NEW a, NEW f, Fits(s, mv, a, f),
         NEW st, st.target = f.id, st.operation \notin Copying,
         \A k : <<f.check, k>> \in Judged =>
           /\ \A l : <<k, l>> \notin CopiedAs
           /\ k = "image" => f.check = "unused-ami"
           /\ k = "snapshot" => st.operation = "ec2.delete_snapshot"
  PROVE  Harmless(s, mv, a, a, st)
<1>1. PICK k :
        /\ <<f.check, k>> \in Judged
        /\ \/ f.id \in OfKind(s, k) /\ (f.check = "unused-ami" => Old(mv, a, f.id))
           \/ \E y \in Owned(s) :
                /\ f.id = CopyOf(y) /\ Stale(mv, a, y) /\ k # "image"
                /\ \E l : y \in OfKind(s, l) /\ <<l, k>> \in CopiedAs
  BY DEF Fits
<1>2. CASE f.id \in OfKind(s, k) /\ (f.check = "unused-ami" => Old(mv, a, f.id))
  BY <1>1, <1>2 DEF Harmless
<1>3. CASE \E y \in Owned(s) :
             /\ f.id = CopyOf(y) /\ Stale(mv, a, y) /\ k # "image"
             /\ \E l : y \in OfKind(s, l) /\ <<l, k>> \in CopiedAs
  <2>1. PICK y \in Owned(s) :
          /\ f.id = CopyOf(y) /\ Stale(mv, a, y) /\ k # "image"
          /\ \E l : y \in OfKind(s, l) /\ <<l, k>> \in CopiedAs
    BY <1>3
  <2>2. PICK l : y \in OfKind(s, l) /\ <<l, k>> \in CopiedAs
    BY <2>1
  <2>3. \A j : y \in OfKind(s, j) => j = l
    BY <2>2, OneKind
  <2>4. y \notin OfKind(s, "instance")
    BY <2>1, <2>2, <2>3, CopiedAsIs
  <2>5. y \in OfKind(s, "volume") => st.operation = "ec2.delete_snapshot"
    BY <1>1, <2>2, <2>3, CopiedAsIs
  <2>6. y \notin DOMAIN a
    BY <2>1 DEF Stale
  <2> QED  BY <2>1, <2>4, <2>5, <2>6 DEF Harmless
<1> QED  BY <1>1, <1>2, <1>3

\* A finding of a kind that is no copy's is of the owner's.
LEMMA FindingOwned ==
  ASSUME NEW s, NEW mv, NEW a, NEW f, Fits(s, mv, a, f),
         NEW kind, \A k : <<f.check, k>> \in Judged => k = kind,
         \A l : <<l, kind>> \in CopiedAs => kind = "image"
  PROVE  f.id \in OfKind(s, kind)
BY DEF Fits

LEMMA OneStepPlan ==
  ASSUME NEW s, NEW mv, NEW a, NEW bf, NEW st, Harmless(s, mv, a, bf, st)
  PROVE  IsPlan(s, mv, a, bf, <<st>>)
<1>1. PICK p, T : p = <<st>> /\ T = {st}
  OBVIOUS
<1>2. p \in Seq(T) /\ p # <<>>
  BY <1>1
<1>3. \A x \in T : Harmless(s, mv, a, bf, x)
  BY <1>1
<1>4. IsPlan(s, mv, a, bf, p)
  BY <1>2, <1>3 DEF IsPlan
<1> QED  BY <1>1, <1>4

LEMMA FixedPlanned ==
  ASSUME Everyday, NEW s \in DOMAIN Scenes, NEW mv, NEW a, NEW f, Fits(s, mv, a, f),
         f.check \in CLEANERS \ Looking, NEW u
  PROVE  IsPlan(s, mv, a, a, Plan(f, u))
<1>1. Plan(f, u) = [k \in DOMAIN CallsFor(f.check) |-> On(CallsFor(f.check)[k], f.id)]
  BY DEF Plan, Looking
<1>2. FixedPlan(<<f.check, CallsFor(f.check)>>)
  BY CallsForFixed
<1>3. PICK c, ops, r, p : c = f.check /\ ops = CallsFor(f.check) /\ r = f.id /\ p = Plan(f, u)
  OBVIOUS
<1>4. p = [k \in DOMAIN ops |-> On(ops[k], r)]
  BY <1>1, <1>3
<1>5. CASE \E way \in SaveFirst :
             ops = <<way[2], way[3]>> /\ \A k : <<c, k>> \in Judged => k = way[1]
  <2>1. PICK way \in SaveFirst :
          ops = <<way[2], way[3]>> /\ \A k : <<c, k>> \in Judged => k = way[1]
    BY <1>5
  <2>2. \A l : <<l, way[1]>> \notin CopiedAs
    BY CopiedAsIs DEF SaveFirst
  <2>3. r \in OfKind(s, way[1])
    BY <1>3, <2>1, <2>2, FindingOwned
  <2>4. p = <<On(way[2], r), On(way[3], r)>>
    <3>1. PICK x, y : x = way[2] /\ y = way[3]
      OBVIOUS
    <3>2. ops = <<x, y>>
      BY <2>1, <3>1
    <3>3. p = <<On(x, r), On(y, r)>>
      BY <1>4, <3>2
    <3> QED  BY <3>1, <3>3
  <2> QED  BY <1>3, <2>3, <2>4 DEF IsPlan
<1>6. CASE /\ ops = <<"rds.delete_db_instance">>
           /\ \A k : <<c, k>> \in Judged => k = "database"
  <2>1. r \in OfKind(s, "database")
    BY <1>3, <1>6, CopiedAsIs, FindingOwned
  <2>2. p = <<On("rds.delete_db_instance", r)>>
    BY <1>4, <1>6
  <2> QED  BY <1>3, <2>1, <2>2 DEF IsPlan
<1>7. CASE \E op :
             /\ ops = <<op>> /\ op \notin Copying
             /\ \A k : <<c, k>> \in Judged =>
                  /\ k # "image" /\ \A l : <<k, l>> \notin CopiedAs
                  /\ k = "snapshot" => op = "ec2.delete_snapshot"
  <2>1. PICK op :
             /\ ops = <<op>> /\ op \notin Copying
             /\ \A k : <<c, k>> \in Judged =>
                  /\ k # "image" /\ \A l : <<k, l>> \notin CopiedAs
                  /\ k = "snapshot" => op = "ec2.delete_snapshot"
    BY <1>7
  <2>2. p = <<On(op, r)>>
    BY <1>4, <2>1
  <2>3. PICK st : st = On(op, r)
    OBVIOUS
  <2>4. st.operation = op /\ st.target = r
    BY <2>3, OnIs
  <2>5. Harmless(s, mv, a, a, st)
    BY <1>3, <2>1, <2>4, FindingHarmless
  <2> QED  BY <1>3, <2>2, <2>3, <2>5, OneStepPlan
<1>8. \/ \E way \in SaveFirst :
           ops = <<way[2], way[3]>> /\ \A k : <<c, k>> \in Judged => k = way[1]
      \/ ops = <<"rds.delete_db_instance">> /\ \A k : <<c, k>> \in Judged => k = "database"
      \/ \E op :
           /\ ops = <<op>> /\ op \notin Copying
           /\ \A k : <<c, k>> \in Judged =>
                /\ k # "image" /\ \A l : <<k, l>> \notin CopiedAs
                /\ k = "snapshot" => op = "ec2.delete_snapshot"
  <2>1. <<c, ops>>[1] = c /\ <<c, ops>>[2] = ops
    OBVIOUS
  <2>2. FixedPlan(<<c, ops>>)
    BY <1>2, <1>3
  <2> QED  BY <2>1, <2>2 DEF FixedPlan
<1> QED  BY <1>5, <1>6, <1>7, <1>8

\* The image goes first, then the snapshots behind it, all the owner's.
LEMMA AmiPlanned ==
  ASSUME Everyday, NEW s \in DOMAIN Scenes, NEW mv, NEW a, NEW f, Fits(s, mv, a, f),
         f.check = "unused-ami", NEW u
  PROVE  IsPlan(s, mv, a, a, Plan(f, u))
<1>1. f.details.snapshot_ids \in Seq(OfKind(s, "snapshot"))
  <2>1. PICK k : /\ <<f.check, k>> \in Judged
                 /\ \/ f.details.snapshot_ids \in Seq(OfKind(s, "snapshot"))
                    \/ k # "image"
    BY DEF Fits
  <2> QED  BY <2>1, JudgedIs
<1>2. PICK S, ids, head, tail :
        /\ S = OfKind(s, "snapshot") /\ ids = f.details.snapshot_ids
        /\ head = On("ec2.deregister_image", f.id)
        /\ tail = [k \in DOMAIN ids |-> On("ec2.delete_snapshot", ids[k])]
  OBVIOUS
<1>3. PICK T : T = {head} \cup {On("ec2.delete_snapshot", x) : x \in S}
  OBVIOUS
<1>4. Plan(f, u) = <<head>> \o tail
  BY <1>2 DEF Plan, clean_unused_ami
<1>5. tail \in Seq(T)
  <2>1. ids \in Seq(S) /\ Len(ids) \in Nat /\ DOMAIN ids = 1 .. Len(ids)
    BY <1>1, <1>2
  <2>2. \A k \in DOMAIN ids : tail[k] \in T
    BY <1>2, <1>3, <2>1
  <2>3. DOMAIN tail = 1 .. Len(ids) /\ tail = [k \in 1 .. Len(ids) |-> tail[k]]
    BY <1>2, <2>1
  <2> QED  BY <2>1, <2>2, <2>3
<1>6. <<head>> \in Seq(T) /\ <<head>> # <<>>
  BY <1>3
<1>7. Plan(f, u) \in Seq(T) /\ Plan(f, u) # <<>>
  <2>1. PICK p, q : p = <<head>> /\ q = p \o tail
    OBVIOUS
  <2>2. q \in Seq(T) /\ Len(q) = Len(p) + Len(tail) /\ Len(p) = 1 /\ Len(tail) \in Nat
    BY <1>5, <1>6, <2>1
  <2>3. q # <<>>
    BY <2>2
  <2> QED  BY <1>4, <2>1, <2>2, <2>3
<1>8. ASSUME NEW st \in T PROVE Harmless(s, mv, a, a, st)
  <2>1. CASE st = head
    <3>1. st.operation = "ec2.deregister_image" /\ st.target = f.id
      BY <1>2, <2>1, OnIs
    <3>2. \A l : <<"image", l>> \notin CopiedAs
      BY NotCopied
    <3> QED  BY <3>1, <3>2, JudgedIs, FindingHarmless DEF Copying
  <2>2. CASE \E x \in S : st = On("ec2.delete_snapshot", x)
    <3>1. PICK x \in S : st = On("ec2.delete_snapshot", x)
      BY <2>2
    <3>2. st.operation = "ec2.delete_snapshot" /\ st.target = x
      BY <3>1, OnIs
    <3>3. \A l : <<"snapshot", l>> \notin CopiedAs
      BY NotCopied
    <3>4. x \in OfKind(s, "snapshot")
      BY <1>2
    <3> QED  BY <3>2, <3>3, <3>4 DEF Harmless, Copying
  <2> QED  BY <1>3, <1>8, <2>1, <2>2
<1> QED  BY <1>7, <1>8 DEF IsPlan

LEMMA UploadsPlanned ==
  ASSUME Everyday, NEW s \in DOMAIN Scenes, NEW mv, NEW a, Sorted(s, a), NEW f,
         f.check = "incomplete-multipart-upload", NEW u, u \subseteq Of(a, "upload"),
         Plan(f, u) # <<>>
  PROVE  IsPlan(s, mv, a, a, Plan(f, u))
<1>1. IsFiniteSet(u)
  <2>1. u \subseteq DOMAIN a
    BY DEF Of
  <2> QED  BY <2>1, FS_Subset DEF Sorted
<1>2. PICK n, q, p : n = Cardinality(u) /\ q = SetToSeq(u) /\ p = Plan(f, u)
  OBVIOUS
<1>3. n \in Nat /\ q \in [1 .. n -> u]
  BY <1>1, <1>2, SeqOfSet
<1>4. p = [k \in 1 .. n |-> On("s3.abort_multipart_upload", q[k])]
  BY <1>2 DEF Plan, clean_incomplete_multipart_upload
<1>5. PICK T : T = {On("s3.abort_multipart_upload", x) : x \in u}
  OBVIOUS
<1>6. p \in Seq(T)
  <2>1. \A k \in 1 .. n : On("s3.abort_multipart_upload", q[k]) \in T
    BY <1>3, <1>5
  <2> QED  BY <1>3, <1>4, <2>1
<1>7. ASSUME NEW st \in T PROVE Harmless(s, mv, a, a, st)
  <2>1. PICK x \in u : st = On("s3.abort_multipart_upload", x)
    BY <1>5
  <2>2. st.operation = "s3.abort_multipart_upload" /\ st.target = x
    BY <2>1, OnIs
  <2>3. x \in DOMAIN a /\ a[x].kind = "upload"
    BY DEF Of
  <2>4. ASSUME NEW y, CopyIn(s, x, a[x], y) PROVE FALSE
    BY <2>3, <2>4, CopiedAsIs DEF CopyIn
  <2>5. x \in OfKind(s, "upload")
    BY <2>3, <2>4 DEF Sorted, OwnOf
  <2>6. \A l : <<"upload", l>> \notin CopiedAs
    BY NotCopied
  <2> QED  BY <2>2, <2>5, <2>6 DEF Harmless, Copying
<1> QED  BY <1>2, <1>6, <1>7 DEF IsPlan

LEMMA LookingPlanned ==
  ASSUME Everyday, NEW s \in DOMAIN Scenes, NEW mv, NEW a, NEW f, Fits(s, mv, a, f),
         f.check \in {"idle-load-balancer", "unused-route53-zone", "lightsail-orphaned-snapshot"},
         NEW u, Plan(f, u) # <<>>
  PROVE  IsPlan(s, mv, a, a, Plan(f, u))
<1>1. CASE f.check = "idle-load-balancer"
  <2>1. PICK st : st = On("elbv2.delete_load_balancer", f.id)
    OBVIOUS
  <2>2. Plan(f, u) \in {<<st>>, <<>>}
    BY <1>1, <2>1 DEF Plan, clean_idle_load_balancer
  <2>3. Harmless(s, mv, a, a, st)
    BY <1>1, <2>1, OnIs, JudgedIs, NotCopied, FindingHarmless DEF Copying
  <2> QED  BY <2>2, <2>3, OneStepPlan
<1>2. CASE f.check = "lightsail-orphaned-snapshot"
  <2>1. PICK op : /\ op \in {"lightsail.delete_instance_snapshot", "lightsail.delete_disk_snapshot"}
                  /\ Plan(f, u) = <<On(op, f.id)>>
    <3>1. CASE f.details.source_kind = "instance"
      BY <1>2, <3>1 DEF Plan, clean_lightsail_orphaned_snapshot
    <3>2. CASE f.details.source_kind # "instance"
      BY <1>2, <3>2 DEF Plan, clean_lightsail_orphaned_snapshot
    <3> QED  BY <3>1, <3>2
  <2>2. PICK st : st = On(op, f.id)
    OBVIOUS
  <2>3. st.operation = op /\ st.target = f.id /\ op \notin Copying
    BY <2>1, <2>2, OnIs DEF Copying
  <2>4. \A k : <<f.check, k>> \in Judged =>
          k \in {"ls-instance-snapshot", "ls-disk-snapshot"}
    BY <1>2, JudgedIs
  <2>5. Harmless(s, mv, a, a, st)
    BY <2>3, <2>4, NotCopied, FindingHarmless
  <2> QED  BY <2>1, <2>2, <2>5, OneStepPlan
<1>3. CASE f.check = "unused-route53-zone"
  <2>1. CASE f.details.namespace = NoNamespace
    <3>1. PICK st : st = On("route53.delete_hosted_zone", f.id)
      OBVIOUS
    <3>2. Plan(f, u) = <<st>>
      BY <1>3, <2>1, <3>1 DEF Plan, clean_unused_route53_zone
    <3>3. st.operation = "route53.delete_hosted_zone" /\ st.target = f.id
      BY <3>1, OnIs
    <3>4. \A k : <<f.check, k>> \in Judged => k = "zone"
      BY <1>3, JudgedIs
    <3>5. Harmless(s, mv, a, a, st)
      BY <3>3, <3>4, NotCopied, FindingHarmless DEF Copying
    <3> QED  BY <3>2, <3>5, OneStepPlan
  <2>2. CASE f.details.namespace # NoNamespace
    <3>1. PICK st : st = StepIn(f.details.namespace.region, "servicediscovery.delete_namespace",
                                f.details.namespace.id)
      OBVIOUS
    <3>2. Plan(f, u) = <<st>>
      BY <1>3, <2>2, <3>1 DEF Plan, clean_unused_route53_zone
    <3>3. f.details.namespace.id = NamespaceOf(f.id)
      BY <1>3, <2>2 DEF Fits
    <3>4. st.operation = "servicediscovery.delete_namespace" /\ st.target = NamespaceOf(f.id)
      BY <3>1, <3>3 DEF StepIn
    <3>5. f.id \in Owned(s)
      BY <1>3, JudgedIs, CopiedAsIs, FindingOwned, OneKind
    <3>6. CASE NamespaceOf(f.id) \in Owned(s)
      <4>1. st.target \in OfKind(s, "namespace")
        BY <3>4, <3>5, <3>6, CopiesApart
      <4>2. Harmless(s, mv, a, a, st)
        BY <3>4, <4>1, NotCopied DEF Harmless, Copying
      <4> QED  BY <3>2, <4>2, OneStepPlan
    <3>7. CASE NamespaceOf(f.id) \notin Owned(s)
      <4>1. \A y \in Owned(s) : st.target # CopyOf(y)
        BY <3>4, <3>5, CopiesApart
      <4>2. Harmless(s, mv, a, a, st)
        BY <3>4, <3>7, <4>1 DEF Harmless, Copying
      <4> QED  BY <3>2, <4>2, OneStepPlan
    <3> QED  BY <3>6, <3>7
  <2> QED  BY <2>1, <2>2
<1> QED  BY <1>1, <1>2, <1>3

LEMMA PlanOfFinding ==
  ASSUME Everyday, NEW s \in DOMAIN Scenes, NEW mv, NEW a, Sorted(s, a),
         NEW f, Fits(s, mv, a, f), f.check \in CLEANERS,
         NEW u, u \subseteq Of(a, "upload"), Plan(f, u) # <<>>
  PROVE  IsPlan(s, mv, a, a, Plan(f, u))
<1>1. CASE f.check \notin Looking
  BY <1>1, FixedPlanned
<1>2. CASE f.check \in Looking
  BY <1>2, AmiPlanned, UploadsPlanned, LookingPlanned DEF Looking
<1> QED  BY <1>1, <1>2

(*****************************************************************************)
(* The invariant: every resource is the owner's or a copy, findings fit what *)
(* there has been meanwhile, and of a run that cleans, nothing is lost and   *)
(* what is still to be done is plans, the one in hand perhaps halfway.       *)
(*****************************************************************************)
Keeping ==
  /\ Sorted(scene, acct) /\ OnceOf(scene, moves, acct)
  /\ pc \in {"listing", "judged", "failed"} =>
       /\ MeanwhileOf(scene, moves, acct, during)
       /\ \A f \in report : Fits(scene, moves, acct, f)
  /\ pc # "cleaning" => plan = <<>>
  /\ pc = "cleaning" =>
       /\ KeptOf(scene, moves, acct, before)
       /\ \A p \in todo : IsPlan(scene, moves, acct, before, p)
       /\ plan = <<>> \/ IsPlan(scene, moves, acct, before, plan)
                      \/ Halfway(scene, before, acct, plan)
KeepInv == RoundsInv /\ Keeping

LEMMA InitKeeping ==
  ASSUME Everyday, Init PROVE Keeping
<1>1. /\ scene \in DOMAIN Scenes /\ acct = Scenes[scene].there /\ moves = Scenes[scene].moves
      /\ pc = "listing" /\ report = {} /\ plan = <<>> /\ during = {acct}
  BY DEF Init
<1>2. PICK s, a : s = scene /\ a = acct
  OBVIOUS
<1>3. Sorted(s, a)
  <2>1. IsFiniteSet(DOMAIN a)
    BY <1>1, <1>2 DEF Everyday
  <2>2. ASSUME NEW r \in DOMAIN a PROVE OwnOf(s, r, a[r])
    <3>1. r \in OfKind(s, a[r].kind)
      BY <1>1, <1>2 DEF OfKind, Of
    <3>2. a[r].kind = "image" => a[r].refs \subseteq OfKind(s, "snapshot")
      BY <1>1, <1>2 DEF Everyday, Ordinary, Of
    <3> QED  BY <3>1, <3>2 DEF OwnOf
  <2> QED  BY <2>1, <2>2 DEF Sorted
<1>4. OnceOf(s, moves, a)
  <2>1. \A r \in DOMAIN a : Spent(moves, r)
    <3>1. \A m \in Makes(s) : m.id \notin DOMAIN a
      BY <1>1, <1>2 DEF Everyday, GivenOnce
    <3> QED  BY <1>1, <1>2, <3>1 DEF Spent, Makes
  <2>2. \A y \in Owned(s) : CopyOf(y) \notin DOMAIN a
    BY <1>1, <1>2, CopiesApart DEF Owned
  <2> QED  BY <2>1, <2>2 DEF OnceOf
<1>5. MeanwhileOf(s, moves, a, {a})
  BY <1>3, <1>4, MeanwhileBegins
<1> QED  BY <1>1, <1>2, <1>3, <1>4, <1>5 DEF Keeping

\* Reading changes nothing of it.
LEMMA ReadingKeeps ==
  ASSUME Keeping, \/ Lists \/ Raises \/ (\E r \in pending : Describes(r)) \/ UNCHANGED vars
  PROVE  Keeping'
<1>1. CASE Lists
  BY <1>1 DEF Keeping, Lists, cleanVars
<1>2. CASE Raises
  BY <1>2 DEF Keeping, Raises, scanVars, cleanVars
<1>3. CASE \E r \in pending : Describes(r)
  BY <1>3 DEF Keeping, Describes, cleanVars
<1>4. CASE UNCHANGED vars
  BY <1>4 DEF Keeping, vars
<1> QED  BY <1>1, <1>2, <1>3, <1>4

LEMMA JudgesFits ==
  ASSUME Everyday, KeepInv, Judges PROVE Keeping'
<1>1. /\ UNCHANGED <<scene, acct, moves, plan, during>>
      /\ pc = "listing" /\ left = <<>> /\ pending = {} /\ pc' = "judged"
      /\ report' = report \cup CHECKS(check, seen).finds
  BY DEF Judges, cleanVars
<1>2. PICK s, mv, a, D, t, c :
        s = scene /\ mv = moves /\ a = acct /\ D = during /\ t = seen /\ c = check
  OBVIOUS
<1>3. /\ s \in DOMAIN Scenes /\ c \in CheckNames
      /\ Reads(D, t, {}, <<>>, c) /\ MeanwhileOf(s, mv, a, D)
  BY <1>1, <1>2, CheckIsNamed DEF KeepInv, RoundsInv, ReadSoFar, Running, Keeping
<1>4. Right(D, c, CHECKS(c, t).finds) /\ Witnessed(D, t)
  BY <1>3, ReadingIsDone DEF Reads
<1>5. \A f \in CHECKS(c, t).finds : Fits(s, mv, a, f)
  BY <1>3, <1>4, FoundFits
<1> QED  BY <1>1, <1>2, <1>5 DEF KeepInv, Keeping

LEMMA ChecksBeginFitting ==
  ASSUME Keeping, NextCheck \/ Again PROVE Keeping'
<1>1. UNCHANGED <<scene, acct, moves, plan>> /\ pc' = "listing" /\ during' = {acct}
  BY DEF NextCheck, Again, StartCheck, cleanVars
<1>2. MeanwhileOf(scene, moves, acct, {acct})
  BY MeanwhileBegins DEF Keeping
<1>3. plan = <<>> /\ \A f \in report' : Fits(scene, moves, acct, f)
  <2>1. CASE NextCheck
    BY <2>1 DEF NextCheck, Keeping
  <2>2. CASE Again
    BY <2>2 DEF Again
  <2> QED  BY <2>1, <2>2
<1> QED  BY <1>1, <1>2, <1>3 DEF Keeping

LEMMA RestKeeping ==
  ASSUME Keeping, Rest PROVE Keeping'
BY DEF Keeping, Rest, scanVars, cleanVars

LEMMA StartCleanPlans ==
  ASSUME Everyday, KeepInv, StartClean PROVE Keeping'
<1>1. /\ UNCHANGED <<scene, acct, moves, report, plan>>
      /\ pc \in {"judged", "failed"} /\ pc' = "cleaning" /\ before' = acct
  BY DEF StartClean, scanVars
<1>2. PICK s, mv, a : s = scene /\ mv = moves /\ a = acct
  OBVIOUS
<1>3. s \in DOMAIN Scenes /\ Sorted(s, a) /\ OnceOf(s, mv, a) /\ plan = <<>>
      /\ \A f \in report : Fits(s, mv, a, f)
  BY <1>1, <1>2 DEF KeepInv, RoundsInv, Running, Keeping
<1>4. ASSUME NEW p \in todo' PROVE IsPlan(s, mv, a, a, p)
  <2>1. PICK f \in report :
          /\ f.check \in CLEANERS /\ p # <<>>
          /\ p = Plan(f, IF f.id \in DOMAIN acct THEN Naming(acct, "upload", f.id) ELSE {})
    BY DEF StartClean
  <2>2. PICK u : u = IF f.id \in DOMAIN acct THEN Naming(acct, "upload", f.id) ELSE {}
    OBVIOUS
  <2>3. u \subseteq Of(a, "upload")
    BY <1>2, <2>2 DEF Naming
  <2> QED  BY <1>3, <2>1, <2>2, <2>3, PlanOfFinding
<1>5. KeptOf(s, mv, a, a)
  BY <1>3 DEF KeptOf, OnceOf, NoNewSystem
<1> QED  BY <1>1, <1>2, <1>3, <1>4, <1>5 DEF Keeping

\* What a call does to the account and to the plan in hand.
LEMMA CallStep ==
  ASSUME Everyday, KeepInv, NEW p, Call(p)
  PROVE  \/ acct' = acct /\ plan' = <<>>
         \/ /\ Onward(scene, moves, acct, moves, acct') /\ Spared(scene, before, acct, acct')
            /\ plan' = <<>> \/ IsPlan(scene, moves, acct', before, plan')
                            \/ Halfway(scene, before, acct', plan')
<1>1. PICK s, mv, a, bf : s = scene /\ mv = moves /\ a = acct /\ bf = before
  OBVIOUS
<1>2. pc = "cleaning" /\ s \in DOMAIN Scenes /\ mv \subseteq Scenes[s].moves /\ Sound(a)
      /\ Sorted(s, a) /\ KeptOf(s, mv, a, bf)
  BY <1>1 DEF Call, KeepInv, RoundsInv, Running, Keeping
<1>3. IsPlan(s, mv, a, bf, p) \/ Halfway(s, bf, a, p)
  BY <1>1 DEF Call, KeepInv, Keeping
<1>4. CASE Refused(acct, Head(p).operation, Head(p).target)
  BY <1>4 DEF Call
<1>5. CASE ~ Refused(acct, Head(p).operation, Head(p).target)
  <2>1. acct' = CallEffect(acct, Head(p).operation, Head(p).target) /\ plan' = Tail(p)
    BY <1>5 DEF Call, After
  <2>2. PICK b : b = acct'
    OBVIOUS
  <2>3. /\ Onward(s, mv, a, mv, b) /\ Spared(s, bf, a, b)
        /\ Tail(p) = <<>> \/ IsPlan(s, mv, b, bf, Tail(p)) \/ Halfway(s, bf, b, Tail(p))
    BY <1>1, <1>2, <1>3, <1>5, <2>1, <2>2, PlanCall DEF KeptOf
  <2> QED  BY <1>1, <2>1, <2>2, <2>3
<1> QED  BY <1>4, <1>5

LEMMA CallKeeping ==
  ASSUME Everyday, KeepInv, NEW p, Call(p) PROVE Keeping'
<1>1. /\ UNCHANGED <<scene, moves, pc, report, during, before>>
      /\ pc = "cleaning" /\ todo' \subseteq todo
  BY DEF Call, scanVars
<1>2. PICK s, mv, a, b, bf :
        s = scene /\ mv = moves /\ a = acct /\ b = acct' /\ bf = before
  OBVIOUS
<1>3. /\ s \in DOMAIN Scenes /\ Sorted(s, a) /\ OnceOf(s, mv, a) /\ KeptOf(s, mv, a, bf)
      /\ \A q \in todo : IsPlan(s, mv, a, bf, q)
  BY <1>1, <1>2 DEF KeepInv, RoundsInv, Running, Keeping
<1>4. CASE acct' = acct /\ plan' = <<>>
  BY <1>1, <1>2, <1>3, <1>4 DEF Keeping
<1>5. CASE /\ Onward(s, mv, a, mv, b) /\ Spared(s, bf, a, b)
           /\ plan' = <<>> \/ IsPlan(s, mv, b, bf, plan') \/ Halfway(s, bf, b, plan')
  <2>1. Sorted(s, b) /\ OnceOf(s, mv, b)
    BY <1>3, <1>5, OnceStays DEF Onward
  <2>2. KeptOf(s, mv, b, bf)
    BY <1>3, <1>5, CallKeepsData
  <2>3. \A q \in todo' : IsPlan(s, mv, b, bf, q)
    BY <1>1, <1>3, <1>5, PlanStays
  <2> QED  BY <1>1, <1>2, <1>5, <2>1, <2>2, <2>3 DEF Keeping
<1> QED  BY <1>2, <1>4, <1>5, CallStep

LEMMA OwnerKeeping ==
  ASSUME Everyday, KeepInv, NEW m \in moves, Creates(m) \/ Changes(m) \/ Deletes(m)
  PROVE  Keeping'
<1>1. PICK s, mv, a, nv, b, bf, bg :
        /\ s = scene /\ mv = moves /\ a = acct /\ nv = moves' /\ b = acct'
        /\ bf = before /\ bg = before'
  OBVIOUS
<1>2. /\ \/ m.does = "create" /\ m.id \notin DOMAIN a /\ b = With(a, m.id, m.to)
         \/ m.does = "change" /\ m.id \in DOMAIN a /\ b = With(a, m.id, m.to)
         \/ b = Removed(a, m.id)
      /\ Owner(m, b)
  BY <1>1 DEF Creates, Changes, Deletes, Owner
<1>3. /\ UNCHANGED <<scene, pc, report, todo, plan>> /\ nv = mv \ {m}
      /\ pc \in {"listing", "cleaning"} /\ bg = Without(bf, DOMAIN a \ DOMAIN b)
      /\ pc = "listing" => during' = during \cup {b}
  BY <1>1, <1>2 DEF Owner, scanVars, cleanVars
<1>4. /\ s \in DOMAIN Scenes /\ mv \subseteq Scenes[s].moves
      /\ Sorted(s, a) /\ OnceOf(s, mv, a) /\ (pc = "listing" => acct \in during)
  BY <1>1 DEF KeepInv, RoundsInv, Running, ReadSoFar, Keeping
<1>5. SameThings(b, a)
  BY <1>1, <1>2, <1>3, <1>4 DEF Owner
<1>6. Onward(s, mv, a, nv, b) /\ SameCopies(s, a, b)
  BY <1>1, <1>2, <1>3, <1>4, <1>5, OwnerOnward
<1>7. Sorted(s, b) /\ OnceOf(s, nv, b)
  BY <1>4, <1>6, OnceStays DEF Onward
<1>8. CASE pc = "listing"
  <2>1. MeanwhileOf(s, mv, a, during) /\ (\A f \in report : Fits(s, mv, a, f)) /\ plan = <<>>
    BY <1>1, <1>8 DEF KeepInv, Keeping
  <2>2. PICK D : D = during
    OBVIOUS
  <2>3. MeanwhileOf(s, nv, b, D \cup {b})
    BY <1>4, <1>6, <2>1, <2>2, MeanwhileStays
  <2>4. \A f \in report : Fits(s, nv, b, f)
    BY <1>4, <1>6, <2>1, FitsStays
  <2> QED  BY <1>1, <1>3, <1>7, <1>8, <2>1, <2>2, <2>3, <2>4 DEF Keeping
<1>9. CASE pc = "cleaning"
  <2>1. /\ KeptOf(s, mv, a, bf) /\ \A p \in todo : IsPlan(s, mv, a, bf, p)
        /\ plan = <<>> \/ IsPlan(s, mv, a, bf, plan) \/ Halfway(s, bf, a, plan)
    BY <1>1, <1>9 DEF KeepInv, Keeping
  <2>2. KeptOf(s, nv, b, bg)
    BY <1>3, <1>4, <1>6, <2>1, OwnerKeepsData
  <2>3. DOMAIN bg \subseteq DOMAIN bf
    <3>1. bg = Without(bf, DOMAIN a \ DOMAIN b)
      BY <1>3
    <3>2. PICK gone : gone = DOMAIN a \ DOMAIN b
      OBVIOUS
    <3>3. bg = Without(bf, gone)
      BY <3>1, <3>2
    <3> QED  BY <3>3 DEF Without
  <2>4. \A p : IsPlan(s, mv, a, bf, p) => IsPlan(s, nv, b, bg, p)
    BY <1>4, <1>6, <2>3, PlanStays
  <2>5. \A p : Halfway(s, bf, a, p) => Halfway(s, bg, b, p)
    <3>1. \A x \in DOMAIN bf : Spent(mv, x)
      BY <2>1 DEF KeptOf
    <3> QED  BY <1>4, <1>6, <2>3, <3>1, HalfwayStays
  <2> QED  BY <1>1, <1>3, <1>7, <1>9, <2>1, <2>2, <2>4, <2>5 DEF Keeping
<1> QED  BY <1>3, <1>8, <1>9

LEMMA KeepingNext ==
  ASSUME Everyday, KeepInv, [Next]_vars PROVE KeepInv'
<1>1. RoundsInv'
  BY NextRounds DEF KeepInv
<1>2. Keeping'
  <2>1. CASE \/ Lists \/ Raises \/ (\E r \in pending : Describes(r)) \/ UNCHANGED vars
    BY <2>1, ReadingKeeps DEF KeepInv
  <2>2. CASE Judges
    BY <2>2, JudgesFits
  <2>3. CASE NextCheck \/ Again
    BY <2>3, ChecksBeginFitting DEF KeepInv
  <2>4. CASE StartClean
    BY <2>4, StartCleanPlans
  <2>5. CASE Rest
    BY <2>5, RestKeeping DEF KeepInv
  <2>6. CASE \E p \in todo \cup {plan} : Call(p)
    BY <2>6, CallKeeping
  <2>7. CASE \E m \in moves : Creates(m) \/ Changes(m) \/ Deletes(m)
    BY <2>7, OwnerKeeping
  <2> QED  BY <2>1, <2>2, <2>3, <2>4, <2>5, <2>6, <2>7 DEF Next, Tool
<1> QED  BY <1>1, <1>2 DEF KeepInv

LEMMA KeepHolds == ASSUME Everyday PROVE Spec => []KeepInv
<1>1. Init => KeepInv
  BY InitRounds, InitKeeping DEF KeepInv
<1>2. KeepInv /\ [Next]_vars => KeepInv'
  BY KeepingNext
<1> QED  BY <1>1, <1>2, PTL DEF Spec

\* NothingLostInOneRun (packs/core/cleaners.py, packs/lightsail/cleaners.py):
\* of an account whose owner is an everyday one, whatever the owner does
\* between the calls and whichever of them AWS refuses, a volume, a database,
\* or a Lightsail instance or disk that was there when cleaning began, and its
\* owner has not deleted since, is there, or a copy of it is.
THEOREM NothingIsLost == ASSUME Everyday PROVE Spec => []NothingLostInOneRun
<1>1. KeepInv => NothingLostInOneRun
  BY DEF KeepInv, Keeping, KeptOf, HoldsData, NothingLostInOneRun
<1> QED  BY KeepHolds, <1>1, PTL

\* YoungImagesKept (packs/core/checks/unused_ami.py, packs/core/cleaners.py):
\* of such an account, no call of a clean run takes an image younger than 90
\* days or a snapshot behind one.
THEOREM YoungImagesStay == ASSUME Everyday PROVE Spec => YoungImagesKept
<1>1. KeepInv /\ [Next]_vars =>
        [\A i \in Of(acct, "image") :
           pc = "cleaning" /\ moves' = moves /\ "young" \in acct[i].is
           => i \in DOMAIN acct' /\ acct[i].refs \subseteq DOMAIN acct']_vars
  <2> SUFFICES ASSUME KeepInv, Next, pc = "cleaning", moves' = moves,
                      NEW i \in Of(acct, "image"), "young" \in acct[i].is
               PROVE  i \in DOMAIN acct' /\ acct[i].refs \subseteq DOMAIN acct'
    OBVIOUS
  <2>1. i \in DOMAIN acct /\ acct[i].refs \subseteq DOMAIN acct
    BY BehindImages DEF Of, KeepInv, Keeping, RoundsInv, Running
  <2>2. CASE acct' = acct
    BY <2>1, <2>2
  <2>3. CASE \E p \in todo \cup {plan} : Call(p)
    <3>1. PICK p : Call(p)
      BY <2>3
    <3>2. acct' = acct \/ Spared(scene, before, acct, acct')
      BY <3>1, CallStep
    <3> QED  BY <2>1, <3>2 DEF Spared
  <2>4. CASE \E m \in moves : Creates(m) \/ Changes(m) \/ Deletes(m)
    BY <2>4 DEF Creates, Changes, Deletes, Owner
  <2> QED  BY <2>2, <2>3, <2>4
           DEF Next, Tool, Lists, Raises, Judges, NextCheck, StartClean, Again, Rest, Describes
<1> QED  BY KeepHolds, <1>1, PTL DEF Spec, YoungImagesKept

(*****************************************************************************)
(* No charge is counted by two checks, of an account nobody has changed      *)
(* since the round began: then all that was read is the account as it is.    *)
(*****************************************************************************)
\* What the finding f counts there is to pay, and no other check counts it: a
\* volume is attached or not, a snapshot is behind an image or not.
Counts(a, f) ==
  \A x \in f.bills :
    \/ f.check = "stopped-instance" /\ a[x].kind = "volume" /\ a[x].refs # {}
    \/ f.check = "unused-ami" /\ \E i \in Of(a, "image") : x \in a[i].refs
    \/ f.check = "incomplete-multipart-upload" /\ a[x].kind = "upload"
    \/ /\ f.check \notin CountsOthers /\ <<f.check, a[x].kind>> \in Judged
       /\ f.check = "unattached-ebs" => a[x].refs = {}
       /\ f.check = "orphaned-snapshot" => \A i \in Of(a, "image") : x \notin a[i].refs

LEMMA FoundCounts ==
  ASSUME NEW a, NEW s, Witnessed({a}, s), NEW c \in CheckNames,
         Right({a}, c, CHECKS(c, s).finds), NEW f \in CHECKS(c, s).finds
  PROVE  Counts(a, f)
<1>1. \A x \in DOMAIN s : x \in DOMAIN a /\ s[x] = a[x]
  BY WasSeen
<1>2. f.check = c /\ \A u : ~ ({f.id, u} \subseteq DOMAIN a /\ Keeps(a, u, f.id))
  BY DEF Right, InUse
<1>3. Sound(a)
  BY DEF Witnessed
<1>4. CASE c = "stopped-instance"
  <2>1. f.bills = Naming(s, "volume", f.id)
    BY <1>4, BillsAreRead DEF CHECKS
  <2>2. \A x \in f.bills : a[x].kind = "volume" /\ a[x].refs # {}
    BY <1>1, <2>1 DEF Naming, Of
  <2> QED  BY <1>2, <1>4, <2>2 DEF Counts
<1>5. CASE c = "unused-ami"
  <2>1. f.id \in DOMAIN s /\ s[f.id].kind = "image" /\ f.bills = s[f.id].refs
    BY <1>5, AmiFound DEF CHECKS
  <2>2. f.id \in Of(a, "image") /\ f.bills = a[f.id].refs
    BY <1>1, <2>1 DEF Of
  <2> QED  BY <1>2, <1>5, <2>2 DEF Counts
<1>6. CASE c = "incomplete-multipart-upload"
  <2>1. f.bills = Naming(s, "upload", f.id)
    BY <1>6, BillsAreRead DEF CHECKS
  <2>2. \A x \in f.bills : a[x].kind = "upload"
    BY <1>1, <2>1 DEF Naming, Of
  <2> QED  BY <1>2, <1>6, <2>2 DEF Counts
<1>7. CASE c \notin CountsOthers
  <2>1. f.id \in DOMAIN a /\ <<c, a[f.id].kind>> \in Judged /\ f.bills \subseteq {f.id}
    <3>1. f.id \in DOMAIN s /\ <<c, s[f.id].kind>> \in Judged /\ f.bills \subseteq {f.id}
      BY <1>7, FoundAreJudged
    <3>2. s[f.id] = a[f.id] /\ f.id \in DOMAIN a
      BY <1>1, <3>1
    <3> QED  BY <3>1, <3>2
  <2>2. ASSUME c = "unattached-ebs" PROVE a[f.id].refs = {}
    <3>1. a[f.id].kind = "volume"
      BY <2>1, <2>2, JudgedIs
    <3>2. a[f.id].refs \subseteq DOMAIN a
      BY <1>3, <2>1, <3>1 DEF Sound, Holding
    <3>3. \A u : u \in a[f.id].refs => Keeps(a, u, f.id)
      BY <3>1, VolumeKept
    <3> QED  BY <1>2, <2>1, <3>2, <3>3
  <2>3. ASSUME c = "orphaned-snapshot", NEW i \in Of(a, "image"), f.id \in a[i].refs PROVE FALSE
    <3>1. a[f.id].kind = "snapshot"
      BY <2>1, <2>3, JudgedIs
    <3>2. Keeps(a, i, f.id)
      BY <2>3, <3>1, SnapshotKept DEF Of
    <3> QED  BY <1>2, <2>1, <3>2 DEF Of
  <2> QED  BY <1>2, <1>7, <2>1, <2>2, <2>3 DEF Counts
<1> QED  BY <1>4, <1>5, <1>6, <1>7 DEF CountsOthers

LEMMA OneJudge ==
  \A c, d, k : <<c, k>> \in Judged /\ <<d, k>> \in Judged => c = d
BY DEF Judged

LEMMA JudgesOf ==
  /\ \A c : <<c, "volume">> \in Judged => c = "unattached-ebs"
  /\ \A c : <<c, "snapshot">> \in Judged => c = "orphaned-snapshot"
  /\ \A c : <<c, "upload">> \notin Judged
BY DEF Judged

LEMMA CountedOnce ==
  ASSUME NEW a, \A i \in Of(a, "image") : \A w \in a[i].refs : a[w].kind = "snapshot",
         NEW f, Counts(a, f), NEW g, Counts(a, g), f.check # g.check
  PROVE  f.bills \cap g.bills = {}
<1> SUFFICES ASSUME NEW x \in f.bills, x \in g.bills PROVE FALSE
  OBVIOUS
<1>1. ASSUME NEW h, Counts(a, h), x \in h.bills
      PROVE  \/ h.check = "stopped-instance" /\ a[x].kind = "volume" /\ a[x].refs # {}
             \/ /\ h.check = "unused-ami" /\ a[x].kind = "snapshot"
                /\ \E i \in Of(a, "image") : x \in a[i].refs
             \/ h.check = "incomplete-multipart-upload" /\ a[x].kind = "upload"
             \/ /\ h.check \notin CountsOthers /\ <<h.check, a[x].kind>> \in Judged
                /\ h.check = "unattached-ebs" => a[x].refs = {}
                /\ h.check = "orphaned-snapshot" => \A i \in Of(a, "image") : x \notin a[i].refs
  BY <1>1 DEF Counts
<1>2. PICK c, d, k : c = f.check /\ d = g.check /\ k = a[x].kind /\ c # d
  OBVIOUS
<1>3. \/ c = "stopped-instance" /\ k = "volume" /\ a[x].refs # {}
      \/ c = "unused-ami" /\ k = "snapshot" /\ \E i \in Of(a, "image") : x \in a[i].refs
      \/ c = "incomplete-multipart-upload" /\ k = "upload"
      \/ /\ c \notin CountsOthers /\ <<c, k>> \in Judged
         /\ c = "unattached-ebs" => a[x].refs = {}
         /\ c = "orphaned-snapshot" => \A i \in Of(a, "image") : x \notin a[i].refs
  BY <1>1, <1>2
<1>4. \/ d = "stopped-instance" /\ k = "volume" /\ a[x].refs # {}
      \/ d = "unused-ami" /\ k = "snapshot" /\ \E i \in Of(a, "image") : x \in a[i].refs
      \/ d = "incomplete-multipart-upload" /\ k = "upload"
      \/ /\ d \notin CountsOthers /\ <<d, k>> \in Judged
         /\ d = "unattached-ebs" => a[x].refs = {}
         /\ d = "orphaned-snapshot" => \A i \in Of(a, "image") : x \notin a[i].refs
  BY <1>1, <1>2
<1>5. <<c, k>> \in Judged /\ <<d, k>> \in Judged
  BY <1>2, <1>3, <1>4, JudgesOf
<1> QED  BY <1>2, <1>5, OneJudge

\* While a round's checks run of an account nobody has changed, each finding
\* counts what there is to pay.
Counting ==
  pc \in {"listing", "judged", "failed"} /\ ~ moved =>
    during = {acct} /\ \A f \in report : Counts(acct, f)

LEMMA InitCounting == Init => Counting
BY DEF Init, Counting

LEMMA JudgesCounts ==
  ASSUME KeepInv, Counting, Judges PROVE Counting'
<1>1. /\ UNCHANGED <<acct, moved, during>>
      /\ pc = "listing" /\ left = <<>> /\ pending = {} /\ pc' = "judged"
      /\ report' = report \cup CHECKS(check, seen).finds
  BY DEF Judges, cleanVars
<1> SUFFICES ASSUME ~ moved PROVE \A f \in report' : Counts(acct, f)
  BY <1>1 DEF Counting
<1>2. during = {acct} /\ \A f \in report : Counts(acct, f)
  BY <1>1 DEF Counting
<1>3. PICK a, t, c : a = acct /\ t = seen /\ c = check
  OBVIOUS
<1>4. c \in CheckNames /\ Reads({a}, t, {}, <<>>, c)
  BY <1>1, <1>2, <1>3, CheckIsNamed DEF KeepInv, RoundsInv, ReadSoFar
<1>5. Right({a}, c, CHECKS(c, t).finds) /\ Witnessed({a}, t)
  BY <1>4, ReadingIsDone DEF Reads
<1>6. \A f \in CHECKS(c, t).finds : Counts(a, f)
  BY <1>4, <1>5, FoundCounts
<1> QED  BY <1>1, <1>2, <1>3, <1>6

LEMMA CountingNext ==
  ASSUME KeepInv, Counting, [Next]_vars PROVE Counting'
<1>1. CASE \/ Lists \/ Raises \/ Rest \/ (\E r \in pending : Describes(r)) \/ UNCHANGED vars
  BY <1>1 DEF Counting, Lists, Raises, Rest, Describes, vars, scanVars, cleanVars
<1>2. CASE Judges
  BY <1>2, JudgesCounts
<1>3. CASE NextCheck
  BY <1>3 DEF NextCheck, StartCheck, Counting, cleanVars
<1>4. CASE Again
  BY <1>4 DEF Again, StartCheck, Counting, cleanVars
<1>5. CASE StartClean \/ \E p \in todo \cup {plan} : Call(p)
  BY <1>5 DEF StartClean, Call, Counting
<1>6. CASE \E m \in moves : Creates(m) \/ Changes(m) \/ Deletes(m)
  BY <1>6 DEF Creates, Changes, Deletes, Owner, Counting
<1> QED  BY <1>1, <1>2, <1>3, <1>4, <1>5, <1>6 DEF Next, Tool

\* ChecksDoNotOverlap (packs/core/checks/, packs/lightsail/checks.py): of an
\* account whose owner makes its images of its snapshots, and which nobody has
\* changed since the round began, no two checks count one charge: the volumes of a
\* stopped instance are not unattached, the snapshots of an unused image are
\* not orphaned, and every other check counts what it alone judges.
THEOREM NoChargeTwice == ASSUME Everyday PROVE Spec => []ChecksDoNotOverlap
<1>1. KeepInv /\ Counting => ChecksDoNotOverlap
  <2> SUFFICES ASSUME KeepInv, Counting, pc = "judged", ~ moved,
                      NEW f \in report, NEW g \in report, f.check # g.check
               PROVE  f.bills \cap g.bills = {}
    BY DEF ChecksDoNotOverlap
  <2>1. PICK a : a = acct
    OBVIOUS
  <2>2. Counts(a, f) /\ Counts(a, g)
    BY <2>1 DEF Counting
  <2>3. \A i \in Of(a, "image") : \A w \in a[i].refs : a[w].kind = "snapshot"
    BY <2>1, BehindImages DEF Of, KeepInv, Keeping, RoundsInv, Running
  <2> QED  BY <2>2, <2>3, CountedOnce
<1>2. Init => Counting
  BY InitCounting
<1>3. KeepInv /\ Counting /\ [Next]_vars => Counting'
  BY CountingNext
<1> QED  BY KeepHolds, <1>1, <1>2, <1>3, PTL DEF Spec

=============================================================================
