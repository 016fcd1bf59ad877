----------------------------- MODULE PriceRefresh -----------------------------
(***************************************************************************)
(* python -m zombiescan.pricing.refresh: every registered fetcher in turn  *)
(* asks for its listing and adds its sections; a refresh that would lose a *)
(* section is refused; then the table on disk is emptied and written. A    *)
(* fetcher may raise, a pack with fetchers may fail to load, the listing   *)
(* may differ from the last time's, and the process may be killed.         *)
(*                                                                         *)
(* An entry of the Price List has a region (None for a global service), a  *)
(* kind, which stands for the attributes the fetchers tell usage types     *)
(* apart by, and its price dimensions, each with a unit and a price in USD *)
(* (None if it has none). A listing is read whole, page after page.        *)
(***************************************************************************)
EXTENDS PriceTable, Sequences, FiniteSetsExt

CONSTANTS
  Scenes,    \* name -> the fetchers that may be registered when a refresh begins (a set of
             \* sequences, registries), and what each fetcher may be answered (answers)
  MaxFaults  \* bound: how many refreshes are cut short by an exception or a kill

ASSUME BoundAssumption == MaxFaults \in Nat

VARIABLES
  scene,
  pc,       \* idle | fetching | checking | writing
  queue,    \* the fetchers still to be run
  payload,  \* the table so far
  file,     \* on disk: absent | torn | whole
  stored,   \* the table on disk, when it is whole
  faults,   \* refreshes cut short
  listed,   \* history: what each fetcher was answered for the payload
  origin,   \* history: what each was answered for the table on disk
  priced    \* history: the sections that have had rates on disk

vars == <<scene, pc, queue, payload, file, stored, faults, listed, origin, priced>>

Empty == [x \in {} |-> 0]

(***************************************************************************)
(* Fetchers: which kinds of an entry are wanted and the variant each       *)
(* prices, in which unit, and which price of several is kept.              *)
(***************************************************************************)
Fetch(as, unit, keep) == [as |-> as, unit |-> unit, keep |-> keep, flat |-> FALSE, global |-> FALSE]
FlatRate(kinds, unit, keep) ==
  [Fetch([k \in kinds |-> None], [k \in kinds |-> unit], keep) EXCEPT !.flat = TRUE]
Same(kinds) == [k \in kinds |-> k]
For(kinds, unit) == [k \in kinds |-> unit]

VOLUME_TYPES == {"gp3", "gp2", "io1", "io2", "st1", "sc1", "standard"}
RDS_VOLUME_KEYS == {"gp2", "gp3", "io1", "io2", "standard"}

fetch_ebs_volumes == Fetch(Same(VOLUME_TYPES), For(VOLUME_TYPES, "GB-Mo"), "last")
fetch_rds_storage ==
  LET media == RDS_VOLUME_KEYS \X {"single", "multi"}
  IN Fetch([x \in media |-> <<x[2], x[1]>>], For(media, "GB-Mo"), "first")
fetch_load_balancer_hours == Fetch(Same({"alb", "nlb"}), For({"alb", "nlb"}, "Hrs"), "last")
fetch_dynamodb_capacity == Fetch(Same({"read", "write"}), Same({"read", "write"}), "last")
fetch_route53_health_checks ==
  [Fetch(Same({"aws", "non_aws"}), For({"aws", "non_aws"}, "Mo"), "last") EXCEPT !.global = TRUE]

\* Of each service, the storage, hours or things of the plain kind; ECR tells
\* no kinds apart.
fetch_snapshots == FlatRate({"Standard"}, "GB-Mo", "last")
fetch_log_storage == FlatRate({"Standard"}, "GB-Mo", "last")
fetch_ecr_storage == FlatRate({"Standard", "Archive"}, "GB-Mo", "last")
fetch_efs_storage == FlatRate({"Standard"}, "GB-Mo", "last")
fetch_s3_storage == FlatRate({"Standard"}, "GB-Mo", "max")
fetch_rds_snapshot_storage == FlatRate({"Standard"}, "GB-Mo", "last")
fetch_nat_gateway_hours == FlatRate({"Hours"}, "Hrs", "last")
fetch_vpc_endpoint_hours == FlatRate({"Hours"}, "Hrs", "last")
fetch_classic_lb_hours == FlatRate({"Hours"}, "Hrs", "last")
fetch_kms_keys == FlatRate({"Key"}, "Keys", "last")
fetch_secrets == FlatRate({"Secret"}, "Secrets", "last")

\* One fetcher of the lightsail pack for four sections: the groups of a
\* listing. Snapshots are listed under two.
LIGHTSAIL_GROUPS ==
  [lightsail_disk_gb_month |-> FlatRate({"Block Storage"}, "GB-Mo", "max"),
   lightsail_static_ip_hour |-> FlatRate({"unused static IP"}, "Hrs", "max"),
   lightsail_load_balancer_hour |-> FlatRate({"Load Balancer"}, "Hrs", "max"),
   lightsail_snapshot_gb_month |-> FlatRate({"Snapshot", "Instance Snapshot"}, "GB-Mo", "max")]

CoreFetchers ==
  [ebs_gb_month |-> fetch_ebs_volumes, snapshot_gb_month |-> fetch_snapshots,
   nat_gateway_hour |-> fetch_nat_gateway_hours, load_balancer_hour |-> fetch_load_balancer_hours,
   log_storage_gb_month |-> fetch_log_storage, vpc_endpoint_hour |-> fetch_vpc_endpoint_hours,
   classic_lb_hour |-> fetch_classic_lb_hours, rds_storage_gb_month |-> fetch_rds_storage,
   kms_key_month |-> fetch_kms_keys, secret_month |-> fetch_secrets,
   ecr_gb_month |-> fetch_ecr_storage, efs_gb_month |-> fetch_efs_storage,
   s3_gb_month |-> fetch_s3_storage, rds_snapshot_gb_month |-> fetch_rds_snapshot_storage,
   dynamodb_capacity_hour |-> fetch_dynamodb_capacity,
   route53_health_check_month |-> fetch_route53_health_checks]

FETCHES == Over(CoreFetchers, LIGHTSAIL_GROUPS)

\* The sections a fetcher declares: its own name, but for these.
Declared(fetcher) ==
  CASE fetcher = "lightsail rates" -> DOMAIN LIGHTSAIL_GROUPS
    [] fetcher = "lightsail bundles" ->
         {"lightsail_bundle_month", "lightsail_container_power_month"}
    [] OTHER -> {fetcher}

\* Mutant of usd_rate: any price there is, an allowance of nothing too.
usd_rate_lowest(entry, unit) ==
  LET rates == {d.usd : d \in {d \in entry.dims : d.unit = unit}} \ {None}
  IN IF rates = {} THEN None ELSE Min(rates)

\* The highest positive price of an entry in the unit, None if there is none.
usd_rate(entry, unit) ==
  LET rates == {d.usd : d \in {d \in entry.dims : d.unit = unit}} \ {None, 0}
  IN IF rates = {} THEN None ELSE Max(rates)

Rate(fetch, entry) == usd_rate(entry, fetch.unit[entry.kind])

\* The rate kept of the entries at some places of a listing.
Kept(fetch, listing, places) ==
  CASE fetch.keep = "last" -> Rate(fetch, listing[Max(places)])
    [] fetch.keep = "first" -> Rate(fetch, listing[Min(places)])
    [] fetch.keep = "max" -> Max({Rate(fetch, listing[i]) : i \in places})

\* The places of the entries that have a rate of what is wanted.
Wanted(fetch, listing) ==
  {i \in DOMAIN listing : /\ listing[i].kind \in DOMAIN fetch.as
                          /\ fetch.global \/ listing[i].region # None
                          /\ Rate(fetch, listing[i]) # None}

Variants(fetch, listing, places) ==
  LET Variant(i) == fetch.as[listing[i].kind]
  IN IF fetch.flat THEN Kept(fetch, listing, places)
     ELSE [v \in {Variant(i) : i \in places} |->
             Kept(fetch, listing, {i \in places : Variant(i) = v})]

Fetched(fetch, listing) ==
  LET wanted == Wanted(fetch, listing)
  IN IF fetch.global THEN Variants(fetch, listing, wanted)
     ELSE [r \in {listing[i].region : i \in wanted} |->
             Variants(fetch, listing, {i \in wanted : listing[i].region = r})]

\* The tiers are the dimensions of one usage type, told apart by where their
\* range begins, here their unit; a price of nothing is taken as it is.
Tiers(listing) ==
  UNION {{d \in e.dims : d.usd # None} : e \in {e \in Range(listing) : e.kind = "HostedZone"}}
Tier(d) == IF d.unit = "0" THEN "first_25" ELSE "additional"

fetch_route53_hosted_zones(listing) ==
  [t \in {Tier(d) : d \in Tiers(listing)} |-> (CHOOSE d \in Tiers(listing) : Tier(d) = t).usd]

public_ipv4_hour == [_value |-> 5]

\* Lightsail's own API: per region, bundles and then container powers. A region
\* whose call fails keeps what it answered before; an empty answer adds none.
fetch_lightsail_bundles(asked) ==
  LET Of(kind) == {i \in DOMAIN asked : asked[i].kind = kind}
      ByName(places) ==
        [v \in {asked[i].name : i \in places} |->
           asked[Max({i \in places : asked[i].name = v})].usd]
      ByRegion(places) ==
        [r \in {asked[i].region : i \in places} |->
           ByName({i \in places : asked[i].region = r})]
  IN [lightsail_bundle_month |-> ByRegion(Of("bundle")),
      lightsail_container_power_month |-> ByRegion(Of("power"))]

Produced(fetcher, listing) ==
  CASE fetcher = "lightsail bundles" -> fetch_lightsail_bundles(listing)
    [] fetcher = "route53_hosted_zone_month" ->
         One(fetcher, fetch_route53_hosted_zones(listing))
    [] fetcher = "public_ipv4_hour" -> One(fetcher, public_ipv4_hour)
    [] fetcher = "lightsail rates" ->
         [s \in DOMAIN LIGHTSAIL_GROUPS |-> Fetched(FETCHES[s], listing)]
    [] fetcher \in DOMAIN CoreFetchers ->
         One(fetcher, Fetched(FETCHES[fetcher], listing))
    \* A fetcher of some other pack, whose listing is what it returns.
    [] OTHER -> listing

Shipped ==
  DOMAIN CoreFetchers \cup
    {"route53_hosted_zone_month", "public_ipv4_hour", "lightsail rates", "lightsail bundles"}

(***************************************************************************)
(* What is assumed of a scene: that no fetcher is registered twice and no  *)
(* two claim one section, which price_fetcher refuses; and that what a     *)
(* shipped fetcher is answered is a list of entries, the dimensions of     *)
(* each finitely many and priced in USD or not, or of Lightsail's prices.  *)
(***************************************************************************)
Listing(l) ==
  /\ l \in Seq(Range(l))
  /\ \A e \in Range(l) : IsFiniteSet(e.dims) /\ \A d \in e.dims : d.usd \in Nat \cup {None}
ApiAnswer(l) == l \in Seq(Range(l)) /\ \A e \in Range(l) : e.usd \in Nat

ASSUME SceneAssumption ==
  \A s \in DOMAIN Scenes : \A fetchers \in Scenes[s].registries :
    /\ fetchers \in Seq(Range(fetchers)) /\ IsInjective(fetchers)
    /\ \A f, g \in Range(fetchers) : f # g => Declared(f) \cap Declared(g) = {}
    /\ \A f \in Range(fetchers) \cap Shipped : \A l \in Scenes[s].answers[f] :
         IF f = "lightsail bundles" THEN ApiAnswer(l) ELSE Listing(l)

Init ==
  /\ scene \in DOMAIN Scenes
  /\ pc = "idle" /\ queue = <<>> /\ payload = Empty /\ faults = 0
  /\ file = "absent" /\ stored = Empty
  /\ listed = Empty /\ origin = Empty /\ priced = {}

Begins(fetchers) ==
  /\ pc = "idle"
  /\ queue' = fetchers /\ payload' = Empty /\ listed' = Empty
  /\ pc' = "fetching"
  /\ UNCHANGED <<scene, file, stored, faults, origin, priced>>

\* packs.discover: a pack that is missing, or does not load, leaves its fetchers out.
Starts == \E fetchers \in Scenes[scene].registries : Begins(fetchers)

\* Mutant of Unexpected: whatever a fetcher returns is taken.
UnexpectedIsTaken(fetcher, listing) == {}

Unexpected(fetcher, listing) == DOMAIN Produced(fetcher, listing) \ Declared(fetcher)

Fetches(listing) ==
  /\ pc = "fetching" /\ queue # <<>>
  /\ Unexpected(Head(queue), listing) = {}
  /\ payload' = Over(Produced(Head(queue), listing), payload)
  /\ listed' = Over(One(Head(queue), listing), listed)
  /\ queue' = Tail(queue)
  /\ UNCHANGED <<scene, pc, file, stored, faults, origin, priced>>

\* The refresh ends with an exception: a fetcher returned a section it had not
\* declared.
RefusesUndeclared(listing) ==
  /\ pc = "fetching" /\ queue # <<>>
  /\ Unexpected(Head(queue), listing) # {}
  /\ pc' = "idle"
  /\ UNCHANGED <<scene, queue, payload, file, stored, faults, listed, origin, priced>>

\* The API refused, or the answer was lost.
FetchRaises ==
  /\ pc = "fetching" /\ queue # <<>> /\ faults < MaxFaults
  /\ pc' = "idle" /\ faults' = faults + 1
  /\ UNCHANGED <<scene, queue, payload, file, stored, listed, origin, priced>>

AllFetched ==
  /\ pc = "fetching" /\ queue = <<>>
  /\ pc' = "checking"
  /\ UNCHANGED <<scene, queue, payload, file, stored, faults, listed, origin, priced>>

Rated(table) == {s \in DOMAIN table : DOMAIN table[s] # {}}

\* Mutant of regressions: a section that is there is taken for good.
regressions_missing_only(table, existing) == Rated(existing) \ DOMAIN table

\* The sections that had entries and are gone, or have none now.
regressions(table, existing) == Rated(existing) \ Rated(table)

\* A table that cannot be read ends the refresh too.
Refuses ==
  /\ pc = "checking"
  /\ file = "torn" \/ (file = "whole" /\ regressions(payload, stored) # {})
  /\ pc' = "idle"
  /\ UNCHANGED <<scene, queue, payload, file, stored, faults, listed, origin, priced>>

Opens ==
  /\ pc = "checking" /\ file # "torn"
  /\ file = "whole" => regressions(payload, stored) = {}
  /\ file' = "torn" /\ stored' = Empty
  /\ pc' = "writing"
  /\ UNCHANGED <<scene, queue, payload, faults, listed, origin, priced>>

Writes ==
  /\ pc = "writing"
  /\ file' = "whole" /\ stored' = payload
  /\ origin' = listed /\ priced' = priced \cup Rated(payload)
  /\ pc' = "idle"
  /\ UNCHANGED <<scene, queue, payload, faults, listed>>

Killed ==
  /\ pc # "idle" /\ faults < MaxFaults
  /\ pc' = "idle" /\ faults' = faults + 1
  /\ UNCHANGED <<scene, queue, payload, file, stored, listed, origin, priced>>

Answers == IF queue = <<>> THEN {} ELSE Scenes[scene].answers[Head(queue)]

Refresh ==
  \/ Starts
  \/ \E answer \in Answers : Fetches(answer) \/ RefusesUndeclared(answer)
  \/ AllFetched \/ Refuses \/ Opens \/ Writes

Next == Refresh \/ FetchRaises \/ Killed

Spec == Init /\ [][Next]_vars

-------------------------------------------------------------------------------
\* A payload, and a table on disk, holds all that the shipped fetchers it was
\* made by declare, and nothing that none of its fetchers declares; the table
\* is in pieces while it is being written (pricing/refresh.py:572-597, 642).
Sections(fetchers) == UNION {Declared(f) : f \in fetchers}
MadeBy(table, fetchers) ==
  /\ DOMAIN table \subseteq Sections(fetchers)
  /\ Sections(fetchers \cap Shipped) \subseteq DOMAIN table

TypeOK ==
  /\ pc \in {"idle", "fetching", "checking", "writing"} /\ faults \in 0 .. MaxFaults
  /\ \E registry \in Scenes[scene].registries \cup {<<>>} :
       Range(queue) \cup DOMAIN listed \subseteq Range(registry)
  /\ MadeBy(payload, DOMAIN listed)
  /\ file \in {"absent", "torn", "whole"} /\ (pc = "writing" => file = "torn")
  /\ file = "whole" => MadeBy(stored, DOMAIN origin)

\* Through any number of refreshes, whatever they are answered and however
\* they end, a section that has ever had rates on disk has rates whenever the
\* table can be read.
RatesKept == file = "whole" => priced \subseteq Rated(stored)

RegionsAsked == {"us-east-1", "eu-west-1", "nowhere"}
AnyVariant == {"gp3", "gp2", "alb", "nlb", "aws", "non_aws", "first_25", "additional",
               "micro", "nano", "unknown"}
DeploymentTypes == {<<d, t>> : d \in {"single", "multi"}, t \in {"gp2", "gp3", "unknown"}}

\* None is no name: no region that is asked for, no variant a fetcher prices.
ASSUME NameAssumption ==
  /\ None \notin RegionsAsked
  /\ \A s \in DOMAIN FETCHES :
       ~ FETCHES[s].flat => \A k \in DOMAIN FETCHES[s].as : FETCHES[s].as[k] # None

OwnerOf(asked, section) == CHOOSE f \in DOMAIN asked : section \in Declared(f)

\* What AWS published for a section: the positive prices, in what the fetcher
\* was answered, for the region and variant, and in the unit, that are meant.
Published(section, region, variant) ==
  LET owner == OwnerOf(origin, section)
      entries == Range(origin[owner])
      In(e) == e.region = region \/ (owner \in DOMAIN FETCHES /\ FETCHES[owner].global)
      kind == IF section = "lightsail_bundle_month" THEN "bundle" ELSE "power"
  IN CASE owner = "lightsail bundles" ->
            {e.usd : e \in {e \in entries : In(e) /\ e.kind = kind /\ e.name = variant}}
       [] section = "route53_hosted_zone_month" ->
            {d.usd : d \in {d \in UNION {e.dims : e \in {e \in entries : e.kind = "HostedZone"}} :
                              Tier(d) = variant}} \ {None}
       [] OTHER ->
            LET meant == {e \in entries : /\ In(e) /\ e.kind \in DOMAIN FETCHES[section].as
                                          /\ FETCHES[section].as[e.kind] \in {None, variant}}
            IN (UNION {{d.usd : d \in {d \in e.dims : d.unit = FETCHES[section].unit[e.kind]}} :
                         e \in meant}) \ {None, 0}

ExactIfPublished(answer, prices) ==
  /\ answer.approximate <=> prices = {}
  /\ prices # {} => answer.cost = Max(prices)

\* A price is given as exact if and only if AWS published one for that very
\* region and variant, and then it is the highest that was published, however
\* many entries, tiers and allowances the listing had and in whichever order.
HonestPrices ==
  file = "whole" =>
    /\ \A key \in {k \in DOMAIN RATES : RATES[k].section \in DOMAIN stored},
          region \in RegionsAsked, variant \in AnyVariant :
         LET spec == RATES[key]
         IN ExactIfPublished(resolve(stored, key, [region |-> region, variant |-> variant]),
              {monthly(p, spec) :
                 p \in Published(spec.section, region, IF spec.variants THEN variant ELSE None)})
    /\ \A region \in RegionsAsked, variant \in DeploymentTypes :
         "rds_storage_gb_month" \in DOMAIN stored =>
           ExactIfPublished(resolve(stored, "rds_storage", [region |-> region, variant |-> variant]),
                            Published("rds_storage_gb_month", region, variant))

(***************************************************************************)
(* What HonestPrices needs of the listings: that where a fetcher keeps the *)
(* first or the last of several rates for one region and variant they are  *)
(* the same, "Prices are consistent across engines for a given volume type *)
(* and deployment" (pricing/refresh.py:288-290); and of the packs, that    *)
(* Lightsail's sections are fetched by nobody else.                        *)
(***************************************************************************)
OneRate(fetch, listing) ==
  \A i, j \in Wanted(fetch, listing) :
    /\ fetch.global \/ listing[i].region = listing[j].region
    /\ fetch.as[listing[i].kind] = fetch.as[listing[j].kind]
    => Rate(fetch, listing[i]) = Rate(fetch, listing[j])
OneTierPrice(listing) == \A c, d \in Tiers(listing) : Tier(c) = Tier(d) => c.usd = d.usd
OneApiPrice(asked) ==
  \A d, e \in Range(asked) :
    d.kind = e.kind /\ d.region = e.region /\ d.name = e.name => d.usd = e.usd

OneRateListed ==
  \A s \in DOMAIN Scenes : \A fetchers \in Scenes[s].registries : \A f \in Range(fetchers) :
    /\ f \notin DOMAIN LIGHTSAIL_GROUPS \cup Declared("lightsail bundles")
    /\ \A l \in Scenes[s].answers[f] :
         CASE f = "lightsail bundles" -> OneApiPrice(l)
           [] f = "route53_hosted_zone_month" -> OneTierPrice(l)
           [] f \in DOMAIN CoreFetchers ->
                CoreFetchers[f].keep = "max" \/ OneRate(CoreFetchers[f], l)
           [] OTHER -> TRUE
===============================================================================
