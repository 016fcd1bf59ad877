------------------------------ MODULE PriceTable ------------------------------
(***************************************************************************)
(* The price table and how it is read: pricing/__init__.py, rates.py and   *)
(* the rates of the lightsail pack. A table is a function from sections to *)
(* data; data is a price for each region, a price for each variant in each *)
(* region, or for the global services a price for each variant. A pair of  *)
(* deployment and storage type is the variant of RDS storage.              *)
(*                                                                         *)
(* A lookup answers [cost, approximate]: a monthly price, and whether the  *)
(* report has to mark it as a guess.                                       *)
(***************************************************************************)
EXTENDS Integers, FiniteSets, Functions

CONSTANT None

\* None is no number.
ASSUME NoneAssumption == None \notin Int

\* Dictionaries: one entry, and one dictionary written over another.
One(x, y) == [k \in {x} |-> y]
Over(f, g) == [x \in DOMAIN f \cup DOMAIN g |-> IF x \in DOMAIN f THEN f[x] ELSE g[x]]

Fallback == "us-east-1"
Hours == 730

RateSpec(section, per_hour, variants, default, global) ==
  [section |-> section, per_hour |-> per_hour, variants |-> variants,
   default_variant |-> default, global |-> global]
Flat(section) == RateSpec(section, FALSE, FALSE, None, FALSE)
Hourly(section) == RateSpec(section, TRUE, FALSE, None, FALSE)
ByVariant(section, per_hour, default) == RateSpec(section, per_hour, TRUE, default, FALSE)
GlobalRate(section) == RateSpec(section, FALSE, TRUE, None, TRUE)

CoreRates ==
  [snapshot |-> Flat("snapshot_gb_month"), log |-> Flat("log_storage_gb_month"),
   kms |-> Flat("kms_key_month"), secret |-> Flat("secret_month"), efs |-> Flat("efs_gb_month"),
   ecr |-> Flat("ecr_gb_month"), s3 |-> Flat("s3_gb_month"),
   rds_snapshot |-> Flat("rds_snapshot_gb_month"),
   nat_gateway |-> Hourly("nat_gateway_hour"), vpc_endpoint |-> Hourly("vpc_endpoint_hour"),
   classic_lb |-> Hourly("classic_lb_hour"),
   ebs |-> ByVariant("ebs_gb_month", FALSE, "gp3"),
   load_balancer |-> ByVariant("load_balancer_hour", TRUE, "alb")]

GlobalRates ==
  [health_check |-> GlobalRate("route53_health_check_month"),
   hosted_zone |-> GlobalRate("route53_hosted_zone_month")]

LightsailRates ==
  [bundle |-> ByVariant("lightsail_bundle_month", FALSE, None),
   container_power |-> ByVariant("lightsail_container_power_month", FALSE, None),
   disk |-> Flat("lightsail_disk_gb_month"), ls_snapshot |-> Flat("lightsail_snapshot_gb_month"),
   static_ip |-> Hourly("lightsail_static_ip_hour"),
   ls_load_balancer |-> Hourly("lightsail_load_balancer_hour")]

RATES == Over(CoreRates, Over(GlobalRates, LightsailRates))

Answer(cost, approximate) == [cost |-> cost, approximate |-> approximate]
Unpriced == Answer(0, TRUE)

Section(table, name) == IF name \in DOMAIN table THEN table[name] ELSE [x \in {} |-> 0]

\* The entry of the region, or else of the fallback region, which is a guess;
\* missing, if there is neither.
lookup(table, section, region) ==
  LET data == Section(table, section)
      from == IF region \in DOMAIN data THEN region ELSE Fallback
  IN [value |-> IF from \in DOMAIN data THEN data[from] ELSE None,
      approximate |-> region \notin DOMAIN data,
      missing |-> from \notin DOMAIN data]

monthly(value, spec) == IF spec.per_hour THEN value * Hours ELSE value

\* A variant nobody has priced is a guess, as the default variant or as zero.
OfVariant(found, spec, variant) ==
  IF found.missing THEN Unpriced
  ELSE IF variant \in DOMAIN found.value
       THEN Answer(monthly(found.value[variant], spec), found.approximate)
       ELSE IF spec.default_variant \in DOMAIN found.value
            THEN Answer(monthly(found.value[spec.default_variant], spec), TRUE)
            ELSE Unpriced

apply(table, spec, region, variant) ==
  IF spec.global
  THEN LET rates == Section(table, spec.section)
       IN IF variant \in DOMAIN rates THEN Answer(monthly(rates[variant], spec), FALSE)
          ELSE Unpriced
  ELSE LET found == lookup(table, spec.section, region)
       IN IF spec.variants THEN OfVariant(found, spec, variant)
          ELSE IF found.missing THEN Unpriced
          ELSE Answer(monthly(found.value, spec), found.approximate)

(***************************************************************************)
(* Resolvers                                                               *)
(***************************************************************************)
rds_storage(table, region, type, multi_az) ==
  LET found == lookup(table, "rds_storage_gb_month", region)
      deployment == IF multi_az THEN "multi" ELSE "single"
      Price(t) == IF <<deployment, t>> \in DOMAIN found.value
                  THEN found.value[<<deployment, t>>] ELSE 0
  IN IF found.missing THEN Unpriced
     ELSE Answer(Price(IF <<deployment, type>> \in DOMAIN found.value THEN type ELSE "gp2"),
                 found.approximate \/ <<deployment, type>> \notin DOMAIN found.value)

\* A direction the region has no rate for costs nothing, and is no guess.
dynamodb_capacity(table, region, units) ==
  LET found == lookup(table, "dynamodb_capacity_hour", region)
      Price(d) == IF d \in DOMAIN found.value THEN units[d] * found.value[d] ELSE 0
  IN IF found.missing THEN Unpriced
     ELSE Answer((Price("read") + Price("write")) * Hours, found.approximate)

public_ipv4(table) ==
  LET entry == Section(table, "public_ipv4_hour")
  IN Answer((IF "_value" \in DOMAIN entry THEN entry["_value"] ELSE 0) * Hours, FALSE)

RESOLVERS == {"rds_storage", "dynamodb_capacity", "public_ipv4"}

\* What a check asks: a key, and the arguments its rate takes.
resolve(table, key, asked) ==
  CASE key = "rds_storage" -> rds_storage(table, asked.region, asked.variant[2],
                                          asked.variant[1] = "multi")
    [] key = "dynamodb_capacity" ->
         dynamodb_capacity(table, asked.region,
                           [d \in {"read", "write"} |-> IF d = asked.variant THEN 1 ELSE 0])
    [] key = "public_ipv4" -> public_ipv4(table)
    [] key \notin RESOLVERS -> apply(table, RATES[key], asked.region, asked.variant)
===============================================================================
