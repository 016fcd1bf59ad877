---------------------------- MODULE MCPriceRefresh ----------------------------
(***************************************************************************)
(* Instances of PriceRefresh: a few fetchers at a time, each of which may  *)
(* be answered with a whole listing, in either order, with part of one, or *)
(* with none. Listings have prices in several tiers and units, allowances  *)
(* that cost nothing, prices without USD, kinds no fetcher wants, and      *)
(* entries without a region.                                               *)
(***************************************************************************)
EXTENDS PriceRefresh, SequencesExt, TLC

Home == "us-east-1"
Away == "eu-west-1"

Dim(unit, usd) == [unit |-> unit, usd |-> usd]
Entry(region, kind, dims) == [region |-> region, kind |-> kind, dims |-> dims]
Plain(region, kind, unit, usd) == Entry(region, kind, {Dim(unit, usd)})

Flatly(kind, unit) ==
  <<Plain(Home, kind, unit, 3), Plain(Away, kind, unit, 4), Plain(Home, "other", unit, 9),
    Plain(None, kind, unit, 8), Plain("cn", kind, unit, None)>>
Tiered(kind, unit) ==
  <<Entry(Home, kind, {Dim(unit, 0), Dim(unit, 2), Dim(unit, 3), Dim("Requests", 9)}),
    Plain(Away, kind, unit, 4), Plain(Away, kind, "Requests", 5)>>
Both(kinds, unit) ==
  <<Plain(Home, kinds[1], unit, 3), Plain(Home, kinds[2], unit, 5), Plain(Away, kinds[2], unit, 6)>>
TwoEntries(kinds) ==
  <<Plain(Home, kinds[1], "GB-Mo", 3), Plain(Home, kinds[2], "GB-Mo", 5), Plain(Away, kinds[1], "GB-Mo", 4)>>

\* A listing whole, in the other order, without its first entry, and empty.
AnyPart(listing) == {listing, Reverse(listing), Tail(listing), <<>>}

\* All of the fetchers, or those of the packs that are there.
Scene(answers, fetchers, there) == [registries |-> {fetchers, there}, answers |-> answers]
FlatScene(fetchers, kind, unit) ==
  Scene([f \in Range(fetchers) |-> AnyPart(Flatly(kind, unit))], fetchers, fetchers)

Media == <<<<"gp2", "single">>, <<"gp2", "multi">>>>
Api ==
  <<[kind |-> "bundle", region |-> Home, name |-> "micro", usd |-> 5],
    [kind |-> "bundle", region |-> Home, name |-> "nano", usd |-> 3],
    [kind |-> "power", region |-> Home, name |-> "micro", usd |-> 7],
    [kind |-> "bundle", region |-> Away, name |-> "micro", usd |-> 6]>>
Health ==
  <<Plain(None, "aws", "Mo", 1), Plain(None, "non_aws", "Mo", 2), Plain(None, "Option", "Mo", 9)>>
Zones ==
  <<Plain(None, "Global-RRSets", "0", 9), Entry(None, "HostedZone", {Dim("0", 5), Dim("25", 1)})>>

MCScenes ==
  [backups |-> FlatScene(<<"snapshot_gb_month", "rds_snapshot_gb_month">>, "Standard", "GB-Mo"),
   logs    |-> FlatScene(<<"log_storage_gb_month", "efs_gb_month">>, "Standard", "GB-Mo"),
   network |-> FlatScene(<<"nat_gateway_hour", "vpc_endpoint_hour">>, "Hours", "Hrs"),
   things  |-> Scene([kms_key_month |-> AnyPart(Flatly("Key", "Keys")),
                      secret_month |-> AnyPart(Flatly("Secret", "Secrets"))],
                     <<"kms_key_month", "secret_month">>, <<"kms_key_month", "secret_month">>),
   tiers   |-> Scene([s3_gb_month |->
                        AnyPart(Tiered("Standard", "GB-Mo") \o <<Plain(Home, "Standard", "GB-Mo", 1)>>),
                      ecr_gb_month |-> AnyPart(Tiered("Standard", "GB-Mo")),
                      classic_lb_hour |-> {Tiered("Hours", "Hrs")}],
                     <<"s3_gb_month", "ecr_gb_month", "classic_lb_hour">>,
                     <<"s3_gb_month", "ecr_gb_month", "classic_lb_hour">>),
   variants |-> Scene([ebs_gb_month |-> AnyPart(Both(<<"gp3", "gp2">>, "GB-Mo")),
                       load_balancer_hour |-> AnyPart(Both(<<"alb", "nlb">>, "Hrs")),
                       public_ipv4_hour |-> {<<>>}],
                      <<"ebs_gb_month", "load_balancer_hour", "public_ipv4_hour">>,
                      <<"ebs_gb_month", "load_balancer_hour", "public_ipv4_hour">>),
   databases |-> Scene([rds_storage_gb_month |-> AnyPart(Both(Media, "GB-Mo")),
                        dynamodb_capacity_hour |->
                          AnyPart(<<Plain(Home, "read", "read", 3), Plain(Home, "write", "write", 4)>>)],
                       <<"rds_storage_gb_month", "dynamodb_capacity_hour">>,
                       <<"rds_storage_gb_month", "dynamodb_capacity_hour">>),
   dns |-> Scene([route53_health_check_month |-> AnyPart(Health),
                  route53_hosted_zone_month |-> AnyPart(Zones),
                  plugin_month |-> {[plugin_month |-> (Home :> 1)], Empty,
                                    [plugin_month |-> (Home :> 1), kms_key_month |-> (Home :> 1)]}],
                 <<"route53_health_check_month", "route53_hosted_zone_month", "plugin_month">>,
                 <<"route53_health_check_month", "route53_hosted_zone_month">>),
   lightsail |-> Scene(("lightsail rates" :>
                          AnyPart(TwoEntries(<<"Snapshot", "Instance Snapshot">>)
                                    \o Flatly("Block Storage", "GB-Mo")))
                         @@ ("lightsail bundles" :> AnyPart(Api))
                         @@ ("kms_key_month" :> {Flatly("Key", "Keys")}),
                       <<"kms_key_month", "lightsail rates", "lightsail bundles">>,
                       <<"kms_key_month">>)]

\* The listings are as HonestPrices needs them.
ASSUME OneRateAssumption == OneRateListed
===============================================================================
