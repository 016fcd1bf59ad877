-------------------------- MODULE PriceRefreshProofs --------------------------
(***************************************************************************)
(* That a refresh loses no rates, for every set of fetchers and every      *)
(* listing they may be answered, that nothing replaces a torn table, and   *)
(* that what the table answers is the highest price that was published.    *)
(***************************************************************************)
EXTENDS PriceRefresh, FiniteSetTheorems, SequenceTheorems, WellFoundedInduction, TLAPS

\* What keeps RatesKept: a refresh that is writing has passed the comparison
\* with what was on disk, and a table that never was holds no rates.
KeptInv ==
  /\ pc \in {"idle", "fetching", "checking", "writing"}
  /\ file \in {"absent", "torn", "whole"}
  /\ file = "whole" => priced \subseteq Rated(stored)
  /\ file = "absent" => priced = {}
  /\ pc = "writing" => file = "torn" /\ priced \subseteq Rated(payload)

LEMMA KeptInit == Init => KeptInv
  BY DEF Init, KeptInv

\* What regressions finds nothing in has every section that had rates.
LEMMA NothingLost ==
  ASSUME NEW table, NEW existing, regressions(table, existing) = {}
  PROVE  Rated(existing) \subseteq Rated(table)
  BY DEF regressions

LEMMA KeptNext == KeptInv /\ [Next]_vars => KeptInv'
<1> SUFFICES ASSUME KeptInv, [Next]_vars PROVE KeptInv'
  OBVIOUS
<1> USE DEF KeptInv
<1>1. ASSUME NEW fetchers, Begins(fetchers) PROVE KeptInv'
  BY <1>1 DEF Begins, Rated
<1>2. ASSUME NEW answer, Fetches(answer) \/ RefusesUndeclared(answer) PROVE KeptInv'
  BY <1>2 DEF Fetches, RefusesUndeclared, Rated
<1>3. CASE AllFetched
  BY <1>3 DEF AllFetched, Rated
<1>4. CASE Refuses
  BY <1>4 DEF Refuses, Rated
<1>5. CASE Opens
  <2>1. /\ pc' = "writing" /\ file' = "torn"
        /\ payload' = payload /\ priced' = priced
    BY <1>5 DEF Opens
  <2>2. CASE file = "whole"
    <3>1. regressions(payload, stored) = {}
      BY <1>5, <2>2 DEF Opens
    <3>2. Rated(stored) \subseteq Rated(payload)
      BY <3>1, NothingLost
    <3> QED BY <2>1, <2>2, <3>2 DEF Rated
  <2>3. CASE file = "absent"
    BY <2>1, <2>3 DEF Rated
  <2>4. file \in {"whole", "absent"}
    BY <1>5 DEF Opens
  <2> QED BY <2>2, <2>3, <2>4
<1>6. CASE Writes
  <2>1. /\ pc' = "idle" /\ file' = "whole" /\ stored' = payload
        /\ priced' = priced \cup Rated(payload)
    BY <1>6 DEF Writes
  <2>2. priced \subseteq Rated(payload)
    BY <1>6 DEF Writes
  <2> QED BY <2>1, <2>2 DEF Rated
<1>7. CASE FetchRaises
  BY <1>7 DEF FetchRaises, Rated
<1>8. CASE Killed
  BY <1>8 DEF Killed, Rated
<1>9. CASE UNCHANGED vars
  BY <1>9 DEF vars, Rated
<1> QED
  BY <1>1, <1>2, <1>3, <1>4, <1>5, <1>6, <1>7, <1>8, <1>9 DEF Next, Refresh, Starts

\* regressions and main (pricing/refresh.py): whatever is fetched, answered or
\* cut short, a section that has had rates on disk has rates in every whole
\* table after it.
THEOREM RatesAreKept == Spec => []RatesKept
<1>1. KeptInv => RatesKept
  BY DEF KeptInv, RatesKept
<1> QED
  BY <1>1, KeptInit, KeptNext, PTL DEF Spec

\* main (pricing/refresh.py) reads the table before it writes one: once a
\* refresh has been killed while it wrote, no step of any refresh changes the
\* file again.
THEOREM TornStays ==
  Spec => [][file = "torn" /\ pc # "writing" => file' = "torn" /\ pc' # "writing"]_vars
<1>1. [Next]_vars => (file = "torn" /\ pc # "writing" => file' = "torn" /\ pc' # "writing")
  <2> SUFFICES ASSUME [Next]_vars, file = "torn", pc # "writing"
               PROVE  file' = "torn" /\ pc' # "writing"
    OBVIOUS
  <2>1. ASSUME NEW fetchers, Begins(fetchers) PROVE file' = "torn" /\ pc' # "writing"
    BY <2>1 DEF Begins
  <2>2. ASSUME NEW answer, Fetches(answer) \/ RefusesUndeclared(answer)
        PROVE  file' = "torn" /\ pc' # "writing"
    BY <2>2 DEF Fetches, RefusesUndeclared
  <2>3. CASE AllFetched \/ Refuses \/ Opens \/ Writes
    BY <2>3 DEF AllFetched, Refuses, Opens, Writes
  <2>4. CASE FetchRaises \/ Killed \/ UNCHANGED vars
    BY <2>4 DEF FetchRaises, Killed, vars
  <2> QED BY <2>1, <2>2, <2>3, <2>4 DEF Next, Refresh, Starts
<1> QED
  BY <1>1, PTL DEF Spec

(***************************************************************************)
(* What a fetcher keeps of a listing.                                      *)
(***************************************************************************)
Top(x, S) == x \in S /\ \A y \in S : x >= y
Bottom(x, S) == x \in S /\ \A y \in S : x =< y

\* A finite set of numbers has a highest and a lowest.
LEMMA Extremes ==
  ASSUME NEW S, IsFiniteSet(S), S \subseteq Int, S # {}
  PROVE  (\E x \in S : Top(x, S)) /\ (\E x \in S : Bottom(x, S))
<1> DEFINE R == StrictSubsetOrdering(S)
           Good(T) == (\E x \in T : Top(x, T)) /\ (\E x \in T : Bottom(x, T))
           Bad == {T \in SUBSET S : T # {} /\ ~ Good(T)}
<1>1. SUFFICES ASSUME ~ Good(S) PROVE FALSE
  OBVIOUS
<1>2. IsWellFoundedOn(R, SUBSET S)
  BY FS_StrictSubsetOrderingWellFounded, FS_FiniteSubsetsOfFinite
<1>3. Bad # {} /\ Bad \subseteq SUBSET S
  BY <1>1
<1>4. PICK T \in Bad : \A U \in Bad : ~ (<<U, T>> \in R)
  <2> HIDE DEF R, Bad
  <2> QED  BY <1>2, <1>3, WFMin
<1>5. PICK a \in T : TRUE
  BY <1>4
<1>6. T \ {a} \notin Bad
  BY <1>4, <1>5 DEF StrictSubsetOrdering
<1>7. CASE T \ {a} = {}
  <2>1. \A y \in T : y = a /\ a \in Int
    BY <1>4, <1>5, <1>7
  <2>2. Top(a, T) /\ Bottom(a, T)
    BY <1>5, <2>1 DEF Top, Bottom
  <2> QED  BY <1>4, <1>5, <2>2
<1>8. CASE T \ {a} # {}
  <2>1. PICK x \in T \ {a}, z \in T \ {a} : Top(x, T \ {a}) /\ Bottom(z, T \ {a})
    BY <1>4, <1>6, <1>8
  <2>2. T \subseteq Int
    BY <1>4
  <2>3. \E m \in T : Top(m, T)
    <3>1. CASE x >= a
      BY <1>5, <2>1, <2>2, <3>1 DEF Top
    <3>2. CASE ~ x >= a
      <4>1. Top(a, T)
        BY <1>5, <2>1, <2>2, <3>2 DEF Top
      <4> QED  BY <1>5, <4>1
    <3> QED  BY <3>1, <3>2
  <2>4. \E m \in T : Bottom(m, T)
    <3>1. CASE z =< a
      BY <1>5, <2>1, <2>2, <3>1 DEF Bottom
    <3>2. CASE ~ z =< a
      <4>1. Bottom(a, T)
        BY <1>5, <2>1, <2>2, <3>2 DEF Bottom
      <4> QED  BY <1>5, <4>1
    <3> QED  BY <3>1, <3>2
  <2> QED  BY <1>4, <2>3, <2>4
<1> QED  BY <1>7, <1>8

LEMMA MaxMin ==
  ASSUME NEW S, IsFiniteSet(S), S \subseteq Int, S # {}
  PROVE  Top(Max(S), S) /\ Bottom(Min(S), S)
BY Extremes DEF Top, Bottom, Max, Min

\* A highest element is the highest element, and stays it by the month.
LEMMA TopIsMax ==
  ASSUME NEW x, NEW S, S \subseteq Nat, Top(x, S)
  PROVE  Max(S) = x
<1>1. \A y \in S : (\A z \in S : y >= z) => y = x
  BY DEF Top
<1> QED  BY <1>1 DEF Top, Max

LEMMA MonthlyTop ==
  ASSUME NEW x, NEW S, S \subseteq Nat, Top(x, S), NEW spec
  PROVE  Max({monthly(p, spec) : p \in S}) = monthly(x, spec)
<1>1. \A p \in S : monthly(p, spec) \in Nat /\ monthly(x, spec) >= monthly(p, spec)
  BY DEF Top, monthly, Hours
<1>2. Top(monthly(x, spec), {monthly(p, spec) : p \in S})
  BY <1>1 DEF Top
<1>3. {monthly(p, spec) : p \in S} \subseteq Nat
  BY <1>1
<1> QED  BY <1>2, <1>3, TopIsMax

\* The positive prices of an entry in the unit that is meant.
Offers(fetch, e) ==
  {d.usd : d \in {d \in e.dims : d.unit = fetch.unit[e.kind]}} \ {None, 0}

\* usd_rate takes the highest of them.
LEMMA RateIsTop ==
  ASSUME NEW fetch, NEW e, IsFiniteSet(e.dims), \A d \in e.dims : d.usd \in Nat \cup {None}
  PROVE  /\ Offers(fetch, e) \subseteq Nat
         /\ Rate(fetch, e) # None => Top(Rate(fetch, e), Offers(fetch, e))
         /\ Rate(fetch, e) = None => Offers(fetch, e) = {}
<1>1. Offers(fetch, e) \subseteq Nat
  BY DEF Offers
<1>2. IsFiniteSet(Offers(fetch, e))
  <2>1. IsFiniteSet({d \in e.dims : d.unit = fetch.unit[e.kind]})
    BY FS_Subset
  <2>2. IsFiniteSet({d.usd : d \in {d \in e.dims : d.unit = fetch.unit[e.kind]}})
    <3> DEFINE T == {d \in e.dims : d.unit = fetch.unit[e.kind]}
               f == [d \in T |-> d.usd]
    <3>1. f \in Surjection(T, {d.usd : d \in T})
      BY DEF Surjection
    <3> QED  BY <2>1, <3>1, FS_Surjection
  <2> QED  BY <2>2, FS_Subset DEF Offers
<1>3. Rate(fetch, e) = IF Offers(fetch, e) = {} THEN None ELSE Max(Offers(fetch, e))
  BY DEF Rate, usd_rate, Offers
<1>4. Offers(fetch, e) # {} => Top(Max(Offers(fetch, e)), Offers(fetch, e))
  BY <1>1, <1>2, MaxMin
<1>5. Offers(fetch, e) # {} => Max(Offers(fetch, e)) # None
  BY <1>1, <1>4, NoneAssumption DEF Top
<1> QED  BY <1>1, <1>3, <1>4, <1>5

\* The places of a listing.
LEMMA PlacesOfListing ==
  ASSUME NEW l, l \in Seq(Range(l)), NEW places, places \subseteq DOMAIN l
  PROVE  places \subseteq Nat /\ IsFiniteSet(places)
<1>1. DOMAIN l = 1 .. Len(l) /\ Len(l) \in Nat
  OBVIOUS
<1>2. IsFiniteSet(1 .. Len(l)) /\ places \in SUBSET (1 .. Len(l))
  BY <1>1, FS_Interval
<1>3. IsFiniteSet(places)
  BY <1>2, FS_Subset
<1> QED  BY <1>1, <1>2, <1>3

OffersAt(fetch, l, places) == UNION {Offers(fetch, l[i]) : i \in places}

\* Whether the last, the first or the highest is kept: it is the highest there
\* was, given that where the first or the last is kept they are the same.
LEMMA KeptIsTop ==
  ASSUME NEW fetch, NEW l, Listing(l), NEW places, places \subseteq Wanted(fetch, l), places # {},
         fetch.keep \in {"last", "first", "max"},
         fetch.keep = "max" \/ \A i, j \in places : Rate(fetch, l[i]) = Rate(fetch, l[j])
  PROVE  /\ OffersAt(fetch, l, places) \subseteq Nat
         /\ Top(Kept(fetch, l, places), OffersAt(fetch, l, places))
<1>1. places \subseteq DOMAIN l /\ \A i \in places : l[i] \in Range(l) /\ Rate(fetch, l[i]) # None
  BY DEF Wanted, Range
<1>2. ASSUME NEW i \in places
      PROVE  Offers(fetch, l[i]) \subseteq Nat /\ Top(Rate(fetch, l[i]), Offers(fetch, l[i]))
  BY <1>1, <1>2, RateIsTop DEF Listing
<1>3. OffersAt(fetch, l, places) \subseteq Nat
  BY <1>2 DEF OffersAt
<1>4. places \subseteq Nat /\ IsFiniteSet(places)
  BY <1>1, PlacesOfListing DEF Listing
<1> DEFINE Rates == {Rate(fetch, l[i]) : i \in places}
<1>5. PICK n \in places : Top(Rate(fetch, l[n]), Rates) /\ Kept(fetch, l, places) = Rate(fetch, l[n])
  <2>1. CASE fetch.keep = "max"
    <3>1. IsFiniteSet(Rates) /\ Rates \subseteq Int /\ Rates # {}
      <4>1. [i \in places |-> Rate(fetch, l[i])] \in Surjection(places, Rates)
        BY DEF Surjection
      <4>2. IsFiniteSet(Rates)
        BY <1>4, <4>1, FS_Surjection
      <4> QED  BY <1>2, <4>2 DEF Top
    <3>2. Top(Max(Rates), Rates)
      <4> HIDE DEF Rates
      <4> QED  BY <3>1, MaxMin
    <3>3. Kept(fetch, l, places) = Max(Rates)
      BY <2>1 DEF Kept
    <3>4. PICK n \in places : Max(Rates) = Rate(fetch, l[n])
      BY <3>2 DEF Top
    <3> QED  BY <3>2, <3>3, <3>4
  <2>2. CASE fetch.keep \in {"last", "first"}
    <3>1. \A i, j \in places : Rate(fetch, l[i]) = Rate(fetch, l[j])
      BY <2>2
    <3>2. Max(places) \in places /\ Min(places) \in places
      <4>1. IsFiniteSet(places) /\ places \subseteq Int /\ places # {}
        BY <1>4
      <4> QED  BY <4>1, MaxMin DEF Top, Bottom
    <3>3. PICK n \in places : Kept(fetch, l, places) = Rate(fetch, l[n])
      BY <2>2, <3>2 DEF Kept
    <3>4. Top(Rate(fetch, l[n]), Rates)
      BY <1>2, <3>1 DEF Top
    <3> QED  BY <3>3, <3>4
  <2> QED  BY <2>1, <2>2
<1>6. Rate(fetch, l[n]) \in OffersAt(fetch, l, places)
  BY <1>2 DEF Top, OffersAt
<1>7. ASSUME NEW p \in OffersAt(fetch, l, places) PROVE Rate(fetch, l[n]) >= p
  <2>1. PICK i \in places : p \in Offers(fetch, l[i])
    BY <1>7 DEF OffersAt
  <2>2. /\ Rate(fetch, l[i]) >= p /\ Rate(fetch, l[n]) >= Rate(fetch, l[i])
        /\ p \in Nat /\ Rate(fetch, l[i]) \in Nat /\ Rate(fetch, l[n]) \in Nat
    BY <1>2, <1>5, <2>1 DEF Top
  <2> QED  BY <2>2
<1> QED  BY <1>3, <1>5, <1>6, <1>7 DEF Top

(***************************************************************************)
(* What a listing has for a region and a variant, and what the table that  *)
(* is made of it has there: the highest of that, if it has anything.       *)
(***************************************************************************)
PlacesFor(fetch, l, region, variant) ==
  {i \in Wanted(fetch, l) : /\ fetch.global \/ l[i].region = region
                            /\ fetch.as[l[i].kind] = variant}
PricesFor(fetch, l, region, variant) == OffersAt(fetch, l, PlacesFor(fetch, l, region, variant))

Keeps(fetch, l) == fetch.keep = "max" \/ (fetch.keep \in {"last", "first"} /\ OneRate(fetch, l))

LEMMA TopKept ==
  ASSUME NEW fetch, NEW l, Listing(l), Keeps(fetch, l), NEW region, NEW variant,
         NEW places, places = PlacesFor(fetch, l, region, variant)
  PROVE  /\ PricesFor(fetch, l, region, variant) \subseteq Nat
         /\ places = {} => PricesFor(fetch, l, region, variant) = {}
         /\ places # {} => Top(Kept(fetch, l, places), PricesFor(fetch, l, region, variant))
<1>1. places \subseteq Wanted(fetch, l)
  BY DEF PlacesFor
<1>2. CASE places = {}
  BY <1>2 DEF PricesFor, OffersAt
<1>3. CASE places # {}
  <2>1. fetch.keep = "max" \/ \A i, j \in places : Rate(fetch, l[i]) = Rate(fetch, l[j])
    BY DEF Keeps, OneRate, PlacesFor
  <2>2. fetch.keep \in {"last", "first", "max"}
    BY DEF Keeps
  <2> QED  BY <1>1, <1>3, <2>1, <2>2, KeptIsTop DEF PricesFor
<1> QED  BY <1>2, <1>3

LEMMA FetchedFlat ==
  ASSUME NEW fetch, NEW l, Listing(l), Keeps(fetch, l), NEW region,
         fetch.global = FALSE, fetch.flat = TRUE, \A k \in DOMAIN fetch.as : fetch.as[k] = None
  PROVE  /\ region \in DOMAIN Fetched(fetch, l) =>
              Top(Fetched(fetch, l)[region], PricesFor(fetch, l, region, None))
         /\ region \notin DOMAIN Fetched(fetch, l) => PricesFor(fetch, l, region, None) = {}
         /\ PricesFor(fetch, l, region, None) \subseteq Nat
<1> DEFINE data == Fetched(fetch, l)
           places == {i \in Wanted(fetch, l) : l[i].region = region}
<1>1. places = PlacesFor(fetch, l, region, None)
  BY DEF PlacesFor, Wanted
<1>2. region \in DOMAIN data <=> places # {}
  BY DEF Fetched
<1>3. region \in DOMAIN data => data[region] = Kept(fetch, l, places)
  BY DEF Fetched, Variants
<1> HIDE DEF data, places
<1> QED  BY <1>1, <1>2, <1>3, TopKept DEF data

LEMMA FetchedByVariant ==
  ASSUME NEW fetch, NEW l, Listing(l), Keeps(fetch, l), NEW region, NEW variant,
         fetch.global = FALSE, fetch.flat = FALSE
  PROVE  LET data == Fetched(fetch, l)
             prices == PricesFor(fetch, l, region, variant) IN
         /\ region \in DOMAIN data =>
              IF variant \in DOMAIN data[region] THEN Top(data[region][variant], prices)
              ELSE prices = {}
         /\ region \notin DOMAIN data => prices = {}
         /\ prices \subseteq Nat
<1> DEFINE data == Fetched(fetch, l)
           here == {i \in Wanted(fetch, l) : l[i].region = region}
           places == {i \in here : fetch.as[l[i].kind] = variant}
<1>1. places = PlacesFor(fetch, l, region, variant)
  BY DEF PlacesFor
<1>2. /\ region \in DOMAIN data <=> here # {}
      /\ region \in DOMAIN data => data[region] = Variants(fetch, l, here)
  BY DEF Fetched
<1>3. /\ variant \in DOMAIN Variants(fetch, l, here) <=> places # {}
      /\ places # {} => Variants(fetch, l, here)[variant] = Kept(fetch, l, places)
  BY DEF Variants
<1>4. here = {} => places = {}
  OBVIOUS
<1> HIDE DEF data, here, places
<1> QED  BY <1>1, <1>2, <1>3, <1>4, TopKept DEF data

LEMMA FetchedGlobal ==
  ASSUME NEW fetch, NEW l, Listing(l), Keeps(fetch, l), NEW region, NEW variant,
         fetch.global = TRUE, fetch.flat = FALSE
  PROVE  LET data == Fetched(fetch, l)
             prices == PricesFor(fetch, l, region, variant) IN
         /\ variant \in DOMAIN data => Top(data[variant], prices)
         /\ variant \notin DOMAIN data => prices = {}
         /\ prices \subseteq Nat
<1> DEFINE places == {i \in Wanted(fetch, l) : fetch.as[l[i].kind] = variant}
<1>1. places = PlacesFor(fetch, l, region, variant)
  BY DEF PlacesFor
<1>2. /\ variant \in DOMAIN Fetched(fetch, l) <=> places # {}
      /\ places # {} => Fetched(fetch, l)[variant] = Kept(fetch, l, places)
  BY DEF Fetched, Variants
<1> HIDE DEF places
<1> QED  BY <1>1, <1>2, TopKept

(***************************************************************************)
(* What apply answers of such a table.                                     *)
(***************************************************************************)
Monthly(prices, spec) == {monthly(p, spec) : p \in prices}

LEMMA ExactAnswer ==
  ASSUME NEW x, NEW prices, prices \subseteq Nat, Top(x, prices), NEW spec
  PROVE  ExactIfPublished(Answer(monthly(x, spec), FALSE), Monthly(prices, spec))
<1>1. Max(Monthly(prices, spec)) = monthly(x, spec)
  BY MonthlyTop DEF Monthly
<1>2. Monthly(prices, spec) # {}
  BY DEF Monthly, Top
<1> QED  BY <1>1, <1>2 DEF ExactIfPublished, Answer

LEMMA GuessedAnswer ==
  ASSUME NEW cost, NEW spec
  PROVE  ExactIfPublished(Answer(cost, TRUE), Monthly({}, spec))
BY DEF ExactIfPublished, Answer, Monthly

LEMMA FlatAnswer ==
  ASSUME NEW table, NEW spec, spec.global = FALSE, spec.variants = FALSE,
         spec.section \in DOMAIN table, NEW region, NEW variant, NEW prices, prices \subseteq Nat,
         region \in DOMAIN table[spec.section] => Top(table[spec.section][region], prices),
         region \notin DOMAIN table[spec.section] => prices = {}
  PROVE  ExactIfPublished(apply(table, spec, region, variant), Monthly(prices, spec))
<1> DEFINE data == table[spec.section]
           found == lookup(table, spec.section, region)
<1>1. /\ apply(table, spec, region, variant) =
           IF found.missing THEN Unpriced ELSE Answer(monthly(found.value, spec), found.approximate)
      /\ Section(table, spec.section) = data
  BY DEF apply, Section
<1>2. CASE region \in DOMAIN data
  <2>1. apply(table, spec, region, variant) = Answer(monthly(data[region], spec), FALSE)
    BY <1>1, <1>2 DEF lookup
  <2> QED  BY <1>2, <2>1, ExactAnswer
<1>3. CASE region \notin DOMAIN data
  <2>1. \E cost : apply(table, spec, region, variant) = Answer(cost, TRUE)
    BY <1>1, <1>3 DEF lookup, Unpriced
  <2> QED  BY <1>3, <2>1, GuessedAnswer
<1> QED  BY <1>2, <1>3

LEMMA VariantAnswer ==
  ASSUME NEW table, NEW spec, spec.global = FALSE, spec.variants = TRUE,
         spec.section \in DOMAIN table, NEW region, NEW variant, NEW prices, prices \subseteq Nat,
         region \in DOMAIN table[spec.section] =>
           IF variant \in DOMAIN table[spec.section][region]
           THEN Top(table[spec.section][region][variant], prices) ELSE prices = {},
         region \notin DOMAIN table[spec.section] => prices = {}
  PROVE  ExactIfPublished(apply(table, spec, region, variant), Monthly(prices, spec))
<1> DEFINE data == table[spec.section]
           found == lookup(table, spec.section, region)
<1>1. /\ apply(table, spec, region, variant) = OfVariant(found, spec, variant)
      /\ Section(table, spec.section) = data
  BY DEF apply, Section
<1>2. CASE region \in DOMAIN data /\ variant \in DOMAIN data[region]
  <2>1. apply(table, spec, region, variant) = Answer(monthly(data[region][variant], spec), FALSE)
    BY <1>1, <1>2 DEF lookup, OfVariant
  <2> QED  BY <1>2, <2>1, ExactAnswer
<1>3. CASE ~ (region \in DOMAIN data /\ variant \in DOMAIN data[region])
  <2>1. \E cost : apply(table, spec, region, variant) = Answer(cost, TRUE)
    BY <1>1, <1>3 DEF lookup, OfVariant, Unpriced
  <2>2. prices = {}
    BY <1>3
  <2> QED  BY <2>1, <2>2, GuessedAnswer
<1> QED  BY <1>2, <1>3

LEMMA GlobalAnswer ==
  ASSUME NEW table, NEW spec, spec.global = TRUE, spec.section \in DOMAIN table,
         NEW region, NEW variant, NEW prices, prices \subseteq Nat,
         variant \in DOMAIN table[spec.section] => Top(table[spec.section][variant], prices),
         variant \notin DOMAIN table[spec.section] => prices = {}
  PROVE  ExactIfPublished(apply(table, spec, region, variant), Monthly(prices, spec))
<1> DEFINE data == table[spec.section]
<1>1. apply(table, spec, region, variant) =
        IF variant \in DOMAIN data THEN Answer(monthly(data[variant], spec), FALSE) ELSE Unpriced
  BY DEF apply, Section
<1>2. CASE variant \in DOMAIN data
  BY <1>1, <1>2, ExactAnswer
<1>3. CASE variant \notin DOMAIN data
  BY <1>1, <1>3, GuessedAnswer DEF Unpriced
<1> QED  BY <1>2, <1>3

LEMMA DeploymentAnswer ==
  ASSUME NEW table, NEW data, "rds_storage_gb_month" \in DOMAIN table,
         data = table["rds_storage_gb_month"], NEW region, NEW asked \in DeploymentTypes,
         NEW prices, prices \subseteq Nat,
         region \in DOMAIN data => IF asked \in DOMAIN data[region]
                                   THEN Top(data[region][asked], prices) ELSE prices = {},
         region \notin DOMAIN data => prices = {}
  PROVE  ExactIfPublished(resolve(table, "rds_storage", [region |-> region, variant |-> asked]), prices)
<1> DEFINE found == lookup(table, "rds_storage_gb_month", region)
           answer == resolve(table, "rds_storage", [region |-> region, variant |-> asked])
<1>1. PICK d \in {"single", "multi"}, t \in {"gp2", "gp3", "unknown"} : asked = <<d, t>>
  BY DEF DeploymentTypes
<1>2. answer = rds_storage(table, region, asked[2], asked[1] = "multi")
  BY DEF resolve, rds_storage, RESOLVERS
<1>3. Section(table, "rds_storage_gb_month") = data
  BY DEF Section
<1>4. (IF asked[1] = "multi" THEN "multi" ELSE "single") = asked[1] /\ asked = <<asked[1], asked[2]>>
  BY <1>1
<1> HIDE DEF answer
<1>5. CASE region \in DOMAIN data /\ asked \in DOMAIN data[region]
  <2>1. found.missing = FALSE /\ found.approximate = FALSE /\ found.value = data[region]
    BY <1>3, <1>5 DEF lookup
  <2>2. answer = Answer(data[region][asked], FALSE)
    <3> HIDE DEF found
    <3>1. answer.cost = data[region][asked] /\ answer.approximate = FALSE
      BY <1>2, <1>4, <1>5, <2>1 DEF rds_storage, Answer, found
    <3> QED  BY <1>2, <1>4, <1>5, <2>1, <3>1 DEF rds_storage, Answer, found
  <2>3. Max(prices) = data[region][asked] /\ prices # {}
    BY <1>5, TopIsMax DEF Top
  <2>4. ExactIfPublished(Answer(data[region][asked], FALSE), prices)
    BY <2>3 DEF ExactIfPublished, Answer
  <2> QED  BY <2>2, <2>4 DEF answer
<1>6. CASE ~ (region \in DOMAIN data /\ asked \in DOMAIN data[region])
  <2>1. answer.approximate = TRUE
    <3>1. CASE region \notin DOMAIN data
      <4>1. found.approximate = TRUE
        BY <1>3, <3>1 DEF lookup
      <4> QED  BY <1>2, <4>1 DEF rds_storage, Unpriced, Answer
    <3>2. CASE region \in DOMAIN data /\ asked \notin DOMAIN data[region]
      <4>1. found.value = data[region]
        BY <1>3, <3>2 DEF lookup
      <4> QED  BY <1>2, <1>4, <3>2, <4>1 DEF rds_storage, Unpriced, Answer
    <3> QED  BY <1>6, <3>1, <3>2
  <2>2. prices = {}
    BY <1>6
  <2> QED  BY <2>1, <2>2 DEF ExactIfPublished, answer
<1> QED  BY <1>5, <1>6

(***************************************************************************)
(* The rates and the fetchers there are, by the shape of their sections.   *)
(***************************************************************************)
FlatSections ==
  {"snapshot_gb_month", "log_storage_gb_month", "kms_key_month", "secret_month", "efs_gb_month",
   "ecr_gb_month", "s3_gb_month", "rds_snapshot_gb_month", "nat_gateway_hour",
   "vpc_endpoint_hour", "classic_lb_hour"}
VariantSections == {"ebs_gb_month", "load_balancer_hour", "rds_storage_gb_month"}
GroupSections ==
  {"lightsail_disk_gb_month", "lightsail_static_ip_hour", "lightsail_load_balancer_hour",
   "lightsail_snapshot_gb_month"}
ApiSections == {"lightsail_bundle_month", "lightsail_container_power_month"}

LEMMA RateShapes ==
  ASSUME NEW key \in DOMAIN RATES, NEW spec, spec = RATES[key]
  PROVE  /\ key \notin RESOLVERS
         /\ \/ /\ spec.section \in FlatSections \cup GroupSections
               /\ spec.global = FALSE /\ spec.variants = FALSE
            \/ /\ spec.section \in {"ebs_gb_month", "load_balancer_hour"} \cup ApiSections
               /\ spec.global = FALSE /\ spec.variants = TRUE
            \/ /\ spec.section \in {"route53_health_check_month", "route53_hosted_zone_month"}
               /\ spec.global = TRUE /\ spec.variants = TRUE
<1> USE DEF RateSpec, Flat, Hourly, ByVariant, GlobalRate, RESOLVERS, FlatSections, GroupSections,
            ApiSections
<1>1. CASE key \in DOMAIN CoreRates
  <2>1. spec = CoreRates[key]
    BY <1>1 DEF RATES, Over
  <2> QED  BY <1>1, <2>1 DEF CoreRates
<1>2. CASE key \in DOMAIN GlobalRates /\ key \notin DOMAIN CoreRates
  <2>1. spec = GlobalRates[key]
    BY <1>2 DEF RATES, Over
  <2> QED  BY <1>2, <2>1 DEF GlobalRates
<1>3. CASE key \in DOMAIN LightsailRates /\ key \notin DOMAIN CoreRates \cup DOMAIN GlobalRates
  <2>1. spec = LightsailRates[key]
    BY <1>3 DEF RATES, Over
  <2> QED  BY <1>3, <2>1 DEF LightsailRates
<1> QED  BY <1>1, <1>2, <1>3 DEF RATES, Over

IsFlat(fetch) ==
  /\ fetch.global = FALSE /\ fetch.flat = TRUE
  /\ \A k \in DOMAIN fetch.as : fetch.as[k] = None

LEMMA FlatRateShape ==
  \A kinds, unit, keep : IsFlat(FlatRate(kinds, unit, keep)) /\ FlatRate(kinds, unit, keep).keep = keep
BY DEF IsFlat, FlatRate, Fetch

LEMMA FetchShapes ==
  /\ \A s \in FlatSections \cup GroupSections : IsFlat(FETCHES[s])
  /\ \A s \in VariantSections : FETCHES[s].global = FALSE /\ FETCHES[s].flat = FALSE
  /\ FETCHES["route53_health_check_month"].global = TRUE
  /\ FETCHES["route53_health_check_month"].flat = FALSE
  /\ \A s \in GroupSections : s \in DOMAIN FETCHES /\ FETCHES[s].keep = "max"
  /\ \A s \in FlatSections \cup VariantSections \cup {"route53_health_check_month"} :
       /\ s \in DOMAIN CoreFetchers /\ s \in DOMAIN FETCHES /\ FETCHES[s] = CoreFetchers[s]
       /\ FETCHES[s].keep \in {"last", "first", "max"}
<1> USE DEF FlatSections, VariantSections, GroupSections
<1>1. \A s \in FlatSections \cup VariantSections \cup {"route53_health_check_month"} :
        s \in DOMAIN CoreFetchers /\ s \in DOMAIN FETCHES /\ FETCHES[s] = CoreFetchers[s]
  BY DEF FETCHES, Over, CoreFetchers
<1>2. \A s \in GroupSections : s \in DOMAIN FETCHES /\ FETCHES[s] = LIGHTSAIL_GROUPS[s]
  BY DEF FETCHES, Over, CoreFetchers, LIGHTSAIL_GROUPS
<1>3. ASSUME NEW s \in GroupSections
      PROVE  IsFlat(LIGHTSAIL_GROUPS[s]) /\ LIGHTSAIL_GROUPS[s].keep = "max"
  <2>1. PICK kinds, unit : LIGHTSAIL_GROUPS[s] = FlatRate(kinds, unit, "max")
    <3>1. CASE s = "lightsail_disk_gb_month"
      BY <3>1 DEF LIGHTSAIL_GROUPS
    <3>2. CASE s = "lightsail_static_ip_hour"
      BY <3>2 DEF LIGHTSAIL_GROUPS
    <3>3. CASE s = "lightsail_load_balancer_hour"
      BY <3>3 DEF LIGHTSAIL_GROUPS
    <3>4. CASE s = "lightsail_snapshot_gb_month"
      BY <3>4 DEF LIGHTSAIL_GROUPS
    <3> QED  BY <1>3, <3>1, <3>2, <3>3, <3>4
  <2> QED  BY <2>1, FlatRateShape
<1>4. ASSUME NEW s \in FlatSections
      PROVE  IsFlat(CoreFetchers[s]) /\ CoreFetchers[s].keep \in {"last", "max"}
  <2>1. CASE s \in {"nat_gateway_hour", "vpc_endpoint_hour", "classic_lb_hour", "kms_key_month",
                    "secret_month"}
    BY <2>1, FlatRateShape
       DEF CoreFetchers, fetch_nat_gateway_hours, fetch_vpc_endpoint_hours,
           fetch_classic_lb_hours, fetch_kms_keys, fetch_secrets
  <2>2. CASE s \in {"snapshot_gb_month", "log_storage_gb_month", "efs_gb_month", "ecr_gb_month",
                    "s3_gb_month", "rds_snapshot_gb_month"}
    BY <2>2, FlatRateShape
       DEF CoreFetchers, fetch_snapshots, fetch_log_storage, fetch_efs_storage,
           fetch_ecr_storage, fetch_s3_storage, fetch_rds_snapshot_storage
  <2> QED  BY <1>4, <2>1, <2>2
<1>5. \A s \in VariantSections :
        /\ CoreFetchers[s].global = FALSE /\ CoreFetchers[s].flat = FALSE
        /\ CoreFetchers[s].keep \in {"last", "first", "max"}
  BY DEF CoreFetchers, fetch_ebs_volumes, fetch_load_balancer_hours, fetch_rds_storage, Fetch
<1>6. /\ CoreFetchers["route53_health_check_month"].global = TRUE
      /\ CoreFetchers["route53_health_check_month"].flat = FALSE
      /\ CoreFetchers["route53_health_check_month"].keep = "last"
  BY DEF CoreFetchers, fetch_route53_health_checks, Fetch
<1> HIDE DEF FlatSections, VariantSections, GroupSections
<1> QED  BY <1>1, <1>2, <1>3, <1>4, <1>5, <1>6

(***************************************************************************)
(* What Published says AWS published is what the listing has.              *)
(***************************************************************************)
Meant(fetch, l, region, variant) ==
  {e \in Range(l) : /\ e.region = region \/ fetch.global
                    /\ e.kind \in DOMAIN fetch.as
                    /\ fetch.as[e.kind] \in {None, variant}}

LEMMA MeantPrices ==
  ASSUME NEW fetch, NEW l, Listing(l), NEW region, region # None, NEW variant,
         \A k \in DOMAIN fetch.as : fetch.as[k] \in {None, variant} <=> fetch.as[k] = variant
  PROVE  (UNION {{d.usd : d \in {d \in e.dims : d.unit = fetch.unit[e.kind]}} :
                   e \in Meant(fetch, l, region, variant)}) \ {None, 0}
         = PricesFor(fetch, l, region, variant)
<1> DEFINE places == PlacesFor(fetch, l, region, variant)
           Prices(e) == {d.usd : d \in {d \in e.dims : d.unit = fetch.unit[e.kind]}}
           meant == Meant(fetch, l, region, variant)
           stated == (UNION {Prices(e) : e \in meant}) \ {None, 0}
<1>1. ASSUME NEW i \in places PROVE l[i] \in meant
  BY DEF PlacesFor, Wanted, Meant, Range
<1>2. ASSUME NEW e \in meant, Offers(fetch, e) # {}
      PROVE  \E i \in places : e = l[i]
  <2>1. PICK i \in DOMAIN l : e = l[i]
    BY DEF Meant, Range
  <2>2. Rate(fetch, e) # None
    BY <1>2, RateIsTop DEF Meant, Listing
  <2>3. i \in Wanted(fetch, l)
    BY <2>1, <2>2 DEF Wanted, Meant
  <2> QED  BY <2>1, <2>3 DEF PlacesFor, Meant
<1>3. ASSUME NEW p PROVE p \in stated <=> \E e \in meant : p \in Offers(fetch, e)
  <2>1. \A e : Offers(fetch, e) = Prices(e) \ {None, 0}
    BY DEF Offers
  <2>2. p \in stated <=> p \notin {None, 0} /\ \E e \in meant : p \in Prices(e)
    <3> HIDE DEF Prices, meant
    <3> QED  OBVIOUS
  <2> HIDE DEF Prices, stated
  <2>3. \A e : p \in Offers(fetch, e) <=> p \notin {None, 0} /\ p \in Prices(e)
    BY <2>1
  <2> QED  BY <2>2, <2>3
<1>4. ASSUME NEW p PROVE p \in PricesFor(fetch, l, region, variant)
                           <=> \E i \in places : p \in Offers(fetch, l[i])
  BY DEF PricesFor, OffersAt
<1>5. ASSUME NEW p
      PROVE  p \in stated <=> p \in PricesFor(fetch, l, region, variant)
  <2> HIDE DEF stated, places, meant
  <2>1. ASSUME NEW e \in meant, p \in Offers(fetch, e) PROVE \E i \in places : p \in Offers(fetch, l[i])
    BY <1>2, <2>1
  <2> QED  BY <1>1, <1>3, <1>4, <2>1
<1> QED  BY <1>5

(***************************************************************************)
(* A table, and the answers it was made of.                                *)
(***************************************************************************)
Made(table, asked) ==
  /\ \E registry \in Scenes[scene].registries \cup {<<>>} : DOMAIN asked \subseteq Range(registry)
  /\ \A f \in DOMAIN asked : /\ asked[f] \in Scenes[scene].answers[f]
                             /\ DOMAIN Produced(f, asked[f]) \subseteq Declared(f)
                             /\ DOMAIN Produced(f, asked[f]) \subseteq DOMAIN table
  /\ \A s \in DOMAIN table :
       \E f \in DOMAIN asked : s \in DOMAIN Produced(f, asked[f]) /\ table[s] = Produced(f, asked[f])[s]

LEMMA DeclaredApart ==
  ASSUME scene \in DOMAIN Scenes, NEW registry \in Scenes[scene].registries \cup {<<>>},
         NEW f \in Range(registry), NEW g \in Range(registry), NEW s, s \in Declared(f), s \in Declared(g)
  PROVE  f = g
<1>1. registry # <<>>
  BY DEF Range
<1> QED  BY <1>1, SceneAssumption

\* A section of the table is what its owner made of its answer.
LEMMA OwnerMade ==
  ASSUME scene \in DOMAIN Scenes, NEW table, NEW asked, Made(table, asked), NEW s \in DOMAIN table,
         NEW owner, owner = OwnerOf(asked, s)
  PROVE  /\ owner \in DOMAIN asked /\ s \in Declared(owner)
         /\ table[s] = Produced(owner, asked[owner])[s]
         /\ asked[owner] \in Scenes[scene].answers[owner]
         /\ \E registry \in Scenes[scene].registries : owner \in Range(registry)
<1>1. PICK f \in DOMAIN asked : s \in DOMAIN Produced(f, asked[f]) /\ table[s] = Produced(f, asked[f])[s]
  BY DEF Made
<1>2. s \in Declared(f)
  BY <1>1 DEF Made
<1>3. owner \in DOMAIN asked /\ s \in Declared(owner)
  BY <1>2 DEF OwnerOf
<1>4. PICK registry \in Scenes[scene].registries \cup {<<>>} : DOMAIN asked \subseteq Range(registry)
  BY DEF Made
<1>5. owner = f
  BY <1>2, <1>3, <1>4, DeclaredApart
<1>6. registry # <<>>
  BY <1>3, <1>4 DEF Range
<1> QED  BY <1>1, <1>3, <1>4, <1>5, <1>6 DEF Made

\* The fetcher a section is of.
LEMMA OwnerIs ==
  ASSUME OneRateListed, scene \in DOMAIN Scenes, NEW registry \in Scenes[scene].registries,
         NEW f \in Range(registry), NEW s \in Declared(f)
  PROVE  /\ s \in GroupSections => f = "lightsail rates"
         /\ s \in ApiSections => f = "lightsail bundles"
         /\ s \in DOMAIN CoreFetchers \cup {"route53_hosted_zone_month"} => f = s
<1>1. DOMAIN LIGHTSAIL_GROUPS = GroupSections
  BY DEF LIGHTSAIL_GROUPS, GroupSections
<1>2. Declared("lightsail bundles") = ApiSections
  BY DEF Declared, ApiSections
<1>3. f \notin GroupSections \cup ApiSections
  BY <1>1, <1>2 DEF OneRateListed
<1>4. CASE f = "lightsail rates"
  <2>1. s \in GroupSections
    BY <1>1, <1>4 DEF Declared
  <2> QED  BY <1>4, <2>1 DEF GroupSections, ApiSections, CoreFetchers
<1>5. CASE f = "lightsail bundles"
  <2>1. s \in ApiSections
    BY <1>2, <1>5
  <2> QED  BY <1>5, <2>1 DEF GroupSections, ApiSections, CoreFetchers
<1>6. CASE f \notin {"lightsail rates", "lightsail bundles"}
  <2>1. s = f
    BY <1>6 DEF Declared
  <2> QED  BY <1>3, <2>1
<1> QED  BY <1>4, <1>5, <1>6

\* What a shipped fetcher makes, section by section.
LEMMA ProducedIs ==
  ASSUME NEW l
  PROVE  /\ \A f \in DOMAIN CoreFetchers : Produced(f, l) = One(f, Fetched(FETCHES[f], l))
         /\ Produced("lightsail rates", l) = [s \in GroupSections |-> Fetched(FETCHES[s], l)]
         /\ Produced("lightsail bundles", l) = fetch_lightsail_bundles(l)
         /\ Produced("route53_hosted_zone_month", l)
              = One("route53_hosted_zone_month", fetch_route53_hosted_zones(l))
         /\ Produced("public_ipv4_hour", l) = One("public_ipv4_hour", public_ipv4_hour)
<1>1. DOMAIN LIGHTSAIL_GROUPS = GroupSections
  BY DEF LIGHTSAIL_GROUPS, GroupSections
<1>2. \A f \in DOMAIN CoreFetchers :
        f \notin {"lightsail rates", "lightsail bundles", "route53_hosted_zone_month", "public_ipv4_hour"}
  BY DEF CoreFetchers
<1>3. {"lightsail rates", "lightsail bundles", "route53_hosted_zone_month", "public_ipv4_hour"}
        \cap DOMAIN CoreFetchers = {}
  BY <1>2
<1>4. ASSUME NEW f \in DOMAIN CoreFetchers PROVE Produced(f, l) = One(f, Fetched(FETCHES[f], l))
  BY <1>2 DEF Produced
<1>5. Produced("lightsail rates", l) = [s \in GroupSections |-> Fetched(FETCHES[s], l)]
  BY <1>1, <1>3 DEF Produced
<1>6. Produced("lightsail bundles", l) = fetch_lightsail_bundles(l)
  BY <1>3 DEF Produced
<1>7. Produced("route53_hosted_zone_month", l)
        = One("route53_hosted_zone_month", fetch_route53_hosted_zones(l))
  BY <1>3 DEF Produced
<1>8. Produced("public_ipv4_hour", l) = One("public_ipv4_hour", public_ipv4_hour)
  BY <1>3 DEF Produced
<1> QED  BY <1>4, <1>5, <1>6, <1>7, <1>8

\* A shipped fetcher makes all that it declares.
LEMMA ShippedMakesAll ==
  ASSUME NEW f \in Shipped, NEW l
  PROVE  DOMAIN Produced(f, l) = Declared(f)
<1>1. \A g, data : DOMAIN One(g, data) = {g}
  BY DEF One
<1>2. \A g \in DOMAIN CoreFetchers \cup {"route53_hosted_zone_month", "public_ipv4_hour"} :
        Declared(g) = {g}
  BY DEF CoreFetchers, Declared
<1>3. CASE f \in DOMAIN CoreFetchers \cup {"route53_hosted_zone_month", "public_ipv4_hour"}
  <2>1. PICK data : Produced(f, l) = One(f, data)
    <3>1. CASE f \in DOMAIN CoreFetchers
      BY <3>1, ProducedIs
    <3>2. CASE f = "route53_hosted_zone_month" \/ f = "public_ipv4_hour"
      BY <3>2, ProducedIs
    <3> QED  BY <1>3, <3>1, <3>2
  <2> QED  BY <1>1, <1>2, <1>3, <2>1
<1>4. CASE f = "lightsail rates"
  <2>1. DOMAIN LIGHTSAIL_GROUPS = GroupSections
    BY DEF LIGHTSAIL_GROUPS, GroupSections
  <2>2. DOMAIN Produced(f, l) = GroupSections
    BY <1>4, ProducedIs
  <2> QED  BY <1>4, <2>1, <2>2 DEF Declared
<1>5. CASE f = "lightsail bundles"
  <2>1. Produced(f, l) = fetch_lightsail_bundles(l)
    BY <1>5, ProducedIs
  <2> QED  BY <1>5, <2>1 DEF Declared, fetch_lightsail_bundles
<1> QED  BY <1>3, <1>4, <1>5 DEF Shipped

(***************************************************************************)
(* The table on disk, section by section: what it has for a region and a   *)
(* variant is the highest of what was published for them.                  *)
(***************************************************************************)
FetchedSections ==
  FlatSections \cup VariantSections \cup GroupSections \cup {"route53_health_check_month"}

LEMMA FetchedSection ==
  ASSUME OneRateListed, scene \in DOMAIN Scenes, Made(stored, origin),
         NEW s \in FetchedSections, s \in DOMAIN stored,
         NEW region \in RegionsAsked, NEW variant, IsFlat(FETCHES[s]) => variant = None
  PROVE  \E l : /\ Listing(l) /\ Keeps(FETCHES[s], l)
                /\ stored[s] = Fetched(FETCHES[s], l)
                /\ Published(s, region, variant) = PricesFor(FETCHES[s], l, region, variant)
<1> DEFINE owner == OwnerOf(origin, s)
           l == origin[owner]
           fetch == FETCHES[s]
<1>1. /\ owner \in DOMAIN origin /\ s \in Declared(owner)
      /\ stored[s] = Produced(owner, l)[s]
      /\ l \in Scenes[scene].answers[owner]
      /\ \E registry \in Scenes[scene].registries : owner \in Range(registry)
  BY OwnerMade
<1> HIDE DEF owner
<1>2. PICK registry \in Scenes[scene].registries : owner \in Range(registry)
  BY <1>1
<1>3. /\ s \in GroupSections => owner = "lightsail rates"
      /\ s \notin GroupSections => owner = s /\ s \in DOMAIN CoreFetchers /\ fetch = CoreFetchers[s]
  <2>1. s \notin GroupSections => s \in DOMAIN CoreFetchers /\ fetch = CoreFetchers[s]
    BY FetchShapes DEF FetchedSections
  <2>2. s \in DOMAIN CoreFetchers \cup {"route53_hosted_zone_month"} => owner = s
    BY <1>1, <1>2, OwnerIs
  <2>3. s \in GroupSections => owner = "lightsail rates"
    BY <1>1, <1>2, OwnerIs
  <2> QED  BY <2>1, <2>2, <2>3
<1>4. owner \in Shipped /\ owner # "lightsail bundles"
  BY <1>3 DEF Shipped, CoreFetchers
<1>5. Listing(l)
  BY <1>1, <1>2, <1>4, SceneAssumption
<1>6. Keeps(fetch, l)
  <2>1. CASE s \in GroupSections
    BY <2>1, FetchShapes DEF Keeps
  <2>2. CASE s \notin GroupSections
    <3>1. CoreFetchers[s].keep = "max" \/ OneRate(CoreFetchers[s], l)
      <4>1. s \notin {"lightsail bundles", "route53_hosted_zone_month"}
        BY <1>3, <2>2 DEF CoreFetchers
      <4> QED  BY <1>1, <1>2, <1>3, <2>2, <4>1 DEF OneRateListed
    <3>2. fetch.keep \in {"last", "first", "max"}
      BY <2>2, FetchShapes DEF FetchedSections
    <3> QED  BY <1>3, <2>2, <3>1, <3>2 DEF Keeps
  <2> QED  BY <2>1, <2>2
<1>7. stored[s] = Fetched(fetch, l)
  <2>1. CASE s \in GroupSections
    BY <1>1, <1>3, <2>1, ProducedIs
  <2>2. CASE s \notin GroupSections
    <3>1. owner = s /\ s \in DOMAIN CoreFetchers
      BY <1>3, <2>2
    <3>2. Produced(s, l) = One(s, Fetched(FETCHES[s], l))
      BY <3>1, ProducedIs
    <3>3. One(s, Fetched(FETCHES[s], l))[s] = Fetched(FETCHES[s], l)
      BY DEF One
    <3> HIDE DEF l
    <3> QED  BY <1>1, <3>1, <3>2, <3>3
  <2> QED  BY <2>1, <2>2
<1>8. \A e : (e.region = region \/ (owner \in DOMAIN FETCHES /\ FETCHES[owner].global))
               <=> (e.region = region \/ fetch.global)
  <2>1. CASE s \in GroupSections
    <3>1. owner \notin DOMAIN FETCHES
      BY <1>3, <2>1 DEF FETCHES, Over, CoreFetchers, LIGHTSAIL_GROUPS
    <3>2. fetch.global = FALSE
      BY <2>1, FetchShapes DEF IsFlat
    <3> QED  BY <3>1, <3>2
  <2>2. CASE s \notin GroupSections
    <3>1. owner = s /\ s \in DOMAIN FETCHES
      BY <1>3, <2>2, FetchShapes DEF FetchedSections
    <3> QED  BY <3>1
  <2> QED  BY <2>1, <2>2
<1>9. Published(s, region, variant) = PricesFor(fetch, l, region, variant)
  <2>1. Published(s, region, variant) =
          (UNION {{d.usd : d \in {d \in e.dims : d.unit = fetch.unit[e.kind]}} :
                    e \in Meant(fetch, l, region, variant)}) \ {None, 0}
    <3>1. owner # "lightsail bundles" /\ s # "route53_hosted_zone_month"
      BY <1>4 DEF FetchedSections, FlatSections, VariantSections, GroupSections
    <3>2. Published(s, region, variant) =
            LET meant == {e \in Range(l) :
                            /\ e.region = region \/ (owner \in DOMAIN FETCHES /\ FETCHES[owner].global)
                            /\ e.kind \in DOMAIN fetch.as /\ fetch.as[e.kind] \in {None, variant}}
            IN (UNION {{d.usd : d \in {d \in e.dims : d.unit = fetch.unit[e.kind]}} :
                         e \in meant}) \ {None, 0}
      BY <3>1, Zenon DEF Published, owner
    <3>3. Meant(fetch, l, region, variant) =
            {e \in Range(l) :
               /\ e.region = region \/ (owner \in DOMAIN FETCHES /\ FETCHES[owner].global)
               /\ e.kind \in DOMAIN fetch.as /\ fetch.as[e.kind] \in {None, variant}}
      BY <1>8 DEF Meant
    <3> QED  BY <3>2, <3>3
  <2>2. region # None
    BY NameAssumption
  <2>3. \A k \in DOMAIN fetch.as : fetch.as[k] \in {None, variant} <=> fetch.as[k] = variant
    <3>1. CASE IsFlat(fetch)
      BY <3>1 DEF IsFlat
    <3>2. CASE ~ IsFlat(fetch)
      <4>1. s \in DOMAIN FETCHES /\ ~ fetch.flat
        <5>1. s \in VariantSections \cup {"route53_health_check_month"}
          BY <3>2, FetchShapes DEF FetchedSections
        <5> QED  BY <5>1, FetchShapes
      <4> QED  BY <4>1, NameAssumption
    <3> QED  BY <3>1, <3>2
  <2> HIDE DEF fetch, l
  <2>4. (UNION {{d.usd : d \in {d \in e.dims : d.unit = fetch.unit[e.kind]}} :
                  e \in Meant(fetch, l, region, variant)}) \ {None, 0}
        = PricesFor(fetch, l, region, variant)
    BY <1>5, <2>2, <2>3, MeantPrices
  <2> QED  BY <2>1, <2>4 DEF fetch, l
<1> QED  BY <1>5, <1>6, <1>7, <1>9

\* The same of the tiers of a hosted zone,
LEMMA ZoneSection ==
  ASSUME OneRateListed, scene \in DOMAIN Scenes, Made(stored, origin),
         NEW s, s = "route53_hosted_zone_month", s \in DOMAIN stored, NEW region, NEW variant
  PROVE  /\ Published(s, region, variant) \subseteq Nat
         /\ variant \in DOMAIN stored[s] => Top(stored[s][variant], Published(s, region, variant))
         /\ variant \notin DOMAIN stored[s] => Published(s, region, variant) = {}
<1> DEFINE owner == OwnerOf(origin, s)
           l == origin[owner]
           data == fetch_route53_hosted_zones(l)
           prices == {d.usd : d \in {d \in Tiers(l) : Tier(d) = variant}}
<1>1. /\ owner \in DOMAIN origin /\ s \in Declared(owner)
      /\ stored[s] = Produced(owner, l)[s]
      /\ l \in Scenes[scene].answers[owner]
      /\ \E registry \in Scenes[scene].registries : owner \in Range(registry)
  BY OwnerMade
<1> HIDE DEF owner
<1>2. PICK registry \in Scenes[scene].registries : owner \in Range(registry)
  BY <1>1
<1>3. owner = s
  BY <1>1, <1>2, OwnerIs
<1>4. Listing(l) /\ OneTierPrice(l)
  <2>1. s \in Shipped /\ s # "lightsail bundles" /\ s \notin DOMAIN CoreFetchers
    BY DEF Shipped, CoreFetchers
  <2>2. Listing(l)
    BY <1>1, <1>2, <1>3, <2>1, SceneAssumption
  <2>3. OneTierPrice(l)
    BY <1>1, <1>2, <1>3, <2>1 DEF OneRateListed
  <2> QED  BY <2>2, <2>3
<1>5. stored[s] = data
  <2>1. One(s, data)[s] = data
    BY DEF One
  <2>2. Produced(s, l) = One(s, data)
    BY ProducedIs
  <2> HIDE DEF l, data
  <2> QED  BY <1>1, <1>3, <2>1, <2>2
<1> HIDE DEF l
<1>6. \A d \in Tiers(l) : d.usd \in Nat
  BY <1>4 DEF Tiers, Listing
<1>7. Published(s, region, variant) = prices
  <2> DEFINE zones == {e \in Range(l) : e.kind = "HostedZone"}
             dims == UNION {e.dims : e \in zones}
  <2>1. Published(s, region, variant) =
          {d.usd : d \in {e \in dims : Tier(e) = variant}} \ {None}
    <3>1. owner # "lightsail bundles" /\ s = "route53_hosted_zone_month"
      BY <1>3
    <3> QED  BY <3>1, Zenon DEF Published, owner, l
  <2>2. Tiers(l) = {d \in dims : d.usd # None}
    BY DEF Tiers
  <2> HIDE DEF dims
  <2>3. {d.usd : d \in {e \in dims : Tier(e) = variant}} \ {None} = prices
    BY <2>2
  <2> QED  BY <2>1, <2>3
<1>8. CASE variant \in DOMAIN data
  <2>1. PICK d \in Tiers(l) : Tier(d) = variant
    BY <1>8 DEF fetch_route53_hosted_zones
  <2>2. PICK c \in Tiers(l) : Tier(c) = variant /\ data[variant] = c.usd
    <3>1. data[variant] = (CHOOSE e \in Tiers(l) : Tier(e) = variant).usd
      BY <1>8 DEF fetch_route53_hosted_zones
    <3> QED  BY <2>1, <3>1
  <2>3. \A p \in prices : p = c.usd
    BY <1>4, <2>2 DEF OneTierPrice
  <2>4. c.usd \in prices
    BY <2>2
  <2>5. Top(c.usd, prices)
    BY <1>6, <2>2, <2>3, <2>4 DEF Top
  <2> QED  BY <1>5, <1>6, <1>7, <1>8, <2>2, <2>5
<1>9. CASE variant \notin DOMAIN data
  <2>1. prices = {}
    BY <1>9 DEF fetch_route53_hosted_zones
  <2> QED  BY <1>5, <1>7, <1>9, <2>1
<1> QED  BY <1>8, <1>9

\* and of Lightsail's bundles and container powers.
LEMMA ApiSection ==
  ASSUME OneRateListed, scene \in DOMAIN Scenes, Made(stored, origin),
         NEW s \in ApiSections, s \in DOMAIN stored, NEW region, NEW variant,
         NEW data, data = stored[s]
  PROVE  /\ Published(s, region, variant) \subseteq Nat
         /\ region \in DOMAIN data =>
              IF variant \in DOMAIN data[region]
              THEN Top(data[region][variant], Published(s, region, variant))
              ELSE Published(s, region, variant) = {}
         /\ region \notin DOMAIN data => Published(s, region, variant) = {}
<1> DEFINE owner == OwnerOf(origin, s)
           l == origin[owner]
           kind == IF s = "lightsail_bundle_month" THEN "bundle" ELSE "power"
           of == {i \in DOMAIN l : l[i].kind = kind}
           here == {i \in of : l[i].region = region}
           places == {i \in here : l[i].name = variant}
           prices == {l[i].usd : i \in places}
<1>1. /\ owner \in DOMAIN origin /\ s \in Declared(owner)
      /\ stored[s] = Produced(owner, l)[s]
      /\ l \in Scenes[scene].answers[owner]
      /\ \E registry \in Scenes[scene].registries : owner \in Range(registry)
  BY OwnerMade
<1> HIDE DEF owner
<1>2. PICK registry \in Scenes[scene].registries : owner \in Range(registry)
  BY <1>1
<1>3. owner = "lightsail bundles"
  BY <1>1, <1>2, OwnerIs
<1>4. ApiAnswer(l) /\ OneApiPrice(l)
  <2>1. owner \in Shipped
    BY <1>3 DEF Shipped
  <2>2. ApiAnswer(l)
    BY <1>1, <1>2, <1>3, <2>1, SceneAssumption
  <2>3. OneApiPrice(l)
    <3>1. owner \notin DOMAIN CoreFetchers \cup {"route53_hosted_zone_month"}
      BY <1>3 DEF CoreFetchers
    <3> QED  BY <1>1, <1>2, <1>3, <3>1 DEF OneRateListed
  <2> QED  BY <2>2, <2>3
<1> DEFINE ByName(where) ==
             [v \in {l[i].name : i \in where} |-> l[Max({i \in where : l[i].name = v})].usd]
<1>5. data = [r \in {l[i].region : i \in of} |-> ByName({i \in of : l[i].region = r})]
  <2>1. stored[s] = fetch_lightsail_bundles(l)[s]
    BY <1>1, <1>3, ProducedIs
  <2>2. s = "lightsail_bundle_month" \/ s = "lightsail_container_power_month"
    BY DEF ApiSections
  <2> HIDE DEF l
  <2>3. CASE s = "lightsail_bundle_month"
    BY <2>1, <2>3 DEF fetch_lightsail_bundles
  <2>4. CASE s = "lightsail_container_power_month"
    BY <2>1, <2>4 DEF fetch_lightsail_bundles
  <2> QED  BY <2>2, <2>3, <2>4
<1>6. Published(s, region, variant) = prices
  <2>1. owner \notin DOMAIN FETCHES
    BY <1>3 DEF FETCHES, Over, CoreFetchers, LIGHTSAIL_GROUPS
  <2>2. s # "route53_hosted_zone_month"
    BY DEF ApiSections
  <2>3. Published(s, region, variant) =
          {e.usd : e \in {e \in Range(l) : /\ e.region = region
                                                \/ (owner \in DOMAIN FETCHES /\ FETCHES[owner].global)
                                           /\ e.kind = kind /\ e.name = variant}}
    BY <1>3, <2>2, Zenon DEF Published, owner
  <2> HIDE DEF l, kind
  <2> QED  BY <2>1, <2>3 DEF Range
<1> HIDE DEF l, kind
<1>7. \A i \in DOMAIN l : l[i] \in Range(l) /\ l[i].usd \in Nat
  BY <1>4 DEF ApiAnswer, Range
<1>8. prices \subseteq Nat
  BY <1>7
<1>9. /\ region \in DOMAIN data <=> here # {}
      /\ region \in DOMAIN data => data[region] = ByName(here)
  BY <1>5
<1>10. /\ variant \in DOMAIN ByName(here) <=> places # {}
       /\ variant \in DOMAIN ByName(here) => ByName(here)[variant] = l[Max(places)].usd
  OBVIOUS
<1>11. ASSUME places # {} PROVE Top(l[Max(places)].usd, prices)
  <2>1. places \subseteq Nat /\ IsFiniteSet(places)
    BY <1>4, PlacesOfListing DEF ApiAnswer
  <2>2. Max(places) \in places
    <3> HIDE DEF places
    <3>1. places \subseteq Int /\ places # {} /\ IsFiniteSet(places)
      BY <1>11, <2>1
    <3> QED  BY <3>1, MaxMin DEF Top
  <2>3. \A i \in places : l[i].usd = l[Max(places)].usd
    BY <1>4, <1>7, <2>2 DEF OneApiPrice
  <2>4. l[Max(places)].usd \in prices
    BY <2>2
  <2>5. \A p \in prices : p = l[Max(places)].usd
    <3> HIDE DEF places
    <3> QED  BY <2>3
  <2>6. l[Max(places)].usd \in Nat
    BY <1>7, <2>2
  <2> HIDE DEF prices
  <2> QED  BY <2>4, <2>5, <2>6 DEF Top
<1>12. places = {} => prices = {}
  OBVIOUS
<1>13. here = {} => places = {}
  OBVIOUS
<1> HIDE DEF ByName, here, places, prices
<1> QED  BY <1>6, <1>8, <1>9, <1>10, <1>11, <1>12, <1>13

(***************************************************************************)
(* So whatever a check asks of the table is answered honestly.             *)
(***************************************************************************)
LEMMA HonestRate ==
  ASSUME OneRateListed, scene \in DOMAIN Scenes, Made(stored, origin),
         NEW key \in DOMAIN RATES, NEW spec, spec = RATES[key], spec.section \in DOMAIN stored,
         NEW region \in RegionsAsked, NEW variant
  PROVE  ExactIfPublished(resolve(stored, key, [region |-> region, variant |-> variant]),
           Monthly(Published(spec.section, region, IF spec.variants THEN variant ELSE None), spec))
<1> DEFINE s == spec.section
           asks == IF spec.variants THEN variant ELSE None
           prices == Published(s, region, asks)
<1>0. s \in DOMAIN stored
  OBVIOUS
<1>1. resolve(stored, key, [region |-> region, variant |-> variant]) = apply(stored, spec, region, variant)
  <2>1. key \notin RESOLVERS
    BY RateShapes
  <2> QED  BY <2>1 DEF resolve, RESOLVERS
<1>2. CASE s \in FlatSections \cup GroupSections
  <2>1. spec.global = FALSE /\ spec.variants = FALSE
    BY <1>2, RateShapes
       DEF FlatSections, GroupSections, ApiSections
  <2>2. IsFlat(FETCHES[s]) /\ s \in FetchedSections
    BY <1>2, FetchShapes DEF FetchedSections
  <2>3. PICK l : /\ Listing(l) /\ Keeps(FETCHES[s], l) /\ stored[s] = Fetched(FETCHES[s], l)
                 /\ prices = PricesFor(FETCHES[s], l, region, None)
    BY <2>1, <2>2, FetchedSection
  <2> DEFINE fetch == FETCHES[s]
  <2>4. /\ region \in DOMAIN stored[s] => Top(stored[s][region], prices)
        /\ region \notin DOMAIN stored[s] => prices = {}
        /\ prices \subseteq Nat
    <3>1. /\ fetch.global = FALSE /\ fetch.flat = TRUE
          /\ \A k \in DOMAIN fetch.as : fetch.as[k] = None
      BY <2>2 DEF IsFlat
    <3> HIDE DEF fetch
    <3>2. /\ region \in DOMAIN Fetched(fetch, l) =>
               Top(Fetched(fetch, l)[region], PricesFor(fetch, l, region, None))
          /\ region \notin DOMAIN Fetched(fetch, l) => PricesFor(fetch, l, region, None) = {}
          /\ PricesFor(fetch, l, region, None) \subseteq Nat
      BY <2>3, <3>1, FetchedFlat DEF fetch
    <3> QED  BY <2>3, <3>2 DEF fetch
  <2> HIDE DEF prices
  <2>5. ExactIfPublished(apply(stored, spec, region, variant), Monthly(prices, spec))
    BY <2>1, <2>4, FlatAnswer
  <2> QED  BY <1>1, <2>5 DEF prices
<1>3. CASE s \in {"ebs_gb_month", "load_balancer_hour"} \cup ApiSections
  <2>1. spec.global = FALSE /\ spec.variants = TRUE
    BY <1>3, RateShapes
       DEF FlatSections, GroupSections, ApiSections
  <2>2. /\ region \in DOMAIN stored[s] =>
             IF variant \in DOMAIN stored[s][region]
             THEN Top(stored[s][region][variant], prices) ELSE prices = {}
        /\ region \notin DOMAIN stored[s] => prices = {}
        /\ prices \subseteq Nat
    <3>1. CASE s \in ApiSections
      <4>1. prices = Published(s, region, variant)
        BY <2>1
      <4> HIDE DEF prices, s
      <4>2. \A data : data = stored[s] =>
              /\ Published(s, region, variant) \subseteq Nat
              /\ region \in DOMAIN data =>
                   IF variant \in DOMAIN data[region]
                   THEN Top(data[region][variant], Published(s, region, variant))
                   ELSE Published(s, region, variant) = {}
              /\ region \notin DOMAIN data => Published(s, region, variant) = {}
        BY <1>0, <3>1, ApiSection
      <4> QED  BY <4>1, <4>2
    <3>2. CASE s \in {"ebs_gb_month", "load_balancer_hour"}
      <4>1. s \in VariantSections
        BY <3>2 DEF VariantSections
      <4>2. FETCHES[s].global = FALSE /\ FETCHES[s].flat = FALSE
        BY <4>1, FetchShapes
      <4>3. s \in FetchedSections /\ ~ IsFlat(FETCHES[s])
        BY <4>1, <4>2 DEF FetchedSections, IsFlat
      <4>4. PICK l : /\ Listing(l) /\ Keeps(FETCHES[s], l) /\ stored[s] = Fetched(FETCHES[s], l)
                     /\ prices = PricesFor(FETCHES[s], l, region, variant)
        BY <2>1, <4>3, FetchedSection
      <4> HIDE DEF prices, s
      <4> QED  BY <4>2, <4>4, FetchedByVariant
    <3> QED  BY <1>3, <3>1, <3>2
  <2> HIDE DEF prices
  <2>3. ExactIfPublished(apply(stored, spec, region, variant), Monthly(prices, spec))
    BY <2>1, <2>2, VariantAnswer
  <2> QED  BY <1>1, <2>3 DEF prices
<1>4. CASE s \in {"route53_health_check_month", "route53_hosted_zone_month"}
  <2>1. spec.global = TRUE /\ spec.variants = TRUE
    BY <1>4, RateShapes
       DEF FlatSections, GroupSections, ApiSections
  <2>2. /\ variant \in DOMAIN stored[s] => Top(stored[s][variant], prices)
        /\ variant \notin DOMAIN stored[s] => prices = {}
        /\ prices \subseteq Nat
    <3>1. CASE s = "route53_hosted_zone_month"
      <4>1. prices = Published(s, region, variant)
        BY <2>1
      <4> HIDE DEF prices, s
      <4> QED  BY <1>0, <3>1, <4>1, ZoneSection
    <3>2. CASE s = "route53_health_check_month"
      <4>1. FETCHES[s].global = TRUE /\ FETCHES[s].flat = FALSE
        BY <3>2, FetchShapes
      <4>2. s \in FetchedSections /\ ~ IsFlat(FETCHES[s])
        BY <3>2, <4>1 DEF FetchedSections, IsFlat
      <4>3. PICK l : /\ Listing(l) /\ Keeps(FETCHES[s], l) /\ stored[s] = Fetched(FETCHES[s], l)
                     /\ prices = PricesFor(FETCHES[s], l, region, variant)
        BY <2>1, <4>2, FetchedSection
      <4> HIDE DEF prices, s
      <4> QED  BY <4>1, <4>3, FetchedGlobal
    <3> QED  BY <1>4, <3>1, <3>2
  <2> HIDE DEF prices
  <2>3. ExactIfPublished(apply(stored, spec, region, variant), Monthly(prices, spec))
    BY <2>1, <2>2, GlobalAnswer
  <2> QED  BY <1>1, <2>3 DEF prices
<1> QED  BY <1>2, <1>3, <1>4, RateShapes

LEMMA HonestDeployment ==
  ASSUME OneRateListed, scene \in DOMAIN Scenes, Made(stored, origin),
         "rds_storage_gb_month" \in DOMAIN stored,
         NEW region \in RegionsAsked, NEW variant \in DeploymentTypes
  PROVE  ExactIfPublished(resolve(stored, "rds_storage", [region |-> region, variant |-> variant]),
                          Published("rds_storage_gb_month", region, variant))
<1>1. PICK s : s = "rds_storage_gb_month"
  OBVIOUS
<1> DEFINE prices == Published(s, region, variant)
<1>2. s \in VariantSections
  BY <1>1 DEF VariantSections
<1>3. FETCHES[s].global = FALSE /\ FETCHES[s].flat = FALSE
  BY <1>2, FetchShapes
<1>4. s \in FetchedSections /\ ~ IsFlat(FETCHES[s])
  BY <1>2, <1>3 DEF FetchedSections, IsFlat
<1>5. PICK l : /\ Listing(l) /\ Keeps(FETCHES[s], l) /\ stored[s] = Fetched(FETCHES[s], l)
               /\ prices = PricesFor(FETCHES[s], l, region, variant)
  BY <1>1, <1>4, FetchedSection
<1>6. /\ region \in DOMAIN stored[s] =>
           IF variant \in DOMAIN stored[s][region]
           THEN Top(stored[s][region][variant], prices) ELSE prices = {}
      /\ region \notin DOMAIN stored[s] => prices = {}
      /\ prices \subseteq Nat
  BY <1>3, <1>5, FetchedByVariant
<1> HIDE DEF prices
<1>7. ExactIfPublished(resolve(stored, "rds_storage", [region |-> region, variant |-> variant]), prices)
  BY <1>1, <1>6, DeploymentAnswer
<1> QED  BY <1>1, <1>7 DEF prices

LEMMA HonestWhenMade ==
  ASSUME OneRateListed, scene \in DOMAIN Scenes, file = "whole" => Made(stored, origin)
  PROVE  HonestPrices
<1> SUFFICES ASSUME file = "whole"
             PROVE  /\ \A key \in {k \in DOMAIN RATES : RATES[k].section \in DOMAIN stored},
                          region \in RegionsAsked, variant \in AnyVariant :
                         LET spec == RATES[key]
                         IN ExactIfPublished(
                              resolve(stored, key, [region |-> region, variant |-> variant]),
                              {monthly(p, spec) :
                                 p \in Published(spec.section, region,
                                                 IF spec.variants THEN variant ELSE None)})
                    /\ \A region \in RegionsAsked, variant \in DeploymentTypes :
                         "rds_storage_gb_month" \in DOMAIN stored =>
                           ExactIfPublished(
                             resolve(stored, "rds_storage", [region |-> region, variant |-> variant]),
                             Published("rds_storage_gb_month", region, variant))
  BY DEF HonestPrices
<1>1. ASSUME NEW key \in DOMAIN RATES, RATES[key].section \in DOMAIN stored,
             NEW region \in RegionsAsked, NEW variant
      PROVE  ExactIfPublished(resolve(stored, key, [region |-> region, variant |-> variant]),
               {monthly(p, RATES[key]) :
                  p \in Published(RATES[key].section, region,
                                  IF RATES[key].variants THEN variant ELSE None)})
  <2>1. ExactIfPublished(resolve(stored, key, [region |-> region, variant |-> variant]),
          Monthly(Published(RATES[key].section, region, IF RATES[key].variants THEN variant ELSE None),
                  RATES[key]))
    BY <1>1, HonestRate
  <2> QED  BY <2>1, Zenon DEF Monthly
<1>2. \A region \in RegionsAsked, variant \in DeploymentTypes :
        "rds_storage_gb_month" \in DOMAIN stored =>
          ExactIfPublished(resolve(stored, "rds_storage", [region |-> region, variant |-> variant]),
                           Published("rds_storage_gb_month", region, variant))
  BY HonestDeployment
<1> QED  BY <1>1, <1>2, Zenon

(***************************************************************************)
(* The inductive invariant: what the refresh has made so far, and what is  *)
(* on disk, was made of the answers that were given, each by a fetcher of  *)
(* one registry; and no fetcher that is still to be run has been run.      *)
(***************************************************************************)
OneRegistry ==
  \E registry \in Scenes[scene].registries \cup {<<>>} :
    Range(queue) \cup DOMAIN listed \subseteq Range(registry)

MadeInv ==
  /\ scene \in DOMAIN Scenes /\ OneRegistry
  /\ queue \in Seq(Range(queue)) /\ IsInjective(queue)
  /\ Range(queue) \cap DOMAIN listed = {}
  /\ Made(payload, listed)
  /\ file = "whole" => Made(stored, origin)
  /\ pc \in {"idle", "fetching", "checking", "writing"} /\ faults \in 0 .. MaxFaults
  /\ file \in {"absent", "torn", "whole"} /\ (pc = "writing" => file = "torn")

\* What is left of a queue when its first has been taken.
LEMMA TakenOff ==
  ASSUME NEW q, q \in Seq(Range(q)), IsInjective(q), q # <<>>
  PROVE  /\ Head(q) \in Range(q) /\ Range(Tail(q)) = Range(q) \ {Head(q)}
         /\ Tail(q) \in Seq(Range(Tail(q))) /\ IsInjective(Tail(q))
<1> DEFINE t == Tail(q)
<1>1. Len(q) \in Nat \ {0} /\ DOMAIN q = 1 .. Len(q) /\ Head(q) = q[1]
  OBVIOUS
<1>2. /\ Len(t) = Len(q) - 1 /\ DOMAIN t = 1 .. Len(q) - 1
      /\ \A i \in 1 .. Len(q) - 1 : t[i] = q[i + 1]
  BY <1>1, HeadTailProperties
<1>3. Head(q) \in Range(q)
  BY <1>1 DEF Range
<1>4. Range(t) = Range(q) \ {Head(q)}
  <2>1. ASSUME NEW i \in DOMAIN t PROVE t[i] \in Range(q) \ {Head(q)}
    BY <1>1, <1>2 DEF Range, IsInjective
  <2>2. ASSUME NEW x \in Range(q), x # Head(q) PROVE \E i \in DOMAIN t : t[i] = x
    <3>1. PICK j \in DOMAIN q : q[j] = x
      BY DEF Range
    <3>2. j # 1
      BY <1>1, <2>2, <3>1
    <3>3. j - 1 \in DOMAIN t /\ t[j - 1] = x
      BY <1>1, <1>2, <3>1, <3>2
    <3> QED  BY <3>3
  <2> HIDE DEF t
  <2> QED  BY <2>1, <2>2 DEF Range
<1>5. t \in Seq(Range(t))
  <2>1. t \in Seq(Range(q)) /\ Len(t) \in Nat /\ DOMAIN t = 1 .. Len(t)
    BY <1>1, HeadTailProperties
  <2>2. \A i \in 1 .. Len(t) : t[i] \in Range(t)
    BY <2>1 DEF Range
  <2> HIDE DEF t
  <2> QED  BY <2>1, <2>2, IsASeq
<1>6. IsInjective(t)
  BY <1>1, <1>2 DEF IsInjective
<1> QED  BY <1>3, <1>4, <1>5, <1>6

LEMMA OverOne ==
  ASSUME NEW f, NEW x, NEW g, f \notin DOMAIN g
  PROVE  /\ DOMAIN Over(One(f, x), g) = DOMAIN g \cup {f}
         /\ Over(One(f, x), g)[f] = x
         /\ \A y \in DOMAIN g : Over(One(f, x), g)[y] = g[y]
BY DEF Over, One

\* A fetcher's sections are written over a table.
LEMMA FetchKeepsMade ==
  ASSUME scene \in DOMAIN Scenes, NEW registry \in Scenes[scene].registries \cup {<<>>},
         NEW f \in Range(registry), NEW table, NEW asked, Made(table, asked),
         DOMAIN asked \subseteq Range(registry), f \notin DOMAIN asked,
         NEW listing \in Scenes[scene].answers[f], Unexpected(f, listing) = {}
  PROVE  Made(Over(Produced(f, listing), table), Over(One(f, listing), asked))
<1> DEFINE made == Produced(f, listing)
           after == Over(made, table)
           told == Over(One(f, listing), asked)
<1>1. /\ DOMAIN told = DOMAIN asked \cup {f} /\ told[f] = listing
      /\ \A g \in DOMAIN asked : told[g] = asked[g]
  BY DEF Over, One
<1> HIDE DEF told
<1>2. /\ DOMAIN after = DOMAIN made \cup DOMAIN table
      /\ \A s \in DOMAIN made : after[s] = made[s]
      /\ \A s \in DOMAIN table \ DOMAIN made : after[s] = table[s]
  BY DEF Over
<1> HIDE DEF after
<1>3. DOMAIN told \subseteq Range(registry)
  BY <1>1
<1>4. ASSUME NEW g \in DOMAIN told
      PROVE  /\ told[g] \in Scenes[scene].answers[g]
             /\ DOMAIN Produced(g, told[g]) \subseteq Declared(g)
             /\ DOMAIN Produced(g, told[g]) \subseteq DOMAIN after
  <2>1. CASE g = f
    BY <1>1, <1>2, <2>1 DEF Unexpected
  <2>2. CASE g \in DOMAIN asked
    BY <1>1, <1>2, <2>2 DEF Made
  <2> QED  BY <1>1, <2>1, <2>2
<1>5. ASSUME NEW s \in DOMAIN after
      PROVE  \E g \in DOMAIN told : s \in DOMAIN Produced(g, told[g]) /\ after[s] = Produced(g, told[g])[s]
  <2>1. CASE s \in DOMAIN made
    BY <1>1, <1>2, <2>1
  <2>2. CASE s \in DOMAIN table \ DOMAIN made
    <3>1. PICK g \in DOMAIN asked : s \in DOMAIN Produced(g, asked[g]) /\ table[s] = Produced(g, asked[g])[s]
      BY <2>2 DEF Made
    <3> QED  BY <1>1, <1>2, <2>2, <3>1
  <2> QED  BY <1>2, <2>1, <2>2
<1> QED  BY <1>3, <1>4, <1>5 DEF Made, after, told

LEMMA NothingMade == Made(Empty, Empty)
BY DEF Made, Empty

\* A table that was made of answers has what TypeOK wants of it.
LEMMA MadeByFetchers ==
  ASSUME NEW table, NEW asked, Made(table, asked)
  PROVE  MadeBy(table, DOMAIN asked)
<1>1. DOMAIN table \subseteq Sections(DOMAIN asked)
  BY DEF Made, Sections
<1>2. ASSUME NEW f \in DOMAIN asked \cap Shipped PROVE Declared(f) \subseteq DOMAIN table
  BY ShippedMakesAll DEF Made
<1> QED  BY <1>1, <1>2 DEF MadeBy, Sections

LEMMA MadeInvImplies == MadeInv => TypeOK
BY MadeByFetchers DEF MadeInv, TypeOK, OneRegistry

LEMMA MadeInit == Init => MadeInv
<1> SUFFICES ASSUME Init PROVE MadeInv
  OBVIOUS
<1> USE DEF Init
<1>1. Range(queue) = {} /\ DOMAIN listed = {}
  BY DEF Range, Empty
<1>2. OneRegistry
  BY <1>1 DEF OneRegistry
<1>3. queue \in Seq(Range(queue)) /\ IsInjective(queue)
  BY DEF IsInjective
<1> QED  BY <1>1, <1>2, <1>3, NothingMade, BoundAssumption DEF MadeInv

LEMMA MadeNext == MadeInv /\ [Next]_vars => MadeInv'
<1> SUFFICES ASSUME MadeInv, [Next]_vars PROVE MadeInv'
  OBVIOUS
<1>0. /\ scene \in DOMAIN Scenes /\ OneRegistry
      /\ queue \in Seq(Range(queue)) /\ IsInjective(queue)
      /\ Range(queue) \cap DOMAIN listed = {}
      /\ Made(payload, listed) /\ (file = "whole" => Made(stored, origin))
      /\ pc \in {"idle", "fetching", "checking", "writing"} /\ faults \in 0 .. MaxFaults
      /\ file \in {"absent", "torn", "whole"} /\ (pc = "writing" => file = "torn")
  BY DEF MadeInv
<1>1. ASSUME NEW fetchers \in Scenes[scene].registries, Begins(fetchers) PROVE MadeInv'
  <2> USE <1>1 DEF Begins
  <2>1. fetchers \in Seq(Range(fetchers)) /\ IsInjective(fetchers)
    BY <1>0, SceneAssumption
  <2>2. DOMAIN listed' = {} /\ queue' = fetchers /\ scene' = scene
    BY DEF Empty
  <2>3. OneRegistry'
    BY <2>2 DEF OneRegistry
  <2>4. Made(payload, listed)'
    <3>1. Made(Empty, Empty)'
      BY <2>2, NothingMade DEF Made
    <3> QED  BY <3>1 DEF Made
  <2>5. (file = "whole" => Made(stored, origin))'
    BY <1>0, <2>2 DEF Made
  <2> QED  BY <1>0, <2>1, <2>2, <2>3, <2>4, <2>5 DEF MadeInv
<1>2. ASSUME NEW answer \in Answers, Fetches(answer) PROVE MadeInv'
  <2> USE <1>2 DEF Fetches
  <2> DEFINE f == Head(queue)
  <2>1. /\ f \in Range(queue) /\ Range(Tail(queue)) = Range(queue) \ {f}
        /\ Tail(queue) \in Seq(Range(Tail(queue))) /\ IsInjective(Tail(queue))
    BY <1>0, TakenOff
  <2>2. answer \in Scenes[scene].answers[f]
    BY DEF Answers
  <2>3. f \notin DOMAIN listed
    BY <1>0, <2>1
  <2>4. DOMAIN listed' = DOMAIN listed \cup {f}
    BY <2>3, OverOne
  <2>5. PICK registry \in Scenes[scene].registries \cup {<<>>} :
          Range(queue) \cup DOMAIN listed \subseteq Range(registry)
    BY <1>0 DEF OneRegistry
  <2>6. scene' = scene /\ queue' = Tail(queue)
    OBVIOUS
  <2>7. OneRegistry'
    BY <2>1, <2>4, <2>5, <2>6 DEF OneRegistry
  <2>8. Made(payload', listed')
    BY <1>0, <2>1, <2>2, <2>3, <2>5, FetchKeepsMade
  <2>9. Made(payload, listed)' /\ (file = "whole" => Made(stored, origin))'
    BY <1>0, <2>6, <2>8 DEF Made
  <2>10. Range(queue)' \cap DOMAIN listed' = {}
    BY <1>0, <2>1, <2>4, <2>6
  <2> QED  BY <1>0, <2>1, <2>6, <2>7, <2>9, <2>10 DEF MadeInv
<1>3. ASSUME UNCHANGED <<scene, queue, payload, stored, listed, origin>>,
             (file' = "whole" => file = "whole")
      PROVE  OneRegistry' /\ Made(payload, listed)' /\ (file = "whole" => Made(stored, origin))'
  BY <1>0, <1>3 DEF OneRegistry, Made
<1>4. CASE Writes
  <2> USE <1>4 DEF Writes
  <2>1. UNCHANGED <<scene, queue, payload, listed>> /\ stored' = payload /\ origin' = listed
    OBVIOUS
  <2>2. OneRegistry' /\ Made(payload, listed)' /\ Made(stored, origin)'
    BY <1>0, <2>1 DEF OneRegistry, Made
  <2> QED  BY <1>0, <2>1, <2>2 DEF MadeInv
<1>5. CASE Opens
  <2> USE <1>5 DEF Opens
  <2>1. OneRegistry' /\ Made(payload, listed)'
    BY <1>0 DEF OneRegistry, Made
  <2> QED  BY <1>0, <2>1 DEF MadeInv
<1>6. CASE AllFetched \/ Refuses \/ FetchRaises \/ Killed \/ UNCHANGED vars
           \/ \E answer \in Answers : RefusesUndeclared(answer)
  <2>1. /\ UNCHANGED <<scene, queue, payload, stored, listed, origin, file>>
        /\ pc' \in {"idle", "fetching", "checking", "writing"} /\ (pc' = "writing" => pc = "writing")
        /\ faults' \in 0 .. MaxFaults
    BY <1>0, <1>6, BoundAssumption
       DEF AllFetched, Refuses, FetchRaises, Killed, RefusesUndeclared, vars
  <2> QED  BY <1>0, <1>3, <2>1 DEF MadeInv
<1> QED  BY <1>1, <1>2, <1>4, <1>5, <1>6 DEF Next, Refresh, Starts

\* refresh (pricing/refresh.py): however fetchers and packs come and go, what a
\* refresh has made holds all the sections that the shipped fetchers it was made
\* by declare, and none that nobody declared; and so does the table it writes.
THEOREM TypeCorrect == Spec => []TypeOK
BY MadeInvImplies, MadeInit, MadeNext, PTL DEF Spec

\* pricing/refresh.py and pricing/__init__.py together: given that where the
\* listing has several rates and the first or the last is kept they are the same,
\* and that Lightsail's sections are nobody else's, a price is given as exact if
\* and only if AWS published one for that region and variant, and then it is the
\* highest that was published.
THEOREM PricesAreHonest == OneRateListed => (Spec => []HonestPrices)
<1> SUFFICES ASSUME OneRateListed PROVE Spec => []HonestPrices
  OBVIOUS
<1>1. MadeInv => HonestPrices
  BY HonestWhenMade DEF MadeInv
<1> QED  BY <1>1, MadeInit, MadeNext, PTL DEF Spec
===============================================================================
