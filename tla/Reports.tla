------------------------------- MODULE Reports --------------------------------
(***************************************************************************)
(* What is made of a ScanResult: the terminal summary, the JSON report,    *)
(* the HTML report, the cleanup script, and the figures the tools of the   *)
(* MCP server compute from a JSON report. All of them are computed again   *)
(* from the findings, each by its own code.                                *)
(*                                                                         *)
(* A finding of a scan costs a number of mills (a tenth of a cent), the    *)
(* fraction its unrounded estimate has; a row of a JSON report costs       *)
(* cents. Findings are in the order of the scan: the costliest first.      *)
(***************************************************************************)
EXTENDS Integers, SequencesExt

Columns == {"check", "region", "resource_type"}

\* round(x, 2): the nearest cent, the even one of two.
Cents(mills) ==
  LET cents == mills \div 10
      rest == mills % 10
  IN IF rest > 5 \/ (rest = 5 /\ cents % 2 = 1) THEN cents + 1 ELSE cents

\* The rows that are chosen, in their order, and those that pass a test.
Pick(rows, chosen) ==
  LET upto[n \in 0 .. Len(rows)] ==
        IF n = 0 THEN <<>>
        ELSE IF chosen[n] THEN Append(upto[n - 1], rows[n]) ELSE upto[n - 1]
  IN upto[Len(rows)]
Where(rows, Test(_)) == Pick(rows, [i \in DOMAIN rows |-> Test(rows[i])])

Sum(rows, Cost(_)) == SumFunction([i \in DOMAIN rows |-> Cost(rows[i])])

\* What a row counts for, of a scan or of a report: cents.
Charge(row) == IF "monthly_cost" \in DOMAIN row THEN row.monthly_cost ELSE Cents(row.cost)

\* Count and cost of the rows with each value of a column.
Tally(rows, column) ==
  LET charges == [i \in DOMAIN rows |-> Charge(rows[i])]
      places(v) == {i \in DOMAIN rows : rows[i][column] = v}
  IN [v \in {rows[i][column] : i \in DOMAIN rows} |->
        [count |-> Cardinality(places(v)),
         monthly_cost |-> SumFunctionOnSet(charges, places(v))]]

(***************************************************************************)
(* engine.ScanResult                                                       *)
(***************************************************************************)
completely_failed(result) ==
  result.attempted > 0 /\ result.errors + result.unavailable = result.attempted

\* What engine.scan returns of checks each named once: findings, each a thing
\* of its own, the costliest first, and none where every pair failed.
IsScanResult(result) ==
  LET fs == result.findings
  IN /\ result \in [findings : Seq(Range(fs)), attempted : Nat, errors : Nat, unavailable : Nat]
     /\ \A f \in Range(fs) : f.cost \in Nat /\ "monthly_cost" \notin DOMAIN f
     /\ \A i, j \in DOMAIN fs : i < j => fs[j].cost <= fs[i].cost /\ fs[j] # fs[i]
     /\ completely_failed(result) => fs = <<>>

\* Mutant of total_monthly_cost: added first, rounded once.
total_monthly_cost_rounded_once(result) ==
  Cents(Sum(result.findings, LAMBDA f : f.cost))

total_monthly_cost(result) == Sum(result.findings, LAMBDA f : Cents(f.cost))

\* scan --min-cost, and scan_account's: the estimate is compared unrounded.
Hide(result, min_cost) ==
  IF min_cost = 0 THEN result
  ELSE [result EXCEPT !.findings = Where(result.findings, LAMBDA f : f.cost >= 10 * min_cost)]

(***************************************************************************)
(* report.py and html.py                                                   *)
(***************************************************************************)
summary_table(result) == Tally(result.findings, "check")

\* Mutant of representative: the costliest rows, whatever their checks.
representative_by_cost(findings, limit) ==
  IF limit <= 0 \/ limit >= Len(findings) THEN findings ELSE SubSeq(findings, 1, limit)

\* The rows of the detail table: the costliest finding of each check, and the
\* next costliest of all of them while there is room.
representative(findings, limit) ==
  LET best == {i \in DOMAIN findings :
                 \A j \in 1 .. i - 1 : findings[j].check # findings[i].check}
      ahead(i) == IF i \in best THEN {j \in best : j < i}
                  ELSE best \cup {j \in DOMAIN findings : j < i}
  IN IF limit <= 0 \/ limit >= Len(findings) THEN findings
     ELSE LET picked == {i \in DOMAIN findings : Cardinality(ahead(i)) < limit}
          IN [k \in 1 .. limit |->
                findings[CHOOSE i \in picked : Cardinality({j \in picked : j < i}) = k - 1]]

\* Mutant of verdict: that nothing was found is said before asking why.
verdict_before_failure(result, hidden) ==
  IF result.findings # <<>> THEN "findings"
  ELSE IF hidden > 0 THEN "all hidden" ELSE "no waste"

\* What the console says of an empty result.
verdict(result, hidden) ==
  CASE result.findings # <<>> -> "findings"
    [] result.findings = <<>> /\ completely_failed(result) -> "nothing could be scanned"
    [] result.findings = <<>> /\ ~ completely_failed(result) ->
         IF hidden > 0 THEN "all hidden" ELSE "no waste"

render(result, limit, hidden) ==
  [says |-> verdict(result, hidden),
   summary |-> summary_table(result),
   rows |-> representative(result.findings, limit),
   total |-> total_monthly_cost(result)]

to_html(result) ==
  [banner |-> completely_failed(result),
   total |-> total_monthly_cost(result),
   summary |-> Tally(result.findings, "check"),
   rows |-> Len(result.findings)]

to_script(result) ==
  [total |-> total_monthly_cost(result),
   commands |-> [i \in DOMAIN result.findings |-> result.findings[i].id]]

to_dict(f) ==
  [check |-> f.check, id |-> f.id, region |-> f.region, resource_type |-> f.resource_type,
   approximate |-> f.approximate, monthly_cost |-> Cents(f.cost)]

SCHEMA_VERSION == 2

to_json(result, caller) ==
  [schema_version |-> SCHEMA_VERSION,
   caller_arn |-> caller,
   complete |-> ~ completely_failed(result),
   monthly_cost |-> total_monthly_cost(result),
   annual_cost |-> 12 * total_monthly_cost(result),
   finding_count |-> Len(result.findings),
   by_check |-> Tally(result.findings, "check"),
   findings |-> [i \in DOMAIN result.findings |-> to_dict(result.findings[i])],
   errors |-> result.errors]

(***************************************************************************)
(* Figures of the MCP server. Its filter has a set of values for each      *)
(* column, empty for any, and bounds of the cost, max of -1 for none.      *)
(***************************************************************************)
Monthly(rows) == Sum(rows, LAMBDA row : row.monthly_cost)

Unfiltered == [check |-> {}, region |-> {}, resource_type |-> {}, min |-> 0, max |-> -1]

Matches(row, filter) ==
  /\ \A c \in Columns : filter[c] = {} \/ row[c] \in filter[c]
  /\ row.monthly_cost >= filter.min
  /\ filter.max = -1 \/ row.monthly_cost <= filter.max

filtered(rows, filter) == Where(rows, LAMBDA row : Matches(row, filter))

\* The echo of the filter: the values that no row of the report has.
no_such(rows, filter) ==
  [c \in Columns |-> filter[c] \ {rows[i][c] : i \in DOMAIN rows}]

totals(rows) ==
  [count |-> Len(rows),
   monthly_cost |-> Monthly(rows),
   annual_cost |-> 12 * Monthly(rows),
   free_count |-> Cardinality({i \in DOMAIN rows : rows[i].monthly_cost < 1}),
   approximate_count |-> Cardinality({i \in DOMAIN rows : rows[i].approximate})]

group(rows, column) == Tally(rows, column)

\* The costliest rows, as many as asked for: none for a negative number.
FirstRows(rows, limit) == SubSeq(rows, 1, Min({Len(rows), Max({limit, 0})}))

summarise(document, limit) ==
  [complete |-> document.complete,
   warning |-> ~ document.complete,
   monthly_cost |-> document.monthly_cost,
   annual_cost |-> document.annual_cost,
   finding_count |-> document.finding_count,
   by_check |-> document.by_check,
   by_region |-> group(document.findings, "region"),
   top_findings |-> FirstRows(document.findings, limit),
   errors |-> document.errors]

estimate(document, filter, limit) ==
  LET matched == filtered(document.findings, filter)
  IN [filter_applied |-> filter,
      no_such |-> no_such(document.findings, filter),
      matched |-> totals(matched),
      not_matched |-> [count |-> Len(document.findings) - Len(matched),
                       monthly_cost |-> Monthly(document.findings) - Monthly(matched)],
      by_check |-> group(matched, "check"),
      by_region |-> group(matched, "region"),
      by_resource_type |-> group(matched, "resource_type"),
      matched_findings |-> FirstRows(matched, limit)]
===============================================================================
