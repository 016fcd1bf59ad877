------------------------------- MODULE McpServer ------------------------------
(***************************************************************************)
(* zombiescan-mcp: one thread that reads JSON-RPC messages line by line    *)
(* and answers them, and whose tools scan, write and read report files.    *)
(* The operator scans to the same file from a terminal meanwhile: opening  *)
(* a report to write it empties it, and the document is there only once it *)
(* is written, or never, if that scan is killed.                           *)
(*                                                                         *)
(* The scan itself (ScanEngine) and the plans (CleanRun) are one step each *)
(* here: its result is one of Results, and fate says how planning comes    *)
(* out for a resource.                                                     *)
(***************************************************************************)
EXTENDS Reports, FiniteSetsExt

CONSTANTS
  Lines,     \* the lines a client may send
  MaxLines,  \* bound: how many of them it sends
  MaxScans,  \* bound: how many scans the operator makes meanwhile
  Scans,     \* what the operator may ask of one: [profile, min, limit]
  Results,   \* what a scan may find
  Files,     \* what may be at the report's path at the start
  Callers,   \* profile -> who its credentials are, None if they do not work
  Registry,  \* check installed here -> whether it has a cleaner and allows it
  Fates,     \* id -> what its cleaner makes of it: steps, nothing, raises
  None

\* What a line that is a message says, and that no client asks for an answer to
\* a notification it sends (nor gets one). Only a message can be a request.
ASSUME ServerAssumption ==
  /\ MaxLines \in Nat
  /\ \A l \in Lines :
       /\ l.is \in {"blank", "not JSON", "not an object", "message"} /\ l.request \in BOOLEAN
       /\ l.is # "message" => ~ l.request
       /\ l.is = "message" =>
            l.odd \in BOOLEAN /\ (l.method = "notifications/initialized" => ~ l.request)

VARIABLES
  sent,    \* the lines so far
  read,    \* how many of them the server has taken
  pc,      \* reading | handling | writing | planning
  held,    \* what the handler has in hand
  out,     \* the answers written
  file,    \* what is at the report's path: Absent, Torn or a document
  fate,
  typing,  \* the scan the operator is writing down, or None
  shown,   \* what the operator's last finished scan put out, or None
  scans    \* how many scans the operator has begun

vars == <<sent, read, pc, held, out, file, fate, typing, shown, scans>>
clientVars == <<sent>>
serverVars == <<read, pc, held, out>>
operatorVars == <<typing, shown, scans>>

Absent == [schema_version |-> -1]
Torn == [schema_version |-> -2]
Loads(f) == f.schema_version = SCHEMA_VERSION

\* That limits are numbers, what a scan returns, and that a report that loads is
\* one that an earlier scan of the operator wrote.
ASSUME ReportAssumption ==
  /\ \A asked \in Scans : asked.limit \in Int
  /\ \A l \in Lines :
       (l.is = "message" /\ l.method = "tools/call" /\ l.tool = "plan_cleanup") => l.limit \in Int
  /\ \A result \in Results : IsScanResult(result)
  /\ \A f \in Files :
       Loads(f) => \E asked \in Scans, result \in Results :
                     f = to_json(Hide(result, asked.min), f.caller_arn)

\* What writing a document over f leaves: a report that two writers have open
\* at once may end as a mix of both.
Written(f, document) == {document} \cup (IF f # Torn THEN {Torn} ELSE {})

line == sent[read]

Init ==
  /\ sent = <<>> /\ read = 0 /\ pc = "reading" /\ held = None /\ out = <<>>
  /\ file \in Files /\ fate \in Fates
  /\ typing = None /\ shown = None /\ scans = 0

(***************************************************************************)
(* The client, and the protocol                                            *)
(***************************************************************************)
Sends(l) ==
  /\ Len(sent) < MaxLines
  /\ sent' = Append(sent, l)
  /\ UNCHANGED <<serverVars, file, fate, operatorVars>>

Write(id, is, body) == out' = Append(out, [to |-> read, id |-> id, is |-> is, body |-> body])

\* Mutant of Respond: a notification is answered like a request.
RespondAlways(is, body) ==
  /\ Write(IF line.request THEN read ELSE 0, is, body)
  /\ pc' = "reading" /\ held' = None

\* Mutant of Respond: the document a tool had in hand stays there.
RespondHolding(is, body) ==
  /\ IF line.request THEN Write(read, is, body) ELSE UNCHANGED out
  /\ pc' = "reading" /\ UNCHANGED held

\* The end of dispatch: nothing is written for a notification. The id is that
\* of the request, 0 for null.
Respond(is, body) ==
  /\ IF line.request THEN Write(read, is, body) ELSE UNCHANGED out
  /\ pc' = "reading" /\ held' = None

Idle == UNCHANGED <<sent, read, file, fate, operatorVars>>

Takes ==
  /\ pc = "reading" /\ read < Len(sent)
  /\ read' = read + 1 /\ pc' = "handling"
  /\ UNCHANGED <<clientVars, held, out, file, fate, operatorVars>>

SkipsBlank ==
  /\ pc = "handling" /\ line.is = "blank"
  /\ pc' = "reading"
  /\ Idle /\ UNCHANGED <<held, out>>

RefusesUnreadable ==
  /\ pc = "handling" /\ line.is \in {"not JSON", "not an object"}
  /\ Write(0, "error", [code |-> IF line.is = "not JSON" THEN "PARSE_ERROR" ELSE "INVALID_REQUEST"])
  /\ pc' = "reading"
  /\ Idle /\ UNCHANGED held

Handles(method) == pc = "handling" /\ line.is = "message" /\ line.method = method

\* Parameters that are no object raise where they are looked at, and a method
\* that is no string where its prefix is: that is answered, whatever it was.
Undispatchable ==
  /\ pc = "handling" /\ line.is = "message"
  /\ line.method = "no string" \/ (line.method \in {"initialize", "tools/call"} /\ line.odd)
  /\ Write(IF line.request THEN read ELSE 0, "error", [code |-> "INTERNAL_ERROR"])
  /\ pc' = "reading"
  /\ Idle /\ UNCHANGED held

Answers ==
  /\ \/ Handles("initialize") /\ ~ line.odd
     \/ Handles("ping")
     \/ Handles("tools/list")
  /\ Respond("result", [says |-> line.method])
  /\ Idle

IgnoresNotification ==
  /\ Handles("notifications/initialized")
  /\ pc' = "reading"
  /\ Idle /\ UNCHANGED <<held, out>>

UnknownMethod ==
  /\ Handles("unknown")
  /\ Respond("error", [code |-> "METHOD_NOT_FOUND"])
  /\ Idle

(***************************************************************************)
(* Tools. Whatever a handler raises is answered as a tool error.           *)
(***************************************************************************)
Called(tool) == Handles("tools/call") /\ ~ line.odd /\ line.tool = tool
ToolError(why) == Respond("tool error", [says |-> why])

UnknownTool ==
  /\ Called("unknown")
  /\ ToolError("no such tool")
  /\ Idle

caller == Callers[line.profile]
NoReport ==
  IF ~ line.path THEN "missing argument"
  ELSE IF file = Absent THEN "no report" ELSE IF file = Torn THEN "not JSON" ELSE "other schema"
Readable == line.path /\ Loads(file)

ScanRefused ==
  /\ Called("scan_account")
  /\ caller = None \/ ~ line.checks \subseteq DOMAIN Registry
  /\ ToolError("no credentials or no such check")
  /\ Idle

\* The scan is made, and lost, before the path turns out not to be writable.
ScanUnwritable ==
  /\ Called("scan_account") /\ caller # None /\ line.checks \subseteq DOMAIN Registry
  /\ ~ line.path
  /\ ToolError("cannot write the report")
  /\ Idle

ScanOpens(result) ==
  /\ Called("scan_account") /\ caller # None /\ line.checks \subseteq DOMAIN Registry
  /\ line.path
  /\ held' = [document |-> to_json(Hide(result, line.min), caller),
              hidden |-> Len(result.findings) - Len(Hide(result, line.min).findings)]
  /\ file' = Torn /\ pc' = "writing"
  /\ UNCHANGED <<sent, read, out, fate, operatorVars>>

ScanWrites ==
  /\ pc = "writing"
  /\ file' \in Written(file, held.document)
  /\ Respond("result", [tool |-> "scan_account", document |-> held.document,
                        summary |-> summarise(held.document, line.limit),
                        hidden_by_min_cost |-> held.hidden])
  /\ UNCHANGED <<sent, read, fate, operatorVars>>

CannotRead ==
  /\ \/ Called("estimate_savings")
     \/ Called("plan_cleanup")
     \/ Called("explain_finding") /\ line.resource # None
  /\ ~ Readable
  /\ ToolError(NoReport)
  /\ Idle

EstimateSavings ==
  /\ Called("estimate_savings") /\ Readable
  /\ Respond("result", [tool |-> "estimate_savings", document |-> file,
                        estimate |-> estimate(file, line.filter, line.limit)])
  /\ Idle

cleanable(check) == check \in DOMAIN Registry /\ Registry[check]

\* The check is the one named, or the one that found the resource named.
ExplainFinding ==
  /\ Called("explain_finding")
  /\ line.resource = None \/ Readable
  /\ LET rows == IF line.resource = None THEN <<>>
                 ELSE Where(file.findings,
                        LAMBDA row : /\ row.id = line.resource
                                     /\ line.check \in {None, row.check})
         check == IF rows = <<>> THEN line.check ELSE rows[1].check
     IN IF \/ line.resource # None /\ rows = <<>>
           \/ check \notin DOMAIN Registry
        THEN ToolError("no such finding or check")
        ELSE Respond("result", [tool |-> "explain_finding", check |-> check,
                                cleanable |-> cleanable(check)])
  /\ Idle

ListChecks ==
  /\ Called("list_checks")
  /\ Respond("result",
       [tool |-> "list_checks",
        checks |-> {c \in DOMAIN Registry : line.cleanable_only => cleanable(c)}])
  /\ Idle

PlanReads ==
  /\ Called("plan_cleanup") /\ Readable
  /\ held' = file /\ pc' = "planning"
  /\ UNCHANGED <<sent, read, out, file, fate, operatorVars>>

\* Mutant of Foreign: any report will do that was scanned with credentials.
ForeignIfUnsigned(document) == document.caller_arn = None

\* A report that names another caller is not planned from.
Foreign(document) == document.caller_arn \notin {None, caller}

PlanRefused ==
  /\ pc = "planning"
  /\ caller = None \/ Foreign(held)
  /\ ToolError("no credentials, or not this caller's report")
  /\ Idle

\* clean.plan_for: how the plan of a finding comes out.
plan_for(row) ==
  IF ~ cleanable(row.check) \/ fate[row.id] = "nothing" THEN "UNSUPPORTED"
  ELSE IF fate[row.id] = "raises" THEN "FAILED" ELSE "PLANNED"

named(rows) == [i \in DOMAIN rows |-> <<rows[i].check, rows[i].id>>]

\* What is not unsupported is listed as planned, with or without steps.
PlanCleanup ==
  /\ pc = "planning" /\ caller # None /\ ~ Foreign(held)
  /\ LET matched == filtered(held.findings, line.filter)
         \* A slice: a negative limit leaves out as many at the end.
         upto == IF line.limit < 0 THEN Len(matched) + line.limit
                 ELSE Min({Len(matched), line.limit})
         rows == SubSeq(matched, 1, upto)
         unsupported == Where(rows, LAMBDA row : plan_for(row) = "UNSUPPORTED")
         planned == Where(rows, LAMBDA row : plan_for(row) # "UNSUPPORTED")
     IN Respond("result",
          [tool |-> "plan_cleanup", document |-> held, as |-> caller,
           planned |-> named(planned), unsupported |-> named(unsupported),
           monthly_cost_if_all_cleaned |-> Monthly(planned),
           not_planned_because_of_limit |-> Max({Len(matched) - line.limit, 0})])
  /\ Idle

(***************************************************************************)
(* The operator: zombiescan scan --json --html --script, to the same path  *)
(***************************************************************************)
OperatorScans(asked, result) ==
  /\ scans < MaxScans /\ typing = None /\ Callers[asked.profile] # None
  /\ LET kept == Hide(result, asked.min)
         hidden == Len(result.findings) - Len(kept.findings)
     IN typing' = [result |-> kept, caller |-> Callers[asked.profile], limit |-> asked.limit,
                   console |-> render(kept, asked.limit, hidden)]
  /\ file' = Torn /\ scans' = scans + 1
  /\ UNCHANGED <<clientVars, serverVars, fate, shown>>

OperatorWrites ==
  /\ typing # None
  /\ LET document == to_json(typing.result, typing.caller)
     IN /\ file' \in Written(file, document)
        /\ shown' = [result |-> typing.result, limit |-> typing.limit,
                     console |-> typing.console, json |-> document,
                     html |-> to_html(typing.result), script |-> to_script(typing.result),
                     exit |-> IF completely_failed(typing.result) THEN 1 ELSE 0]
  /\ typing' = None
  /\ UNCHANGED <<clientVars, serverVars, fate, scans>>

\* Interrupted while the report was being written.
OperatorKilled ==
  /\ typing # None
  /\ typing' = None
  /\ UNCHANGED <<clientVars, serverVars, file, fate, shown, scans>>

\* zombiescan clean --from, without --apply and filters: what it says it would do.
clean_dry_run(document) ==
  LET actionable == Where(document.findings, LAMBDA row : plan_for(row) = "PLANNED")
  IN [actionable |-> named(actionable),
      freed |-> Monthly(actionable)]

Protocol ==
  Takes \/ SkipsBlank \/ RefusesUnreadable \/ Undispatchable \/ Answers \/ IgnoresNotification
  \/ UnknownMethod

Tools ==
  \/ UnknownTool
  \/ ScanRefused \/ ScanUnwritable \/ (\E result \in Results : ScanOpens(result)) \/ ScanWrites
  \/ CannotRead \/ EstimateSavings \/ ExplainFinding \/ ListChecks
  \/ PlanReads \/ PlanRefused \/ PlanCleanup

Operator ==
  \/ \E asked \in Scans, result \in Results : OperatorScans(asked, result)
  \/ OperatorWrites \/ OperatorKilled

Server == Protocol \/ Tools
Next == Server \/ Operator \/ \E l \in Lines : Sends(l)

Spec == Init /\ [][Next]_vars
FairSpec == Spec /\ WF_vars(Server)

-------------------------------------------------------------------------------
\* What the server has in hand fits where it is, the lines it has answered
\* are lines it has taken, and an answer has the id of its line or none.
TypeOK ==
  /\ sent \in Seq(Lines) /\ Len(sent) <= MaxLines /\ read \in 0 .. Len(sent)
  /\ pc \in {"reading", "handling", "writing", "planning"}
  /\ pc \in {"reading", "handling"} => held = None
  /\ pc = "planning" => Loads(held)
  /\ pc = "writing" => DOMAIN held = {"document", "hidden"}
  /\ \A i \in DOMAIN out :
       /\ out[i].to \in 1 .. read /\ out[i].is \in {"result", "tool error", "error"}
       /\ out[i].id = IF sent[out[i].to].request THEN out[i].to ELSE 0
  /\ file \in {Absent, Torn} \/ Loads(file) \/ file \in Files

\* The lines that are owed an answer: requests, lines that are no message, and
\* messages too malformed to tell.
Owes(l) ==
  \/ l.is \in {"not JSON", "not an object"}
  \/ l.is = "message" /\ l.request
  \/ l.is = "message" /\ l.method = "no string"
  \/ l.is = "message" /\ l.odd /\ l.method \in {"initialize", "tools/call"}

Contract == INSTANCE McpContract
  WITH owed <- [n \in DOMAIN sent |-> Owes(sent[n])],
       answered <- [i \in DOMAIN out |-> out[i].to]

\* However its tools come out, the server answers what is owed an answer, once,
\* in order and in the end, and writes nothing else.
AnswersOnceInOrder == Contract!ContractSpec

Given(tool) ==
  {out[i].body : i \in {i \in DOMAIN out : out[i].is = "result" /\ "tool" \in DOMAIN out[i].body
                                         /\ out[i].body.tool = tool}}
All(tally) == SumFunction([v \in DOMAIN tally |-> tally[v].monthly_cost])

\* A document agrees with itself: its totals are those of its rows.
AddsUp(document) ==
  /\ document.monthly_cost = Monthly(document.findings)
  /\ document.monthly_cost = All(document.by_check)
  /\ document.finding_count = Len(document.findings)

\* Everything that is said of one scan names the same figures: the terminal,
\* the JSON and HTML reports, the script, and each answer the server gives,
\* whose parts and remainder make up the whole.
SameFigures ==
  /\ shown # None =>
       LET total == shown.json.monthly_cost
       IN /\ AddsUp(shown.json)
          /\ shown.console.total = total /\ All(shown.console.summary) = total
          /\ shown.html.total = total /\ All(shown.html.summary) = total
          /\ shown.script.total = total
          /\ shown.html.rows = Len(shown.script.commands)
  /\ \A a \in Given("scan_account") :
       /\ AddsUp(a.document)
       /\ a.summary.monthly_cost = All(a.summary.by_region)
       /\ a.summary.monthly_cost = Monthly(filtered(a.document.findings, Unfiltered))
  /\ \A a \in Given("estimate_savings") :
       LET matched == a.estimate.matched
       IN /\ matched.monthly_cost + a.estimate.not_matched.monthly_cost = a.document.monthly_cost
          /\ matched.count + a.estimate.not_matched.count = a.document.finding_count
          /\ {All(a.estimate.by_check), All(a.estimate.by_region),
              All(a.estimate.by_resource_type)} = {matched.monthly_cost}

\* A plan is made from a report of the same caller, whatever was written to the
\* file meanwhile, lists no finding twice over, and accounts for each of the
\* findings the filter matched unless its limit was a negative one.
PlansAccountForReport ==
  \A i \in DOMAIN out :
    (out[i].is = "result" /\ out[i].body \in Given("plan_cleanup")) =>
      LET a == out[i].body
          l == sent[out[i].to]
          matched == filtered(a.document.findings, l.filter)
      IN /\ a.document.caller_arn \in {None, a.as}
         /\ l.limit >= 0 =>
              Len(a.planned) + Len(a.unsupported) + a.not_planned_because_of_limit = Len(matched)
         /\ Range(a.planned) \cap Range(a.unsupported) = {}

\* A scan that reached nothing is said to have reached nothing, by each of its
\* outputs, and no other scan is; findings a filter hid are no clean account.
NoFalseAllClear ==
  /\ shown # None =>
       LET r == shown.result
           blind == r.attempted > 0 /\ r.attempted = r.errors + r.unavailable
       IN /\ {shown.console.says = "nothing could be scanned", shown.html.banner,
              ~ shown.json.complete, shown.exit = 1} = {blind}
          /\ shown.console.says = "no waste" => r.findings = <<>> /\ r \in Results
  /\ \A a \in Given("scan_account") : a.summary.warning = ~ a.document.complete

\* While the detail table has a row for each check, each check has its
\* costliest finding there, and no row is wasted.
EveryCheckShown ==
  shown # None =>
    LET fs == shown.result.findings
        rows == shown.console.rows
        names == {fs[i].check : i \in DOMAIN fs}
    IN /\ Len(rows) = IF shown.limit <= 0 THEN Len(fs) ELSE Min({shown.limit, Len(fs)})
       /\ IsInjective(rows) /\ Range(rows) \subseteq Range(fs)
       /\ (shown.limit <= 0 \/ Cardinality(names) <= shown.limit) =>
            \A c \in names :
              \E i \in DOMAIN rows :
                rows[i].check = c /\ \A f \in Range(fs) : f.check = c => f.cost <= rows[i].cost

\* Of plan_cleanup's description, "Show exactly what `zombiescan clean` would
\* do to the findings in a report": without a filter and a limit it shows what
\* clean --from shows for the same report.
PlansWhatCleanWould ==
  \A i \in DOMAIN out :
    (out[i].is = "result" /\ out[i].body \in Given("plan_cleanup")) =>
      LET a == out[i].body
      IN (sent[out[i].to].filter = Unfiltered /\ a.not_planned_because_of_limit = 0) =>
           /\ a.planned = clean_dry_run(a.document).actionable
           /\ a.monthly_cost_if_all_cleaned = clean_dry_run(a.document).freed
===============================================================================
