----------------------------- MODULE MCMcpServer ------------------------------
(***************************************************************************)
(* An instance of McpServer: two callers and a profile that does not work, *)
(* a check with a cleaner, one without, and one of a pack that is not      *)
(* installed here. The costs of the busy account add up to two cents more  *)
(* when they are rounded only once; its cheap findings round to the bound  *)
(* of the filter.                                                          *)
(***************************************************************************)
EXTENDS McpServer

Found(check, id, region, type, cost) ==
  [check |-> check, id |-> id, region |-> region, resource_type |-> type,
   approximate |-> cost = 1004, cost |-> cost]

Busy ==
  [findings |-> <<Found("ebs", "v1", "east", "volume", 3004),
                  Found("ebs", "v2", "west", "volume", 1004),
                  Found("ebs", "v3", "east", "volume", 1004),
                  Found("logs", "g1", "west", "group", 4),
                  Found("plugin", "p1", "east", "widget", 0)>>,
   attempted |-> 6, errors |-> 0, unavailable |-> 1]
Cheap ==
  [findings |-> <<Found("ebs", "v4", "east", "volume", 996), Found("logs", "g1", "west", "group", 4)>>,
   attempted |-> 5, errors |-> 1, unavailable |-> 0]
Clean == [findings |-> <<>>, attempted |-> 3, errors |-> 1, unavailable |-> 1]
Blind == [findings |-> <<>>, attempted |-> 2, errors |-> 1, unavailable |-> 1]

MCResults == {Busy, Cheap, Clean, Blind}
MCCallers == [own |-> "me", other |-> "you", broken |-> None]
MCRegistry == [ebs |-> TRUE, logs |-> FALSE]
MCFates ==
  {[id \in {"v1", "v2", "v3", "v4"} |-> "steps"],
   [v1 |-> "steps", v2 |-> "raises", v3 |-> "nothing", v4 |-> "raises"]}
MCFiles == {Absent, [schema_version |-> 1], to_json(Busy, "you"), to_json(Cheap, None)}
MCScans ==
  {[profile |-> "own", min |-> 0, limit |-> 0], [profile |-> "own", min |-> 0, limit |-> 3],
   [profile |-> "own", min |-> 100, limit |-> 2], [profile |-> "broken", min |-> 0, limit |-> 0]}

NotAMessage(is) == [is |-> is, request |-> FALSE]
Message(method, request, odd) ==
  [is |-> "message", method |-> method, request |-> request, odd |-> odd, tool |-> "none"]
Calls(tool, arguments) == arguments @@ [tool |-> tool] @@ Message("tools/call", TRUE, FALSE)

ScanFor(profile, min, path) ==
  Calls("scan_account",
        [profile |-> profile, checks |-> {"ebs"}, min |-> min, path |-> path, limit |-> 2])
EstimateOf(filter, path) ==
  Calls("estimate_savings", [filter |-> filter, path |-> path, limit |-> 2])
Explain(check, resource) ==
  Calls("explain_finding", [check |-> check, resource |-> resource, path |-> TRUE])
PlanFor(profile, filter, limit) ==
  Calls("plan_cleanup", [profile |-> profile, filter |-> filter, limit |-> limit, path |-> TRUE])

Costly == [Unfiltered EXCEPT !.check = {"ebs", "typo"}, !.min = 100, !.max = 200]

\* What a session sends besides tool calls.
Chatter ==
  {NotAMessage(is) : is \in {"blank", "not JSON", "not an object"}}
  \cup {Message(m, r, FALSE) : m \in {"tools/list", "unknown", "no string"}, r \in BOOLEAN}
  \cup {Message("notifications/initialized", FALSE, FALSE)}
  \cup {Message("initialize", r, TRUE) : r \in BOOLEAN}

ToolCalls ==
  {ScanFor("own", 100, TRUE), ScanFor("other", 0, TRUE),
   ScanFor("broken", 0, TRUE), ScanFor("own", 0, FALSE),
   [ScanFor("own", 0, TRUE) EXCEPT !.checks = {"typo"}],
   [ScanFor("own", 0, TRUE) EXCEPT !.request = FALSE],
   EstimateOf(Unfiltered, TRUE), EstimateOf(Costly, TRUE), EstimateOf(Unfiltered, FALSE),
   Explain("typo", None), Explain(None, "g1"),
   Calls("list_checks", [cleanable_only |-> TRUE]), Calls("unknown", [limit |-> 1]),
   PlanFor("own", Unfiltered, 20), PlanFor("own", Costly, 1), PlanFor("own", Unfiltered, -1),
   PlanFor("broken", Unfiltered, 20)}

MCLines == Chatter \cup ToolCalls
PlanLines == {ScanFor("own", 0, TRUE), PlanFor("own", Unfiltered, 20)}
===============================================================================
