----------------------------- MODULE ScanContract -----------------------------
(***************************************************************************)
(* What a caller of zombiescan.engine.scan may rely on, with the thread    *)
(* pool and the order of completion left out: every (check, region) pair   *)
(* is settled once, as answered, failed or absent, and the ScanResult that *)
(* is handed back adds those verdicts up and nothing else.                 *)
(***************************************************************************)
EXTENDS Naturals, FiniteSets

CONSTANTS
  Job,        \* the (check, region) pairs of one scan
  AnyFinding  \* the findings a pair may report

VARIABLES
  verdict,  \* verdict[j]: how pair j came out, and what it found
  report    \* what the caller holds

contractVars == <<verdict, report>>

Verdict == [is : {"open", "answered", "failed", "absent"}, found : SUBSET AnyFinding]
Open == [is |-> "open", found |-> {}]

Came(how) == {j \in Job : verdict[j].is = how}

NotYet == [published |-> FALSE, found |-> {}, errors |-> 0, unavailable |-> 0,
           completely_failed |-> FALSE]

Summary ==
  [published |-> TRUE,
   found |-> UNION {verdict[j].found : j \in Job},
   errors |-> Cardinality(Came("failed")),
   unavailable |-> Cardinality(Came("absent")),
   completely_failed |-> Job # {} /\ Came("answered") = {}]

\* With no pair to run the result is there at once.
ContractInit ==
  /\ verdict = [j \in Job |-> Open]
  /\ report = NotYet \/ (Job = {} /\ report = Summary)

(***************************************************************************)
(* A pair is settled once; only an answer carries findings, so a check     *)
(* that raised halfway contributes nothing of what it had yielded.         *)
(***************************************************************************)
Settle(j) ==
  /\ verdict[j] = Open
  /\ verdict'[j] \in Verdict
  /\ verdict'[j].is # "open"
  /\ verdict'[j].is # "answered" => verdict'[j].found = {}
  /\ verdict' = [verdict EXCEPT ![j] = verdict'[j]]
  /\ UNCHANGED report

Publish ==
  /\ ~ report.published
  /\ Came("open") = {}
  /\ report' = Summary
  /\ UNCHANGED verdict

ContractNext == Publish \/ \E j \in Job : Settle(j)

ContractSpec == ContractInit /\ [][ContractNext]_contractVars
===============================================================================
