---------------------------- MODULE McpServerProofs ----------------------------
(***************************************************************************)
(* That the server answers each line that is owed an answer, no other, and *)
(* in order: every step of McpServer is a step of McpContract or changes   *)
(* nothing a client sees, for any lines, tools, reports and operator.      *)
(* And that what it answers, and what the operator's scans put out, adds   *)
(* up: each document in hand, in the file or on the screen was made of the *)
(* result of a scan, and each plan of the report it was made from.         *)
(***************************************************************************)
EXTENDS McpServer, ReportProofs

\* Answers are of any kind: a sequence is one of its own elements.
IsSeq(s) == s \in Seq({s[i] : i \in DOMAIN s})

LEMMA Appended ==
  ASSUME NEW s, IsSeq(s), NEW e
  PROVE  /\ IsSeq(Append(s, e))
         /\ Len(s) \in Nat /\ DOMAIN s = 1 .. Len(s)
         /\ Len(Append(s, e)) = Len(s) + 1
         /\ DOMAIN Append(s, e) = 1 .. Len(s) + 1
         /\ \A i \in DOMAIN s : Append(s, e)[i] = s[i]
         /\ Append(s, e)[Len(s) + 1] = e
<1> DEFINE S == {s[i] : i \in DOMAIN s} \cup {e}
           t == Append(s, e)
<1>1. s \in Seq(S) /\ e \in S
  BY DEF IsSeq
<1>2. t \in Seq(S) /\ Len(t) = Len(s) + 1 /\ Len(s) \in Nat
      /\ DOMAIN s = 1 .. Len(s) /\ DOMAIN t = 1 .. Len(s) + 1
  BY <1>1
<1>3. (\A i \in DOMAIN s : t[i] = s[i]) /\ t[Len(s) + 1] = e
  BY <1>1, <1>2
<1>4. t \in Seq({t[i] : i \in DOMAIN t})
  <2> DEFINE T == {t[i] : i \in DOMAIN t}
  <2>1. t \in [1 .. Len(t) -> S] /\ Len(t) \in Nat
    BY <1>2, LenProperties
  <2>2. t \in [1 .. Len(t) -> T]
    BY <2>1
  <2> HIDE DEF T
  <2>3. t \in Seq(T)
    BY <2>1, <2>2, SeqDef
  <2> QED BY <2>3 DEF T
<1> QED
  BY <1>2, <1>3, <1>4 DEF IsSeq

(***************************************************************************)
(* The lines the server has done with: all it has taken, but for the one   *)
(* it is handling.                                                         *)
(***************************************************************************)
Done == IF pc = "reading" THEN 1 .. read ELSE 1 .. read - 1

\* Of the lines done with, those answered are those owed an answer; a tool
\* that is at work was called by a request or a notification.
AnswerInv ==
  /\ IsSeq(sent) /\ Range(sent) \subseteq Lines /\ IsSeq(out)
  /\ read \in 0 .. Len(sent)
  /\ pc \in {"reading", "handling", "writing", "planning"}
  /\ pc # "reading" => read > 0
  /\ {out[i].to : i \in DOMAIN out} = {n \in Done : Owes(sent[n])}
  /\ pc \in {"writing", "planning"} =>
       line.is = "message" /\ line.method = "tools/call" /\ ~ line.odd

Owed == [n \in DOMAIN sent |-> Owes(sent[n])]
Answered == [i \in DOMAIN out |-> out[i].to]
Seen == <<Owed, Answered>>

\* What a step may do: the contract's, or nothing a client sees.
Allowed ==
  /\ AnswerInv'
  /\ Contract!Send \/ Contract!Answer \/ (Owed' = Owed /\ Answered' = Answered)

(***************************************************************************)
(* The ways a step of the server can end.                                  *)
(***************************************************************************)
LEMMA AnswerStep ==
  ASSUME AnswerInv, pc # "reading", Owes(line), NEW id, NEW is, NEW body,
         Write(id, is, body), pc' = "reading", sent' = sent, read' = read
  PROVE  Allowed
<1> DEFINE e == [to |-> read, id |-> id, is |-> is, body |-> body]
<1>1. out' = Append(out, e) /\ e.to = read
  BY DEF Write
<1>2. /\ IsSeq(out') /\ Len(out) \in Nat /\ DOMAIN out = 1 .. Len(out)
      /\ DOMAIN out' = 1 .. Len(out) + 1
      /\ \A i \in DOMAIN out : out'[i] = out[i]
      /\ out'[Len(out) + 1] = e
  BY <1>1, Appended DEF AnswerInv
<1>3. read \in Nat /\ read >= 1 /\ Done = 1 .. read - 1 /\ Done' = 1 .. read
  BY DEF AnswerInv, Done
<1>4. {out'[i].to : i \in DOMAIN out'} = {out[i].to : i \in DOMAIN out} \cup {read}
  BY <1>1, <1>2
<1>5. {n \in Done' : Owes(sent[n])} = {n \in Done : Owes(sent[n])} \cup {read}
  BY <1>3 DEF line
<1>6. AnswerInv'
  BY <1>2, <1>3, <1>4, <1>5 DEF AnswerInv, Owes
<1>7. Len(sent) \in Nat /\ DOMAIN sent = 1 .. Len(sent) /\ read \in DOMAIN sent
  BY <1>3 DEF AnswerInv, IsSeq
<1>8. Contract!Answer
  <2> DEFINE W == {n \in DOMAIN Owed : Owed[n]} \ Contract!Range(Answered)
  <2>1. Contract!Range(Answered) = {out[i].to : i \in DOMAIN out}
    BY DEF Contract!Range, Answered
  <2>2. W = {n \in DOMAIN sent : Owes(sent[n]) /\ n >= read}
    BY <2>1, <1>3, <1>7 DEF Owed, AnswerInv
  <2>3. read \in W /\ \A n \in W : read <= n /\ n \in Nat
    BY <2>2, <1>7, <1>3 DEF line
  <2>4. Contract!Min(W) = read
    <3>1. \A x \in W : (\A y \in W : x <= y) => x = read
      BY <2>3, <1>3
    <3> QED BY <2>3, <3>1 DEF Contract!Min
  <2>5. Answered \in Seq(Nat \cup {Answered[i] : i \in DOMAIN Answered})
        /\ Len(Answered) = Len(out)
    BY <1>2 DEF Answered
  <2>6. Answered' = Append(Answered, read)
    BY <1>1, <1>2, <1>3, <2>5 DEF Answered
  <2>7. Owed' = Owed
    BY DEF Owed, Owes
  <2> QED
    BY <2>3, <2>4, <2>6, <2>7 DEF Contract!Answer, Contract!Waiting, Owed, Answered
<1> QED
  BY <1>6, <1>8 DEF Allowed

LEMMA SilentStep ==
  ASSUME AnswerInv, pc # "reading", ~ Owes(line),
         pc' = "reading", sent' = sent, read' = read, out' = out
  PROVE  Allowed
<1>1. read \in Nat /\ read >= 1 /\ Done = 1 .. read - 1 /\ Done' = 1 .. read
  BY DEF AnswerInv, Done
<1>2. {n \in Done' : Owes(sent[n])} = {n \in Done : Owes(sent[n])}
  BY <1>1 DEF line
<1>3. {out'[i].to : i \in DOMAIN out'} = {out[i].to : i \in DOMAIN out}
  OBVIOUS
<1>4. AnswerInv'
  BY <1>1, <1>2, <1>3 DEF AnswerInv, Owes
<1> QED
  BY <1>4 DEF Allowed, Owed, Answered, Owes

LEMMA QuietStep ==
  ASSUME AnswerInv, pc # "reading", pc' # "reading",
         pc' \in {"handling", "writing", "planning"},
         line.is = "message", line.method = "tools/call", ~ line.odd,
         sent' = sent, read' = read, out' = out
  PROVE  Allowed
<1>1. Done' = Done
  BY DEF Done
<1>2. {out'[i].to : i \in DOMAIN out'} = {out[i].to : i \in DOMAIN out}
  OBVIOUS
<1>3. {n \in Done' : Owes(sent'[n])} = {n \in Done : Owes(sent[n])}
  BY <1>1
<1>4. AnswerInv'
  BY <1>2, <1>3 DEF AnswerInv, Owes, line
<1> QED
  BY <1>4 DEF Allowed, Owed, Answered, Owes

\* The end of dispatch, of a message that is owed an answer if and only if it
\* is a request.
LEMMA RespondStep ==
  ASSUME AnswerInv, pc # "reading", Owes(line) <=> line.request, NEW is, NEW body,
         Respond(is, body), sent' = sent, read' = read
  PROVE  Allowed
<1>1. CASE line.request
  <2>1. Write(read, is, body) /\ pc' = "reading"
    BY <1>1 DEF Respond
  <2> QED BY <1>1, <2>1, AnswerStep
<1>2. CASE ~ line.request
  <2>1. out' = out /\ pc' = "reading"
    BY <1>2 DEF Respond
  <2> QED BY <1>2, <2>1, SilentStep
<1> QED
  BY <1>1, <1>2

LEMMA LineIsOne ==
  ASSUME AnswerInv, pc # "reading"
  PROVE  line \in Lines
BY DEF AnswerInv, IsSeq, Range, line

\* A message of any method but those that fail before they are dispatched, or
\* that are no request, is owed an answer if and only if it is a request.
LEMMA OwedIfRequest ==
  ASSUME NEW method, Handles(method), method # "no string",
         method \in {"initialize", "tools/call"} => ~ line.odd, line \in Lines
  PROVE  Owes(line) <=> line.request
BY ServerAssumption DEF Handles, Owes, ServerAssumption

(***************************************************************************)
(* The steps of the protocol, and those of the tools.                      *)
(***************************************************************************)
LEMMA TakesStep ==
  ASSUME AnswerInv, Takes
  PROVE  Allowed
<1>1. Done' = Done /\ read' \in 1 .. Len(sent) /\ sent' = sent /\ out' = out
  BY DEF Takes, Done, AnswerInv, IsSeq, clientVars
<1>2. {out'[i].to : i \in DOMAIN out'} = {out[i].to : i \in DOMAIN out}
  BY <1>1
<1>3. {n \in Done' : Owes(sent'[n])} = {n \in Done : Owes(sent[n])}
  BY <1>1
<1>4. AnswerInv'
  BY <1>1, <1>2, <1>3 DEF AnswerInv, Takes
<1> QED
  BY <1>1, <1>4 DEF Allowed, Owed, Answered

LEMMA ProtocolStep ==
  ASSUME AnswerInv, Protocol
  PROVE  Allowed
<1>1. CASE Takes
  BY <1>1, TakesStep
<1>2. CASE SkipsBlank \/ IgnoresNotification
  <2>1. pc = "handling" /\ pc' = "reading" /\ sent' = sent /\ read' = read /\ out' = out
    BY <1>2 DEF SkipsBlank, IgnoresNotification, Handles, Idle
  <2>2. ~ Owes(line)
    BY <1>2, <2>1, LineIsOne, ServerAssumption
    DEF SkipsBlank, IgnoresNotification, Handles, Owes, ServerAssumption
  <2> QED BY <2>1, <2>2, SilentStep
<1>3. CASE RefusesUnreadable \/ Undispatchable
  <2>1. /\ pc = "handling" /\ pc' = "reading" /\ sent' = sent /\ read' = read
        /\ \E id, body : Write(id, "error", body)
    BY <1>3 DEF RefusesUnreadable, Undispatchable, Idle
  <2>2. Owes(line)
    BY <1>3 DEF RefusesUnreadable, Undispatchable, Owes
  <2> QED BY <2>1, <2>2, AnswerStep
<1>4. CASE Answers \/ UnknownMethod
  <2>1. /\ pc = "handling" /\ sent' = sent /\ read' = read
        /\ \E is, body : Respond(is, body)
    BY <1>4 DEF Answers, UnknownMethod, Handles, Idle
  <2>2. Owes(line) <=> line.request
    BY <1>4, <2>1, LineIsOne, OwedIfRequest DEF Answers, UnknownMethod
  <2> QED BY <2>1, <2>2, RespondStep
<1> QED
  BY <1>1, <1>2, <1>3, <1>4 DEF Protocol

LEMMA ToolResponds ==
  ASSUME AnswerInv,
         \/ \E tool : Called(tool)
         \/ pc \in {"writing", "planning"},
         sent' = sent, read' = read, \E is, body : Respond(is, body)
  PROVE  Allowed
<1>1. pc # "reading" /\ line.is = "message" /\ line.method = "tools/call" /\ ~ line.odd
  BY DEF Called, Handles, AnswerInv
<1>2. Owes(line) <=> line.request
  BY <1>1, LineIsOne, ServerAssumption DEF Owes, ServerAssumption
<1> QED
  BY <1>1, <1>2, RespondStep

LEMMA ToolsStep ==
  ASSUME AnswerInv, Tools
  PROVE  Allowed
<1>1. CASE UnknownTool \/ ScanRefused \/ ScanUnwritable \/ CannotRead \/ PlanRefused
  <2>1. (\E is, body : Respond(is, body)) /\ sent' = sent /\ read' = read
    BY <1>1
    DEF UnknownTool, ScanRefused, ScanUnwritable, CannotRead, PlanRefused, ToolError, Idle
  <2>2. (\E tool : Called(tool)) \/ pc \in {"writing", "planning"}
    BY <1>1 DEF UnknownTool, ScanRefused, ScanUnwritable, CannotRead, PlanRefused
  <2> QED BY <2>1, <2>2, ToolResponds
<1>2. CASE EstimateSavings
  <2>1. (\E is, body : Respond(is, body)) /\ sent' = sent /\ read' = read
    BY <1>2 DEF EstimateSavings, Idle
  <2>2. \E tool : Called(tool)
    BY <1>2 DEF EstimateSavings
  <2> QED BY <2>1, <2>2, ToolResponds
<1>3. CASE ExplainFinding
  <2>1. (\E is, body : Respond(is, body)) /\ sent' = sent /\ read' = read
    BY <1>3 DEF ExplainFinding, ToolError, Idle
  <2>2. \E tool : Called(tool)
    BY <1>3 DEF ExplainFinding
  <2> QED BY <2>1, <2>2, ToolResponds
<1>4. CASE ListChecks
  <2>1. (\E is, body : Respond(is, body)) /\ sent' = sent /\ read' = read
    BY <1>4 DEF ListChecks, Idle
  <2>2. \E tool : Called(tool)
    BY <1>4 DEF ListChecks
  <2> QED BY <2>1, <2>2, ToolResponds
<1>5. CASE ScanWrites
  <2>1. (\E is, body : Respond(is, body)) /\ sent' = sent /\ read' = read
    BY <1>5 DEF ScanWrites
  <2>2. pc = "writing"
    BY <1>5 DEF ScanWrites
  <2> QED BY <2>1, <2>2, ToolResponds
<1>6. CASE PlanCleanup
  <2>1. (\E is, body : Respond(is, body)) /\ sent' = sent /\ read' = read
    BY <1>6 DEF PlanCleanup, Idle
  <2>2. pc = "planning"
    BY <1>6 DEF PlanCleanup
  <2> QED BY <2>1, <2>2, ToolResponds
<1>7. ASSUME NEW result \in Results, ScanOpens(result)
      PROVE  Allowed
  <2>1. /\ pc = "handling" /\ pc' = "writing"
        /\ line.is = "message" /\ line.method = "tools/call" /\ ~ line.odd
        /\ sent' = sent /\ read' = read /\ out' = out
    BY <1>7 DEF ScanOpens, Called, Handles
  <2> QED BY <2>1, QuietStep
<1>8. CASE PlanReads
  <2>1. /\ pc = "handling" /\ pc' = "planning"
        /\ line.is = "message" /\ line.method = "tools/call" /\ ~ line.odd
        /\ sent' = sent /\ read' = read /\ out' = out
    BY <1>8 DEF PlanReads, Called, Handles
  <2> QED BY <2>1, QuietStep
<1> QED
  BY <1>1, <1>2, <1>3, <1>4, <1>5, <1>6, <1>7, <1>8 DEF Tools

(***************************************************************************)
(* The client and the operator.                                            *)
(***************************************************************************)
LEMMA SendsStep ==
  ASSUME AnswerInv, NEW l \in Lines, Sends(l)
  PROVE  Allowed
<1>1. /\ sent' = Append(sent, l)
      /\ read' = read /\ pc' = pc /\ out' = out
  BY DEF Sends, serverVars
<1>2. /\ IsSeq(sent') /\ Len(sent) \in Nat /\ DOMAIN sent = 1 .. Len(sent)
      /\ Len(sent') = Len(sent) + 1 /\ DOMAIN sent' = 1 .. Len(sent) + 1
      /\ \A i \in DOMAIN sent : sent'[i] = sent[i]
      /\ sent'[Len(sent) + 1] = l
  BY <1>1, Appended DEF AnswerInv
<1>3. Done' = Done /\ Done \subseteq DOMAIN sent
  BY <1>1, <1>2 DEF Done, AnswerInv
<1>4. {out'[i].to : i \in DOMAIN out'} = {out[i].to : i \in DOMAIN out}
  BY <1>1
<1>5. {n \in Done' : Owes(sent'[n])} = {n \in Done : Owes(sent[n])}
  BY <1>2, <1>3
<1>6. Range(sent') \subseteq Lines
  BY <1>2 DEF AnswerInv, Range
<1>7. pc # "reading" => line' = line
  BY <1>1, <1>2 DEF line, AnswerInv
<1>8. AnswerInv'
  <2>1. read' \in 0 .. Len(sent') /\ (pc' # "reading" => read' > 0)
    BY <1>1, <1>2 DEF AnswerInv
  <2>2. {out'[i].to : i \in DOMAIN out'} = {n \in Done' : Owes(sent'[n])}
    BY <1>4, <1>5 DEF AnswerInv
  <2>3. pc' \in {"writing", "planning"} =>
          line'.is = "message" /\ line'.method = "tools/call" /\ ~ line'.odd
    BY <1>1, <1>7 DEF AnswerInv
  <2>4. IsSeq(out') /\ pc' \in {"reading", "handling", "writing", "planning"}
    BY <1>1 DEF AnswerInv
  <2> QED BY <1>2, <1>6, <2>1, <2>2, <2>3, <2>4 DEF AnswerInv
<1>9. Contract!Send
  <2>1. Owes(l) \in BOOLEAN
    BY ServerAssumption DEF Owes, ServerAssumption
  <2>2. Owed \in [1 .. Len(sent) -> BOOLEAN]
    <3>1. \A n \in DOMAIN sent : Owes(sent[n]) \in BOOLEAN
      BY ServerAssumption DEF Owes, ServerAssumption, AnswerInv, Range
    <3> QED BY <3>1, <1>2 DEF Owed
  <2>3. Owed \in Seq(BOOLEAN) /\ Len(Owed) = Len(sent)
    BY <2>2, <1>2, SeqDef
  <2>4. Owed' = [n \in 1 .. Len(sent) + 1 |-> Owes(sent'[n])]
    BY <1>2 DEF Owed
  <2>5. Owed' = Append(Owed, Owes(l))
    BY <2>1, <2>2, <2>3, <2>4, <1>2 DEF Owed
  <2>6. Answered' = Answered
    BY <1>1 DEF Answered
  <2> QED BY <2>1, <2>5, <2>6 DEF Contract!Send, Owed, Answered
<1> QED
  BY <1>8, <1>9 DEF Allowed

LEMMA UnseenStep ==
  ASSUME AnswerInv, UNCHANGED <<sent, read, pc, out>>
  PROVE  Allowed
<1>1. {out'[i].to : i \in DOMAIN out'} = {out[i].to : i \in DOMAIN out}
  OBVIOUS
<1>2. {n \in Done' : Owes(sent'[n])} = {n \in Done : Owes(sent[n])}
  BY DEF Done
<1>3. AnswerInv'
  BY <1>1, <1>2 DEF AnswerInv, line
<1> QED
  BY <1>3 DEF Allowed, Owed, Answered

LEMMA EveryStep == AnswerInv /\ [Next]_vars => Allowed
<1> SUFFICES ASSUME AnswerInv, [Next]_vars PROVE Allowed
  OBVIOUS
<1>1. CASE Server
  BY <1>1, ProtocolStep, ToolsStep DEF Server
<1>2. CASE Operator
  <2>1. UNCHANGED <<sent, read, pc, out>>
    BY <1>2 DEF Operator, OperatorScans, OperatorWrites, OperatorKilled, clientVars, serverVars
  <2> QED BY <2>1, UnseenStep
<1>3. ASSUME NEW l \in Lines, Sends(l) PROVE Allowed
  BY <1>3, SendsStep
<1>4. CASE UNCHANGED vars
  BY <1>4, UnseenStep DEF vars
<1> QED
  BY <1>1, <1>2, <1>3, <1>4 DEF Next

LEMMA InitAnswers == Init => AnswerInv /\ Contract!ContractInit
<1> SUFFICES ASSUME Init PROVE AnswerInv /\ Contract!ContractInit
  OBVIOUS
<1>1. sent = <<>> /\ out = <<>> /\ read = 0 /\ pc = "reading"
  BY DEF Init
<1>2. IsSeq(<<>>) /\ Len(sent) = 0 /\ Range(sent) = {}
  BY <1>1 DEF IsSeq, Range
<1>3. {out[i].to : i \in DOMAIN out} = {} /\ {n \in Done : Owes(sent[n])} = {}
  BY <1>1 DEF Done
<1>4. AnswerInv
  BY <1>1, <1>2, <1>3 DEF AnswerInv
<1>5. Owed = <<>> /\ Answered = <<>>
  BY <1>1 DEF Owed, Answered
<1> QED
  BY <1>4, <1>5 DEF Contract!ContractInit, Owed, Answered

\* serve, dispatch and call_tool (mcp_server.py): for any tools and whatever
\* they raise, any reports and any lines, the server is McpContract but for
\* its liveness: it answers what is owed an answer, once, in the order of the
\* lines, and writes nothing else.
THEOREM ServerMeetsContract ==
  Spec => Contract!ContractInit /\ [][Contract!ContractNext]_(Contract!contractVars)
<1>1. Allowed => AnswerInv' /\ [Contract!ContractNext]_(Contract!contractVars)
  BY DEF Allowed, Contract!ContractNext, Contract!contractVars, Owed, Answered
<1> QED
  BY <1>1, EveryStep, InitAnswers, PTL DEF Spec

(***************************************************************************)
(* What the figures and verdicts are of. A report that loads adds up; what *)
(* a scan is writing, or has shown, was made from the result of one; what  *)
(* an answer of a tool says was computed from such a report.               *)
(***************************************************************************)
IsReport(d) == Loads(d) /\ IsRows(d.findings) /\ AddsUp(d)

\* The result of a scan, as the operator or scan_account has it.
FromScan(kept, hidden) ==
  \E result \in Results : \E min_cost :
    /\ kept = Hide(result, min_cost)
    /\ hidden = Len(result.findings) - Len(kept.findings)

Typed(t) ==
  /\ t.limit \in Int
  /\ \E hidden : /\ FromScan(t.result, hidden)
                 /\ t.console = render(t.result, t.limit, hidden)

Put(s) ==
  /\ Typed(s)
  /\ \E who : s.json = to_json(s.result, who)
  /\ s.html = to_html(s.result) /\ s.script = to_script(s.result)
  /\ s.exit = IF completely_failed(s.result) THEN 1 ELSE 0

Scanned(document) ==
  \E kept, hidden, who : FromScan(kept, hidden) /\ document = to_json(kept, who)

\* What plan_cleanup says of a report, asked by line l.
Accounts(a, l) ==
  LET matched == filtered(a.document.findings, l.filter)
  IN /\ a.document.caller_arn \in {None, a.as}
     /\ l.limit >= 0 =>
          Len(a.planned) + Len(a.unsupported) + a.not_planned_because_of_limit = Len(matched)
     /\ Range(a.planned) \cap Range(a.unsupported) = {}

Made(body, l) ==
  "tool" \in DOMAIN body =>
    /\ body.tool = "scan_account" =>
         /\ Scanned(body.document)
         /\ \E limit : body.summary = summarise(body.document, limit)
    /\ body.tool = "estimate_savings" =>
         /\ IsReport(body.document)
         /\ \E filter, limit : body.estimate = estimate(body.document, filter, limit)
    /\ body.tool = "plan_cleanup" => Accounts(body, l)

AnsweredWell(e, l) ==
  /\ e.is \in {"result", "tool error", "error"}
  /\ e.id = IF l.request THEN e.to ELSE 0
  /\ e.is = "result" => Made(e.body, l)

OutInv == \A i \in DOMAIN out : AnsweredWell(out[i], sent[out[i].to])
FileInv == (Loads(file) => IsReport(file)) /\ (file \in {Absent, Torn} \/ Loads(file) \/ file \in Files)
OperatorInv == (typing # None => Typed(typing)) /\ (shown # None => Put(shown))
HeldInv ==
  /\ pc \in {"reading", "handling"} => held = None
  /\ pc = "writing" => DOMAIN held = {"document", "hidden"} /\ Scanned(held.document)
  /\ pc = "planning" => IsReport(held) /\ line.tool = "plan_cleanup"

ReportInv ==
  AnswerInv /\ Len(sent) <= MaxLines /\ OutInv /\ FileInv /\ OperatorInv /\ HeldInv

\* How a step may add to what was written.
Grows ==
  \/ out' = out
  \/ \E e : out' = Append(out, e) /\ e.to = read /\ AnsweredWell(e, line)

LEMMA AllIsSums == ASSUME NEW tally PROVE All(tally) = Sums(tally)
BY DEF All, Sums

LEMMA FromScanIsScan ==
  ASSUME NEW kept, NEW hidden, FromScan(kept, hidden)
  PROVE  /\ IsScanResult(kept) /\ hidden \in Int
         /\ (kept.findings = <<>> /\ ~ (hidden > 0)) => kept \in Results
<1>1. PICK result \in Results : \E min_cost :
        /\ kept = Hide(result, min_cost)
        /\ hidden = Len(result.findings) - Len(kept.findings)
  BY DEF FromScan
<1>2. IsScanResult(result)
  BY ReportAssumption DEF ReportAssumption
<1>3. /\ IsScanResult(kept)
      /\ result.findings = <<>> => kept = result
      /\ Len(kept.findings) <= Len(result.findings)
  BY <1>1, <1>2, HideIsScan
<1>4. Len(result.findings) \in Nat /\ Len(kept.findings) \in Nat
      /\ (Len(result.findings) = 0 => result.findings = <<>>)
  BY <1>2, <1>3 DEF IsScanResult
<1>5. ASSUME kept.findings = <<>>, ~ (hidden > 0) PROVE kept \in Results
  <2>1. Len(kept.findings) = 0
    BY <1>5
  <2>2. Len(result.findings) = 0
    BY <1>1, <1>4, <1>5, <2>1
  <2> QED BY <1>3, <1>4, <2>2
<1>6. hidden \in Int
  BY <1>1, <1>4
<1> QED
  BY <1>3, <1>5, <1>6

LEMMA ScannedIsReport ==
  ASSUME NEW document, Scanned(document)
  PROVE  IsReport(document) /\ document \notin {Absent, Torn}
<1>1. PICK kept, hidden, who : FromScan(kept, hidden) /\ document = to_json(kept, who)
  BY DEF Scanned
<1>2. IsScanResult(kept)
  BY <1>1, FromScanIsScan
<1>3. /\ IsRows(to_json(kept, who).findings)
      /\ total_monthly_cost(kept) = Monthly(to_json(kept, who).findings)
      /\ Sums(Tally(kept.findings, "check")) = total_monthly_cost(kept)
      /\ Len(to_json(kept, who).findings) = Len(kept.findings)
  BY <1>2, ScanTotal
<1>4. /\ document.monthly_cost = total_monthly_cost(kept)
      /\ document.by_check = Tally(kept.findings, "check")
      /\ document.finding_count = Len(kept.findings)
      /\ document.schema_version = SCHEMA_VERSION
  BY <1>1 DEF to_json
<1>5. AddsUp(document)
  BY <1>1, <1>3, <1>4, AllIsSums DEF AddsUp
<1>6. Loads(document)
  BY <1>4 DEF Loads
<1>7. ~ Loads(Absent) /\ ~ Loads(Torn)
  BY DEF Loads, Absent, Torn, SCHEMA_VERSION
<1> QED
  BY <1>1, <1>3, <1>5, <1>6, <1>7 DEF IsReport

LEMMA NotReports == ~ Loads(Absent) /\ ~ Loads(Torn)
BY DEF Loads, Absent, Torn, SCHEMA_VERSION

(***************************************************************************)
(* The plan.                                                               *)
(***************************************************************************)
LEMMA SliceIsSeq ==
  ASSUME NEW R, NEW s \in Seq(R), NEW n \in Int, n <= Len(s)
  PROVE  SubSeq(s, 1, n) \in Seq(R) /\ (n >= 0 => Len(SubSeq(s, 1, n)) = n)
OBVIOUS

LEMMA LargerOfTwo ==
  ASSUME NEW a \in Int, NEW b \in Int, a <= b
  PROVE  Max({a, b}) = b /\ Max({b, a}) = b
<1>1. \A x \in {a, b} : (\A y \in {a, b} : x >= y) => x = b
  OBVIOUS
<1>2. b \in {a, b} /\ \A y \in {a, b} : b >= y
  OBVIOUS
<1>3. {b, a} = {a, b}
  OBVIOUS
<1> QED
  BY <1>1, <1>2, <1>3 DEF Max

LEMMA LimitAdds ==
  ASSUME NEW n \in Nat, NEW limit \in Int, NEW upto,
         upto = IF limit < 0 THEN n + limit ELSE Min({n, limit})
  PROVE  /\ upto \in Int /\ upto <= n
         /\ limit >= 0 => upto >= 0 /\ upto + Max({n - limit, 0}) = n
<1>1. CASE limit < 0
  BY <1>1
<1>2. CASE limit >= 0 /\ n <= limit
  <2>1. upto = n
    <3>1. Min({n, limit}) = n
      BY <1>2, SmallerOfTwo
    <3> QED BY <1>2, <3>1
  <2>2. Max({n - limit, 0}) = 0
    <3>1. n - limit \in Int /\ n - limit <= 0
      BY <1>2
    <3> QED BY <3>1, LargerOfTwo
  <2> QED BY <1>2, <2>1, <2>2
<1>3. CASE limit >= 0 /\ limit < n
  <2>1. upto = limit
    <3>1. Min({n, limit}) = limit
      BY <1>3, SmallerOfTwo
    <3> QED BY <1>3, <3>1
  <2>2. Max({n - limit, 0}) = n - limit
    <3>1. n - limit \in Int /\ 0 <= n - limit
      BY <1>3
    <3> QED BY <3>1, LargerOfTwo
  <2> QED BY <1>3, <2>1, <2>2
<1> QED
  BY <1>1, <1>2, <1>3

LEMMA NamedLength ==
  ASSUME NEW R, NEW rows \in Seq(R)
  PROVE  Len(named(rows)) = Len(rows) /\ DOMAIN named(rows) = DOMAIN rows
<1>1. Len(rows) \in Nat /\ DOMAIN rows = 1 .. Len(rows)
  OBVIOUS
<1> QED
  BY <1>1, LenProperties DEF named

\* The findings whose plan comes out, and the others.
Halves(rows, chosen, others) ==
  \A i \in DOMAIN rows : /\ chosen[i] <=> plan_for(rows[i]) # "UNSUPPORTED"
                         /\ others[i] <=> plan_for(rows[i]) = "UNSUPPORTED"

\* The findings are planned or not, none both: that depends on its check and
\* its id, and on nothing else.
LEMMA PlansSplit ==
  ASSUME NEW R, NEW rows \in Seq(R), NEW chosen, NEW others, Halves(rows, chosen, others),
         NEW planned, planned = Pick(rows, chosen),
         NEW unsupported, unsupported = Pick(rows, others)
  PROVE  /\ Len(named(planned)) + Len(named(unsupported)) = Len(rows)
         /\ Range(named(planned)) \cap Range(named(unsupported)) = {}
<1>2. \A i \in DOMAIN rows : /\ others[i] <=> plan_for(rows[i]) = "UNSUPPORTED"
                             /\ chosen[i] <=> plan_for(rows[i]) # "UNSUPPORTED"
                             /\ others[i] <=> ~ chosen[i]
  BY DEF Halves
<1>3. /\ planned \in Seq(R) /\ unsupported \in Seq(R)
  BY PickKeeps
<1>4. Len(planned) + Len(unsupported) = Len(rows)
  BY <1>2, TwoHalves
<1>5. \A k \in DOMAIN planned : \E i \in DOMAIN rows : chosen[i] /\ planned[k] = rows[i]
  BY PickedWasChosen
<1>6. \A k \in DOMAIN unsupported : \E i \in DOMAIN rows : others[i] /\ unsupported[k] = rows[i]
  BY PickedWasChosen
<1>7. Len(named(planned)) = Len(planned) /\ Len(named(unsupported)) = Len(unsupported)
      /\ DOMAIN named(planned) = DOMAIN planned /\ DOMAIN named(unsupported) = DOMAIN unsupported
  BY <1>3, NamedLength
<1>8. ASSUME NEW k \in DOMAIN planned, NEW m \in DOMAIN unsupported
      PROVE  named(planned)[k] # named(unsupported)[m]
  <2>1. plan_for(planned[k]) # plan_for(unsupported[m])
    BY <1>2, <1>5, <1>6
  <2>2. ~ (planned[k].check = unsupported[m].check /\ planned[k].id = unsupported[m].id)
    BY <2>1 DEF plan_for
  <2>3. /\ named(planned)[k] = <<planned[k].check, planned[k].id>>
        /\ named(unsupported)[m] = <<unsupported[m].check, unsupported[m].id>>
    BY DEF named
  <2> QED BY <2>2, <2>3
<1>9. Range(named(planned)) \cap Range(named(unsupported)) = {}
  BY <1>7, <1>8 DEF Range
<1> QED
  BY <1>4, <1>7, <1>9

\* What PlanCleanup puts in its answer a to line l, step by step.
PlanFrom(a, l, matched, upto, rows, chosen, others) ==
  /\ IsReport(a.document) /\ a.document.caller_arn \in {None, a.as} /\ l.limit \in Int
  /\ matched = filtered(a.document.findings, l.filter)
  /\ upto = IF l.limit < 0 THEN Len(matched) + l.limit ELSE Min({Len(matched), l.limit})
  /\ rows = SubSeq(matched, 1, upto)
  /\ Halves(rows, chosen, others)
  /\ a.planned = named(Pick(rows, chosen)) /\ a.unsupported = named(Pick(rows, others))
  /\ a.not_planned_because_of_limit = Max({Len(matched) - l.limit, 0})

LEMMA PlanAccounts ==
  ASSUME NEW a, NEW l, NEW matched, NEW upto, NEW rows, NEW chosen, NEW others,
         PlanFrom(a, l, matched, upto, rows, chosen, others)
  PROVE  Accounts(a, l)
<1> DEFINE planned == Pick(rows, chosen)
           unsupported == Pick(rows, others)
<1>0. /\ IsReport(a.document) /\ a.document.caller_arn \in {None, a.as} /\ l.limit \in Int
      /\ matched = filtered(a.document.findings, l.filter)
      /\ upto = IF l.limit < 0 THEN Len(matched) + l.limit ELSE Min({Len(matched), l.limit})
      /\ rows = SubSeq(matched, 1, upto)
      /\ Halves(rows, chosen, others)
      /\ a.planned = named(planned) /\ a.unsupported = named(unsupported)
      /\ a.not_planned_because_of_limit = Max({Len(matched) - l.limit, 0})
  BY DEF PlanFrom
<1>1. matched \in Seq(Range(matched)) /\ Len(matched) \in Nat
  <2>1. IsRows(matched)
    BY <1>0, PickedRows DEF IsReport, filtered, Where
  <2> QED BY <2>1 DEF IsRows
<1> DEFINE n == Len(matched)
           R == Range(matched)
<1>2. n \in Nat /\ matched \in Seq(R)
  BY <1>1
<1> HIDE DEF R
<1>3. /\ upto \in Int /\ upto <= n
      /\ l.limit >= 0 => upto >= 0 /\ upto + Max({n - l.limit, 0}) = n
  <2>1. upto = IF l.limit < 0 THEN n + l.limit ELSE Min({n, l.limit})
    BY <1>0
  <2> HIDE DEF n
  <2> DEFINE limit == l.limit
  <2>2. limit \in Int /\ upto = IF limit < 0 THEN n + limit ELSE Min({n, limit})
    BY <1>0, <2>1
  <2> HIDE DEF limit
  <2>3. /\ upto \in Int /\ upto <= n
        /\ limit >= 0 => upto >= 0 /\ upto + Max({n - limit, 0}) = n
    BY <1>2, <2>2, LimitAdds
  <2> QED BY <2>3 DEF limit
<1>4. rows \in Seq(R) /\ (l.limit >= 0 => Len(rows) = upto)
  BY <1>0, <1>2, <1>3, SliceIsSeq
<1>5. /\ Len(named(planned)) + Len(named(unsupported)) = Len(rows)
      /\ Range(named(planned)) \cap Range(named(unsupported)) = {}
  <2>1. rows \in Seq(R)
    BY <1>4
  <2>2. Halves(rows, chosen, others)
    BY <1>0
  <2>3. planned = Pick(rows, chosen) /\ unsupported = Pick(rows, others)
    OBVIOUS
  <2> HIDE DEF planned, unsupported
  <2> QED BY <2>1, <2>2, <2>3, PlansSplit
<1>7. l.limit >= 0 =>
         Len(a.planned) + Len(a.unsupported) + a.not_planned_because_of_limit = Len(matched)
  BY <1>0, <1>3, <1>4, <1>5
<1>8. Range(a.planned) \cap Range(a.unsupported) = {}
  BY <1>0, <1>5
<1> QED
  BY <1>0, <1>7, <1>8 DEF Accounts

(***************************************************************************)
(* The answers: each is made from the report, or the scan, its tool had.   *)
(***************************************************************************)
LEMMA Responding ==
  ASSUME AnswerInv, NEW is \in {"result", "tool error", "error"}, NEW body,
         Respond(is, body), is = "result" => Made(body, line)
  PROVE  Grows
<1>1. CASE line.request
  <2> DEFINE e == [to |-> read, id |-> read, is |-> is, body |-> body]
  <2>1. out' = Append(out, e) /\ e.to = read
    BY <1>1 DEF Respond, Write
  <2>2. AnsweredWell(e, line)
    BY <1>1 DEF AnsweredWell
  <2> HIDE DEF e
  <2> QED BY <2>1, <2>2 DEF Grows
<1>2. CASE ~ line.request
  BY <1>2 DEF Respond, Grows
<1> QED
  BY <1>1, <1>2

\* What is written where a line could not be dispatched.
LEMMA Refusing ==
  ASSUME NEW id, NEW body, Write(id, "error", body), id = IF line.request THEN read ELSE 0
  PROVE  Grows
<1> DEFINE e == [to |-> read, id |-> id, is |-> "error", body |-> body]
<1>1. out' = Append(out, e) /\ e.to = read
  BY DEF Write
<1>2. AnsweredWell(e, line)
  BY DEF AnsweredWell
<1> HIDE DEF e
<1> QED
  BY <1>1, <1>2 DEF Grows

LEMMA ProtocolGrows ==
  ASSUME ReportInv, Protocol, pc # "reading"
  PROVE  Grows
<1>1. CASE SkipsBlank \/ IgnoresNotification
  BY <1>1 DEF SkipsBlank, IgnoresNotification, Grows
<1>2. CASE RefusesUnreadable
  <2>1. ~ line.request
    BY <1>2, LineIsOne, ServerAssumption DEF RefusesUnreadable, ServerAssumption, ReportInv
  <2> QED BY <1>2, <2>1, Refusing DEF RefusesUnreadable
<1>3. CASE Undispatchable
  BY <1>3, Refusing DEF Undispatchable
<1>4. CASE Answers
  <2>1. Made([says |-> line.method], line)
    BY DEF Made
  <2> QED BY <1>4, <2>1, Responding DEF Answers, ReportInv
<1>5. CASE UnknownMethod
  BY <1>5, Responding DEF UnknownMethod, ReportInv
<1> QED
  BY <1>1, <1>2, <1>3, <1>4, <1>5 DEF Protocol, Takes

LEMMA PlanGrows ==
  ASSUME ReportInv, PlanCleanup
  PROVE  Grows
<1> DEFINE matched == filtered(held.findings, line.filter)
           upto == IF line.limit < 0 THEN Len(matched) + line.limit
                   ELSE Min({Len(matched), line.limit})
           rows == SubSeq(matched, 1, upto)
           chosen == [i \in DOMAIN rows |-> plan_for(rows[i]) # "UNSUPPORTED"]
           others == [i \in DOMAIN rows |-> plan_for(rows[i]) = "UNSUPPORTED"]
           planned == Pick(rows, chosen)
           unsupported == Pick(rows, others)
           a == [tool |-> "plan_cleanup", document |-> held, as |-> caller,
                 planned |-> named(planned), unsupported |-> named(unsupported),
                 monthly_cost_if_all_cleaned |-> Monthly(planned),
                 not_planned_because_of_limit |-> Max({Len(matched) - line.limit, 0})]
<1>1. pc = "planning" /\ held.caller_arn \in {None, caller} /\ Respond("result", a)
  BY DEF PlanCleanup, Foreign, Where
<1>2. IsReport(held) /\ line.tool = "plan_cleanup" /\ line.is = "message"
      /\ line.method = "tools/call"
  BY <1>1 DEF ReportInv, HeldInv, AnswerInv
<1>3. line.limit \in Int
  BY <1>1, <1>2, LineIsOne, ReportAssumption DEF ReportInv, ReportAssumption
<1>4. Halves(rows, chosen, others)
  BY DEF Halves
<1>5. PlanFrom(a, line, matched, upto, rows, chosen, others)
  BY <1>1, <1>2, <1>3, <1>4 DEF PlanFrom
<1>7. Accounts(a, line) => Made(a, line)
  BY DEF Made
<1> HIDE DEF matched, upto, rows, chosen, others, planned, unsupported, a
<1>8. Accounts(a, line)
  BY <1>5, PlanAccounts
<1> QED
  BY <1>1, <1>7, <1>8, Responding DEF ReportInv

LEMMA ScanWritesGrows ==
  ASSUME ReportInv, ScanWrites
  PROVE  Grows
<1> DEFINE a == [tool |-> "scan_account", document |-> held.document,
                 summary |-> summarise(held.document, line.limit),
                 hidden_by_min_cost |-> held.hidden]
<1>1. pc = "writing" /\ Respond("result", a)
  BY DEF ScanWrites
<1>2. Scanned(held.document)
  BY <1>1 DEF ReportInv, HeldInv
<1>3. Made(a, line)
  BY <1>2 DEF Made
<1> HIDE DEF a
<1> QED
  BY <1>1, <1>3, Responding DEF ReportInv

LEMMA EstimateGrows ==
  ASSUME ReportInv, EstimateSavings
  PROVE  Grows
<1> DEFINE a == [tool |-> "estimate_savings", document |-> file,
                 estimate |-> estimate(file, line.filter, line.limit)]
<1>1. Loads(file) /\ Respond("result", a)
  BY DEF EstimateSavings, Readable
<1>2. IsReport(file)
  BY <1>1 DEF ReportInv, FileInv
<1>3. Made(a, line)
  BY <1>2 DEF Made
<1> HIDE DEF a
<1> QED
  BY <1>1, <1>3, Responding DEF ReportInv

LEMMA ToolErrorGrows ==
  ASSUME AnswerInv, NEW why, ToolError(why)
  PROVE  Grows
BY Responding DEF ToolError

LEMMA ToolsGrow ==
  ASSUME ReportInv, Tools
  PROVE  Grows
<1>1. CASE UnknownTool \/ ScanRefused \/ ScanUnwritable \/ CannotRead \/ PlanRefused
  <2>1. \E why : ToolError(why)
    BY <1>1 DEF UnknownTool, ScanRefused, ScanUnwritable, CannotRead, PlanRefused
  <2> QED BY <2>1, ToolErrorGrows DEF ReportInv
<1>2. CASE (\E result \in Results : ScanOpens(result)) \/ PlanReads
  BY <1>2 DEF ScanOpens, PlanReads, Grows
<1>3. CASE ScanWrites
  BY <1>3, ScanWritesGrows
<1>4. CASE EstimateSavings
  BY <1>4, EstimateGrows
<1>5. CASE ExplainFinding
  <2>1. \/ \E why : ToolError(why)
        \/ \E body : body.tool = "explain_finding" /\ Respond("result", body)
    <3> DEFINE body(check) ==
                 [tool |-> "explain_finding", check |-> check, cleanable |-> cleanable(check)]
    <3>1. \A check : body(check).tool = "explain_finding"
      OBVIOUS
    <3> HIDE DEF body
    <3>2. (\E why : ToolError(why)) \/ \E check : Respond("result", body(check))
      BY <1>5 DEF ExplainFinding, body
    <3> QED BY <3>1, <3>2
  <2>2. \A body : body.tool = "explain_finding" => Made(body, line)
    BY DEF Made
  <2> QED BY <2>1, <2>2, ToolErrorGrows, Responding DEF ReportInv
<1>6. CASE ListChecks
  <2> DEFINE body == [tool |-> "list_checks",
                      checks |-> {c \in DOMAIN Registry : line.cleanable_only => cleanable(c)}]
  <2>1. Respond("result", body)
    BY <1>6 DEF ListChecks
  <2>2. Made(body, line)
    BY DEF Made
  <2> HIDE DEF body
  <2> QED BY <2>1, <2>2, Responding DEF ReportInv
<1>7. CASE PlanCleanup
  BY <1>7, PlanGrows
<1> QED
  BY <1>1, <1>2, <1>3, <1>4, <1>5, <1>6, <1>7 DEF Tools

\* Whatever happens, the lines sent stay what they are, and answers are only
\* ever added to the line in hand.
LEMMA OutStep ==
  ASSUME ReportInv, [Next]_vars
  PROVE  OutInv' /\ Len(sent') <= MaxLines
         /\ (pc # "reading" /\ read' = read => line' = line)
<1>1. /\ DOMAIN sent = 1 .. Len(sent) /\ Len(sent) \in Nat
      /\ DOMAIN sent' = 1 .. Len(sent') /\ Len(sent) <= Len(sent')
      /\ Len(sent') <= MaxLines /\ \A n \in DOMAIN sent : sent'[n] = sent[n]
  <2>1. \A l \in Lines : Sends(l) =>
          /\ sent' = Append(sent, l) /\ Len(sent) < MaxLines
          /\ DOMAIN sent = 1 .. Len(sent) /\ Len(sent) \in Nat
          /\ Len(sent') = Len(sent) + 1 /\ DOMAIN sent' = 1 .. Len(sent')
          /\ \A n \in DOMAIN sent : sent'[n] = sent[n]
    BY Appended DEF Sends, ReportInv, AnswerInv
  <2>2. CASE sent' = sent
    BY <2>2 DEF ReportInv, AnswerInv, IsSeq
  <2>3. (\E l \in Lines : Sends(l)) \/ sent' = sent
    BY DEF Next, Server, Protocol, Tools, Operator, Takes, SkipsBlank, RefusesUnreadable,
           Undispatchable, Answers, IgnoresNotification, UnknownMethod, UnknownTool, ScanRefused,
           ScanUnwritable, ScanOpens, ScanWrites, CannotRead, EstimateSavings, ExplainFinding,
           ListChecks, PlanReads, PlanRefused, PlanCleanup, OperatorScans, OperatorWrites,
           OperatorKilled, Idle, clientVars, vars
  <2>4. MaxLines \in Nat
    BY ServerAssumption DEF ServerAssumption
  <2> QED BY <2>1, <2>2, <2>3, <2>4
<1>2. Grows
  <2>1. CASE Server
    <3>1. CASE Protocol /\ pc # "reading"
      BY <3>1, ProtocolGrows
    <3>2. CASE Protocol /\ pc = "reading"
      BY <3>2 DEF Protocol, Takes, SkipsBlank, RefusesUnreadable, Undispatchable, Answers,
                  Handles, IgnoresNotification, UnknownMethod, Grows
    <3>3. CASE Tools
      BY <3>3, ToolsGrow
    <3> QED BY <2>1, <3>1, <3>2, <3>3 DEF Server
  <2>2. CASE ~ Server
    BY <2>2 DEF Next, Operator, OperatorScans, OperatorWrites, OperatorKilled, Sends, serverVars,
                vars, Grows
  <2> QED BY <2>1, <2>2
<1>3. /\ IsSeq(out) /\ read \in 0 .. Len(sent) /\ (pc # "reading" => read > 0)
      /\ \A i \in DOMAIN out : out[i].to \in DOMAIN sent
  <2>1. IsSeq(out) /\ read \in 0 .. Len(sent) /\ (pc # "reading" => read > 0)
        /\ {out[i].to : i \in DOMAIN out} = {n \in Done : Owes(sent[n])}
    BY DEF ReportInv, AnswerInv
  <2>2. Done \subseteq DOMAIN sent
    BY <1>1, <2>1 DEF Done
  <2> QED BY <2>1, <2>2
<1>4. \A i \in DOMAIN out : AnsweredWell(out[i], sent'[out[i].to])
  BY <1>1, <1>3 DEF ReportInv, OutInv
<1>5. CASE out' = out
  BY <1>1, <1>3, <1>4, <1>5 DEF OutInv, line
<1>6. ASSUME NEW e, out' = Append(out, e), e.to = read, AnsweredWell(e, line), pc # "reading"
      PROVE  OutInv'
  <2>1. /\ DOMAIN out' = 1 .. Len(out) + 1 /\ DOMAIN out = 1 .. Len(out)
        /\ \A i \in DOMAIN out : out'[i] = out[i]
        /\ out'[Len(out) + 1] = e /\ Len(out) \in Nat
    BY <1>3, <1>6, Appended
  <2>2. sent'[e.to] = line
    BY <1>1, <1>3, <1>6 DEF line
  <2>3. \A i \in DOMAIN out' : AnsweredWell(out'[i], sent'[out'[i].to])
    <3> SUFFICES ASSUME NEW i \in DOMAIN out'
                 PROVE  AnsweredWell(out'[i], sent'[out'[i].to])
      OBVIOUS
    <3>1. CASE i \in DOMAIN out
      BY <1>4, <2>1, <3>1
    <3>2. CASE i = Len(out) + 1
      BY <1>6, <2>1, <2>2, <3>2
    <3> QED BY <2>1, <3>1, <3>2
  <2> QED BY <2>3 DEF OutInv
<1>7. pc = "reading" => out' = out
  BY DEF Next, Server, Protocol, Tools, Operator, Takes, SkipsBlank, RefusesUnreadable,
         Undispatchable, Answers, IgnoresNotification, UnknownMethod, UnknownTool, ScanRefused,
         ScanUnwritable, ScanOpens, ScanWrites, CannotRead, EstimateSavings, ExplainFinding,
         ListChecks, PlanReads, PlanRefused, PlanCleanup, OperatorScans, OperatorWrites,
         OperatorKilled, Handles, Called, Sends, serverVars, vars
<1>8. pc # "reading" /\ read' = read => line' = line
  BY <1>1, <1>3 DEF line
<1> QED
  BY <1>1, <1>2, <1>5, <1>6, <1>7, <1>8 DEF Grows

(***************************************************************************)
(* The report file, which the server and the operator write.               *)
(***************************************************************************)
LEMMA WrittenIsReport ==
  ASSUME NEW f, NEW g, NEW document, Scanned(document), g \in Written(f, document)
  PROVE  (Loads(g) => IsReport(g)) /\ (g = Torn \/ Loads(g))
<1>1. IsReport(document) /\ Loads(document)
  BY ScannedIsReport DEF IsReport
<1>2. g = document \/ g = Torn
  BY DEF Written
<1> QED
  BY <1>1, <1>2, NotReports

LEMMA FileStep ==
  ASSUME ReportInv, [Next]_vars
  PROVE  FileInv'
<1>1. CASE file' = file
  BY <1>1 DEF ReportInv, FileInv
<1>2. CASE file' = Torn
  BY <1>2, NotReports DEF FileInv, Loads
<1>3. CASE ScanWrites
  <2>1. Scanned(held.document) /\ file' \in Written(file, held.document)
    BY <1>3 DEF ScanWrites, ReportInv, HeldInv
  <2> QED BY <2>1, WrittenIsReport DEF FileInv, Loads, IsReport, AddsUp
<1>4. CASE OperatorWrites
  <2> DEFINE document == to_json(typing.result, typing.caller)
  <2>1. Typed(typing) /\ file' \in Written(file, document)
    BY <1>4 DEF OperatorWrites, ReportInv, OperatorInv
  <2>2. Scanned(document)
    BY <2>1 DEF Typed, Scanned
  <2> HIDE DEF document
  <2> QED BY <2>1, <2>2, WrittenIsReport DEF FileInv, Loads, IsReport, AddsUp
<1> QED
  BY <1>1, <1>2, <1>3, <1>4
  DEF Next, Server, Protocol, Tools, Operator, Takes, SkipsBlank, RefusesUnreadable,
      Undispatchable, Answers, IgnoresNotification, UnknownMethod, UnknownTool, ScanRefused,
      ScanUnwritable, ScanOpens, CannotRead, EstimateSavings, ExplainFinding,
      ListChecks, PlanReads, PlanRefused, PlanCleanup, OperatorScans,
      OperatorKilled, Sends, Idle, vars

(***************************************************************************)
(* The operator.                                                           *)
(***************************************************************************)
LEMMA OperatorStep ==
  ASSUME ReportInv, [Next]_vars
  PROVE  OperatorInv'
<1>1. CASE UNCHANGED <<typing, shown>>
  BY <1>1 DEF ReportInv, OperatorInv
<1>2. ASSUME NEW asked \in Scans, NEW result \in Results, OperatorScans(asked, result)
      PROVE  OperatorInv'
  <2> DEFINE kept == Hide(result, asked.min)
             hidden == Len(result.findings) - Len(kept.findings)
             t == [result |-> kept, caller |-> Callers[asked.profile], limit |-> asked.limit,
                   console |-> render(kept, asked.limit, hidden)]
  <2>1. typing' = t /\ shown' = shown
    BY <1>2 DEF OperatorScans
  <2>2. FromScan(kept, hidden)
    BY DEF FromScan
  <2>3. asked.limit \in Int
    BY ReportAssumption DEF ReportAssumption
  <2>4. Typed(t)
    <3> HIDE DEF kept, hidden
    <3> QED BY <2>2, <2>3 DEF Typed
  <2> HIDE DEF t
  <2> QED BY <2>1, <2>4 DEF ReportInv, OperatorInv
<1>3. CASE OperatorWrites
  <2> DEFINE s == [result |-> typing.result, limit |-> typing.limit,
                   console |-> typing.console, json |-> to_json(typing.result, typing.caller),
                   html |-> to_html(typing.result), script |-> to_script(typing.result),
                   exit |-> IF completely_failed(typing.result) THEN 1 ELSE 0]
  <2>1. shown' = s /\ typing' = None /\ Typed(typing)
    BY <1>3 DEF OperatorWrites, ReportInv, OperatorInv
  <2>2. Typed(s)
    BY <2>1 DEF Typed
  <2>3. Put(s)
    BY <2>2 DEF Put
  <2> HIDE DEF s
  <2> QED BY <2>1, <2>3 DEF OperatorInv
<1>4. CASE OperatorKilled
  BY <1>4 DEF OperatorKilled, ReportInv, OperatorInv
<1>5. CASE ~ Operator
  BY <1>1, <1>5
  DEF Next, Server, Protocol, Tools, Takes, SkipsBlank, RefusesUnreadable,
      Undispatchable, Answers, IgnoresNotification, UnknownMethod, UnknownTool, ScanRefused,
      ScanUnwritable, ScanOpens, ScanWrites, CannotRead, EstimateSavings, ExplainFinding,
      ListChecks, PlanReads, PlanRefused, PlanCleanup, Sends, Idle, operatorVars, vars
<1> QED
  BY <1>2, <1>3, <1>4, <1>5 DEF Operator

(***************************************************************************)
(* What the server has in hand.                                            *)
(***************************************************************************)
LEMMA HeldStep ==
  ASSUME ReportInv, [Next]_vars
  PROVE  HeldInv'
<1>1. CASE pc' \in {"reading", "handling"} /\ held' = None
  BY <1>1 DEF HeldInv
<1>2. CASE Protocol
  <2>1. pc \in {"reading", "handling"} /\ pc' \in {"reading", "handling"}
    BY <1>2 DEF Protocol, Takes, SkipsBlank, RefusesUnreadable, Undispatchable, Answers, Handles,
                IgnoresNotification, UnknownMethod, Respond
  <2>2. held' = held \/ held' = None
    BY <1>2 DEF Protocol, Takes, SkipsBlank, RefusesUnreadable, Undispatchable, Answers,
                IgnoresNotification, UnknownMethod, Respond
  <2> QED BY <1>1, <2>1, <2>2 DEF ReportInv, HeldInv
<1>3. ASSUME NEW result \in Results, ScanOpens(result)
      PROVE  HeldInv'
  <2> DEFINE kept == Hide(result, line.min)
             document == to_json(kept, caller)
             hidden == Len(result.findings) - Len(kept.findings)
  <2>1. pc' = "writing" /\ held' = [document |-> document, hidden |-> hidden]
    BY <1>3 DEF ScanOpens
  <2>2. FromScan(kept, hidden)
    BY DEF FromScan
  <2>3. Scanned(document)
    BY <2>2 DEF Scanned
  <2> HIDE DEF document, hidden
  <2> QED BY <2>1, <2>3 DEF HeldInv
<1>4. CASE PlanReads
  <2>1. pc = "handling" /\ pc' = "planning" /\ held' = file /\ Loads(file)
        /\ read' = read /\ line.tool = "plan_cleanup"
    BY <1>4 DEF PlanReads, Called, Handles, Readable
  <2>2. IsReport(held')
    BY <2>1 DEF ReportInv, FileInv
  <2>3. line' = line
    BY <2>1, OutStep
  <2> QED BY <2>1, <2>2, <2>3 DEF HeldInv, IsReport, Loads, AddsUp
<1>5. CASE Tools /\ ~ PlanReads /\ ~ (\E result \in Results : ScanOpens(result))
  <2>1. pc' = "reading" /\ held' = None
    BY <1>5 DEF Tools, UnknownTool, ScanRefused, ScanUnwritable, ScanWrites, CannotRead,
                EstimateSavings, ExplainFinding, ListChecks, PlanRefused, PlanCleanup,
                ToolError, Respond
  <2> QED BY <1>1, <2>1
<1>6. CASE UNCHANGED <<pc, held, read>>
  <2>1. pc # "reading" => line' = line
    BY <1>6, OutStep
  <2> QED BY <1>6, <2>1 DEF ReportInv, HeldInv, IsReport, Loads, AddsUp
<1>7. CASE ~ Server
  BY <1>6, <1>7
  DEF Next, Operator, OperatorScans, OperatorWrites, OperatorKilled, Sends, serverVars, vars
<1> QED
  BY <1>2, <1>3, <1>4, <1>5, <1>7 DEF Server

LEMMA ReportInvStep == ReportInv /\ [Next]_vars => ReportInv'
<1> SUFFICES ASSUME ReportInv, [Next]_vars PROVE ReportInv'
  OBVIOUS
<1>1. AnswerInv'
  BY EveryStep DEF Allowed, ReportInv
<1> QED
  BY <1>1, OutStep, FileStep, OperatorStep, HeldStep DEF ReportInv

LEMMA InitReports == Init => ReportInv
<1> SUFFICES ASSUME Init PROVE ReportInv
  OBVIOUS
<1>1. AnswerInv
  BY InitAnswers
<1>2. Len(sent) <= MaxLines /\ OutInv
  <2>1. sent = <<>> /\ out = <<>> /\ MaxLines \in Nat
    BY ServerAssumption DEF Init, ServerAssumption
  <2>2. Len(sent) = 0 /\ DOMAIN out = {}
    BY <2>1
  <2> QED BY <2>1, <2>2 DEF OutInv
<1>3. FileInv
  <2>1. file \in Files
    BY DEF Init
  <2>2. Loads(file) => Scanned(file)
    <3> SUFFICES ASSUME Loads(file) PROVE Scanned(file)
      OBVIOUS
    <3>1. PICK asked \in Scans, result \in Results :
            file = to_json(Hide(result, asked.min), file.caller_arn)
      BY <2>1, ReportAssumption DEF ReportAssumption
    <3> DEFINE kept == Hide(result, asked.min)
               hidden == Len(result.findings) - Len(kept.findings)
    <3>2. FromScan(kept, hidden)
      BY DEF FromScan
    <3> HIDE DEF hidden
    <3> QED BY <3>1, <3>2 DEF Scanned
  <2> QED BY <2>1, <2>2, ScannedIsReport DEF FileInv
<1>4. OperatorInv /\ HeldInv
  BY DEF Init, OperatorInv, HeldInv
<1> QED
  BY <1>1, <1>2, <1>3, <1>4 DEF ReportInv

LEMMA ReportsHold == Spec => []ReportInv
BY ReportInvStep, InitReports, PTL DEF Spec

(***************************************************************************)
(* What follows.                                                           *)
(***************************************************************************)
LEMMA TypeOKHolds == ReportInv => TypeOK
<1> SUFFICES ASSUME ReportInv PROVE TypeOK
  OBVIOUS
<1>1. /\ IsSeq(sent) /\ Range(sent) \subseteq Lines /\ Len(sent) <= MaxLines
      /\ read \in 0 .. Len(sent) /\ pc \in {"reading", "handling", "writing", "planning"}
      /\ {out[i].to : i \in DOMAIN out} = {n \in Done : Owes(sent[n])}
  BY DEF ReportInv, AnswerInv
<1>2. sent \in Seq(Lines)
  <2>1. sent \in Seq({sent[i] : i \in DOMAIN sent}) /\ {sent[i] : i \in DOMAIN sent} \subseteq Lines
    BY <1>1 DEF IsSeq, Range
  <2> DEFINE S == {sent[i] : i \in DOMAIN sent}
  <2>2. sent \in Seq(S) /\ S \subseteq Lines
    BY <2>1
  <2> HIDE DEF S
  <2> QED BY <2>2
<1>3. \A i \in DOMAIN out : out[i].to \in 1 .. read
  <2>1. Done \subseteq 1 .. read
    BY <1>1 DEF Done
  <2> QED BY <1>1, <2>1
<1>4. \A i \in DOMAIN out :
        /\ out[i].is \in {"result", "tool error", "error"}
        /\ out[i].id = IF sent[out[i].to].request THEN out[i].to ELSE 0
  BY DEF ReportInv, OutInv, AnsweredWell
<1>5. /\ pc \in {"reading", "handling"} => held = None
      /\ pc = "planning" => Loads(held)
      /\ pc = "writing" => DOMAIN held = {"document", "hidden"}
      /\ file \in {Absent, Torn} \/ Loads(file) \/ file \in Files
  BY DEF ReportInv, HeldInv, FileInv, IsReport
<1> QED
  BY <1>1, <1>2, <1>3, <1>4, <1>5 DEF TypeOK

\* What a tool gave is what one of the answers says.
LEMMA GivenIsMade ==
  ASSUME ReportInv, NEW tool, NEW a \in Given(tool)
  PROVE  "tool" \in DOMAIN a /\ a.tool = tool /\ \E l : Made(a, l)
BY DEF ReportInv, OutInv, AnsweredWell, Given

LEMMA ScanAnswer ==
  ASSUME ReportInv, NEW a \in Given("scan_account")
  PROVE  Scanned(a.document) /\ \E limit : a.summary = summarise(a.document, limit)
BY GivenIsMade DEF Made

\* The figures of the operator's scan.
LEMMA PutFigures ==
  ASSUME ReportInv, shown # None
  PROVE  LET total == shown.json.monthly_cost
         IN /\ AddsUp(shown.json)
            /\ shown.console.total = total /\ All(shown.console.summary) = total
            /\ shown.html.total = total /\ All(shown.html.summary) = total
            /\ shown.script.total = total
            /\ shown.html.rows = Len(shown.script.commands)
<1> DEFINE r == shown.result
<1>1. Put(shown)
  BY DEF ReportInv, OperatorInv
<1>2. PICK hidden : FromScan(r, hidden) /\ shown.console = render(r, shown.limit, hidden)
  BY <1>1 DEF Put, Typed
<1>3. PICK who : shown.json = to_json(r, who)
  BY <1>1 DEF Put
<1>4. shown.html = to_html(r) /\ shown.script = to_script(r)
  BY <1>1 DEF Put
<1> HIDE DEF r
<1>5. IsScanResult(r)
  BY <1>2, FromScanIsScan
<1>6. AddsUp(shown.json)
  <2>1. Scanned(shown.json)
    BY <1>2, <1>3 DEF Scanned
  <2> QED BY <2>1, ScannedIsReport DEF IsReport
<1>7. All(Tally(r.findings, "check")) = total_monthly_cost(r)
  BY <1>5, ScanTotal, AllIsSums
<1>8. shown.json.monthly_cost = total_monthly_cost(r)
  BY <1>3 DEF to_json
<1>9. shown.console.total = total_monthly_cost(r)
      /\ shown.console.summary = Tally(r.findings, "check")
  BY <1>2 DEF render, summary_table
<1>10. /\ shown.html.total = total_monthly_cost(r)
       /\ shown.html.summary = Tally(r.findings, "check")
       /\ shown.html.rows = Len(r.findings)
       /\ shown.script.total = total_monthly_cost(r)
       /\ shown.script.commands = [i \in DOMAIN r.findings |-> r.findings[i].id]
  BY <1>4 DEF to_html, to_script
<1>11. Len(shown.script.commands) = Len(r.findings)
  <2>1. DOMAIN r.findings = 1 .. Len(r.findings) /\ Len(r.findings) \in Nat
    BY <1>5 DEF IsScanResult
  <2> QED BY <1>10, <2>1, LenProperties
<1> QED
  BY <1>6, <1>7, <1>8, <1>9, <1>10, <1>11

LEMMA ScanFigures ==
  ASSUME ReportInv, NEW a \in Given("scan_account")
  PROVE  /\ AddsUp(a.document)
         /\ a.summary.monthly_cost = All(a.summary.by_region)
         /\ a.summary.monthly_cost = Monthly(filtered(a.document.findings, Unfiltered))
<1> DEFINE d == a.document
<1>1. IsReport(d)
  BY ScanAnswer, ScannedIsReport
<1>2. AddsUp(d) /\ IsRows(d.findings) /\ d.monthly_cost = Monthly(d.findings)
  BY <1>1 DEF IsReport, AddsUp
<1>3. PICK limit : a.summary = summarise(d, limit)
  BY ScanAnswer
<1>6. a.summary.monthly_cost = d.monthly_cost
      /\ a.summary.by_region = group(d.findings, "region")
  BY <1>3 DEF summarise
<1>4. All(group(d.findings, "region")) = Monthly(d.findings)
  BY <1>2, GroupAddsUp, AllIsSums
<1>5. filtered(d.findings, Unfiltered) = d.findings
  BY <1>2, UnfilteredIsAll
<1> QED
  BY <1>2, <1>4, <1>5, <1>6

LEMMA EstimateFigures ==
  ASSUME ReportInv, NEW a \in Given("estimate_savings")
  PROVE  LET matched == a.estimate.matched
         IN /\ matched.monthly_cost + a.estimate.not_matched.monthly_cost = a.document.monthly_cost
            /\ matched.count + a.estimate.not_matched.count = a.document.finding_count
            /\ {All(a.estimate.by_check), All(a.estimate.by_region),
                All(a.estimate.by_resource_type)} = {matched.monthly_cost}
<1> DEFINE d == a.document
<1>1. IsReport(d) /\ \E filter, limit : a.estimate = estimate(d, filter, limit)
  BY GivenIsMade DEF Made
<1>2. PICK filter, limit : a.estimate = estimate(d, filter, limit)
  BY <1>1
<1> DEFINE rows == filtered(d.findings, filter)
<1>3. /\ IsRows(d.findings) /\ d.monthly_cost = Monthly(d.findings)
      /\ d.finding_count = Len(d.findings)
  BY <1>1 DEF IsReport, AddsUp
<1>4. IsRows(rows)
  BY <1>3, PickedRows DEF filtered, Where
<1>5. /\ a.estimate.matched.count = Len(rows)
      /\ a.estimate.matched.monthly_cost = Monthly(rows)
      /\ a.estimate.not_matched.count = Len(d.findings) - Len(rows)
      /\ a.estimate.not_matched.monthly_cost = Monthly(d.findings) - Monthly(rows)
      /\ a.estimate.by_check = group(rows, "check")
      /\ a.estimate.by_region = group(rows, "region")
      /\ a.estimate.by_resource_type = group(rows, "resource_type")
  <2>1. totals(rows).count = Len(rows) /\ totals(rows).monthly_cost = Monthly(rows)
    BY DEF totals
  <2>2. /\ a.estimate.matched = totals(rows)
        /\ a.estimate.not_matched = [count |-> Len(d.findings) - Len(rows),
                                     monthly_cost |-> Monthly(d.findings) - Monthly(rows)]
        /\ a.estimate.by_check = group(rows, "check")
        /\ a.estimate.by_region = group(rows, "region")
        /\ a.estimate.by_resource_type = group(rows, "resource_type")
    BY <1>2 DEF estimate
  <2> HIDE DEF d, rows
  <2> QED BY <2>1, <2>2
<1> HIDE DEF d, rows
<1>6. /\ All(group(rows, "check")) = Monthly(rows) /\ All(group(rows, "region")) = Monthly(rows)
      /\ All(group(rows, "resource_type")) = Monthly(rows)
      /\ Monthly(rows) \in Int /\ Monthly(d.findings) \in Int
  BY <1>3, <1>4, GroupAddsUp, AllIsSums
<1>7. Len(rows) \in Nat /\ Len(d.findings) \in Nat
  BY <1>3, <1>4 DEF IsRows
<1> QED
  BY <1>3, <1>5, <1>6, <1>7 DEF d

LEMMA SameFiguresHolds == ReportInv => SameFigures
BY PutFigures, ScanFigures, EstimateFigures DEF SameFigures

LEMMA PlansAccountHolds == ReportInv => PlansAccountForReport
<1> SUFFICES ASSUME ReportInv, NEW i \in DOMAIN out, out[i].is = "result",
                    out[i].body \in Given("plan_cleanup")
             PROVE  Accounts(out[i].body, sent[out[i].to])
  BY DEF PlansAccountForReport, Accounts
<1>1. "tool" \in DOMAIN out[i].body /\ out[i].body.tool = "plan_cleanup"
  BY GivenIsMade
<1>2. Made(out[i].body, sent[out[i].to])
  BY DEF ReportInv, OutInv, AnsweredWell
<1> QED
  BY <1>1, <1>2 DEF Made

LEMMA NoFalseAllClearHolds == ReportInv => NoFalseAllClear
<1> SUFFICES ASSUME ReportInv PROVE NoFalseAllClear
  OBVIOUS
<1>1. ASSUME shown # None
      PROVE  LET r == shown.result
                 blind == r.attempted > 0 /\ r.attempted = r.errors + r.unavailable
             IN /\ {shown.console.says = "nothing could be scanned", shown.html.banner,
                    ~ shown.json.complete, shown.exit = 1} = {blind}
                /\ shown.console.says = "no waste" => r.findings = <<>> /\ r \in Results
  <2> DEFINE r == shown.result
             blind == r.attempted > 0 /\ r.attempted = r.errors + r.unavailable
  <2>1. Put(shown)
    BY <1>1 DEF ReportInv, OperatorInv
  <2>2. PICK hidden : FromScan(r, hidden) /\ shown.console = render(r, shown.limit, hidden)
    BY <2>1 DEF Put, Typed
  <2>3. PICK who : shown.json = to_json(r, who)
    BY <2>1 DEF Put
  <2>4. shown.html = to_html(r) /\ shown.exit = IF completely_failed(r) THEN 1 ELSE 0
    BY <2>1 DEF Put
  <2>5. /\ IsScanResult(r) /\ hidden \in Int
        /\ (r.findings = <<>> /\ ~ (hidden > 0)) => r \in Results
    BY <2>2, FromScanIsScan
  <2>6. completely_failed(r) \in BOOLEAN /\ (completely_failed(r) <=> blind)
    BY DEF completely_failed
  <2>7. completely_failed(r) => r.findings = <<>>
    BY <2>5 DEF IsScanResult
  <2>8. shown.console.says = verdict(r, hidden)
    BY <2>2 DEF render
  <2> HIDE DEF blind, r
  <2>9. shown.console.says = "nothing could be scanned" <=> completely_failed(r)
    BY <2>7, <2>8 DEF verdict
  <2>10. shown.console.says = "no waste" => r.findings = <<>> /\ r \in Results
    BY <2>5, <2>8 DEF verdict
  <2>11. /\ shown.html.banner = completely_failed(r)
         /\ shown.json.complete = ~ completely_failed(r)
    BY <2>3, <2>4 DEF to_html, to_json
  <2>12. shown.exit = 1 <=> completely_failed(r)
    BY <2>4
  <2>13. {shown.console.says = "nothing could be scanned", shown.html.banner,
          ~ shown.json.complete, shown.exit = 1} = {blind}
    <3>1. (shown.console.says = "nothing could be scanned") = completely_failed(r)
      BY <2>6, <2>9
    <3>2. (~ shown.json.complete) = completely_failed(r)
      BY <2>6, <2>11
    <3>3. (shown.exit = 1) = completely_failed(r)
      BY <2>6, <2>12
    <3>4. completely_failed(r) = blind
      BY <2>6 DEF blind
    <3> QED BY <2>11, <3>1, <3>2, <3>3, <3>4, Zenon
  <2> QED BY <2>10, <2>13 DEF r, blind
<1>2. ASSUME NEW a \in Given("scan_account")
      PROVE  a.summary.warning = ~ a.document.complete
  <2>1. PICK limit : a.summary = summarise(a.document, limit)
    BY ScanAnswer
  <2> QED BY <2>1 DEF summarise
<1> QED
  BY <1>1, <1>2 DEF NoFalseAllClear

LEMMA EveryCheckShownHolds == ReportInv => EveryCheckShown
<1> SUFFICES ASSUME ReportInv, shown # None PROVE EveryCheckShown
  BY DEF EveryCheckShown
<1> DEFINE r == shown.result
           limit == shown.limit
<1>1. Put(shown)
  BY DEF ReportInv, OperatorInv
<1>2. PICK hidden : FromScan(r, hidden) /\ shown.console = render(r, limit, hidden)
  BY <1>1 DEF Put, Typed
<1>3. limit \in Int /\ IsScanResult(r)
  BY <1>1, <1>2, FromScanIsScan DEF Put, Typed
<1>4. shown.console.rows = representative(r.findings, limit)
  BY <1>2 DEF render
<1> HIDE DEF r, limit
<1> DEFINE fs == r.findings
           rows == representative(fs, limit)
           names == {fs[i].check : i \in DOMAIN fs}
<1>5. /\ Len(rows) = IF limit <= 0 THEN Len(fs) ELSE Min({limit, Len(fs)})
      /\ IsInjective(rows) /\ Range(rows) \subseteq Range(fs)
      /\ (limit <= 0 \/ Cardinality(names) <= limit) =>
           \A c \in names :
             \E i \in DOMAIN rows :
               rows[i].check = c /\ \A f \in Range(fs) : f.check = c => f.cost <= rows[i].cost
  BY <1>3, TableShowsEveryCheck
<1>6. shown.console.rows = rows
  BY <1>4
<1> QED
  BY <1>5, <1>6 DEF EveryCheckShown, r, limit

\* The request loop (mcp_server.py, serve and dispatch): whatever comes, each
\* answer is for a line that was taken and carries its id, and what a tool has
\* in hand is a report or a scan's document, and gone when it has answered.
THEOREM ServerTyped == Spec => []TypeOK
BY ReportsHold, TypeOKHolds, PTL

\* engine.py, report.py, html.py and the tools: for any findings of
\* any costs, the total, its sections by check, by region and by resource type,
\* and the parts and remainder of any filter agree to the cent.
THEOREM FiguresAgree == Spec => []SameFigures
BY ReportsHold, SameFiguresHolds, PTL

\* plan_cleanup: for any report, filter and limit and whatever is written to
\* the file meanwhile, the plan is made from the caller's own report, lists no
\* finding both ways, and leaves none out but by a negative limit.
THEOREM PlansAccount == Spec => []PlansAccountForReport
BY ReportsHold, PlansAccountHolds, PTL

\* report.py, html.py, cli.py: every output of a scan that reached nothing says
\* so, and none of any other; "no waste" is said of an unfiltered empty result.
THEOREM BlindScansAreSaid == Spec => []NoFalseAllClear
BY ReportsHold, NoFalseAllClearHolds, PTL

\* report.representative: for any findings and any limit, the table is full,
\* repeats nothing, and has the costliest finding of each check if it has a
\* row for each check.
THEOREM ChecksAreShown == Spec => []EveryCheckShown
BY ReportsHold, EveryCheckShownHolds, PTL
===============================================================================
