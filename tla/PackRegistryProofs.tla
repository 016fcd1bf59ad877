--------------------------- MODULE PackRegistryProofs ---------------------------
(***************************************************************************)
(* Proofs about PackRegistry for every list of packs, whatever their       *)
(* modules register, import or raise.                                      *)
(***************************************************************************)
EXTENDS PackRegistry, SequenceTheorems, TLAPS

(***************************************************************************)
(* Where the process is: outside an import nothing is on the stack, and a  *)
(* candidate that was tried is one of the list.                            *)
(***************************************************************************)
AtACandidate ==
  /\ pc # "importing" => stack = <<>>
  /\ pc = "idle" => at = 0
  /\ pc \in {"choosing", "imported", "failed"} => at # 0
  /\ pc \in {"importing", "imported", "failed"} => at <= Len(Candidates)

\* What a module on the stack has executed has taken effect.
RunUpTo(f) ==
  /\ f.at <= Len(Body[f.module]) + 1
  /\ \A k \in 1 .. f.at - 1 : InEffect(Body[f.module][k])

RunSoFar == \A i \in DOMAIN stack : RunUpTo(stack[i])

IInv == TypeOK /\ AtACandidate /\ RunSoFar /\ ModulesComplete

-------------------------------------------------------------------------------
LEMMA BelowIsShorter ==
  ASSUME NEW S, NEW s \in Seq(S), s # <<>>
  PROVE  /\ SubSeq(s, 1, Len(s) - 1) \in Seq(S)
         /\ Len(SubSeq(s, 1, Len(s) - 1)) = Len(s) - 1
         /\ \A i \in 1 .. Len(s) - 1 : SubSeq(s, 1, Len(s) - 1)[i] = s[i]
         /\ Len(s) \in Nat \ {0} /\ s[Len(s)] \in S
<1>1. Len(s) \in Nat \ {0} /\ \A i \in 1 .. Len(s) : s[i] \in S
  OBVIOUS
<1>2. PICK n \in Nat : n + 1 = Len(s)
  BY <1>1
<1>3. Len(s) - 1 = n
  BY <1>2
<1>4. n \in Int /\ \A i \in 1 .. n : s[i] \in S
  BY <1>1, <1>2
<1>5. /\ SubSeq(s, 1, n) \in Seq(S)
      /\ Len(SubSeq(s, 1, n)) = IF 1 <= n THEN n - 1 + 1 ELSE 0
      /\ \A i \in 1 .. n - 1 + 1 : SubSeq(s, 1, n)[i] = s[1 + i - 1]
  BY <1>4, SubSeqProperties
<1> DEFINE t == SubSeq(s, 1, n)
<1> HIDE DEF t
<1>6. Len(t) = n
  <2>1. Len(t) = IF 1 <= n THEN n - 1 + 1 ELSE 0
    BY <1>5 DEF t
  <2> QED  BY <1>2, <2>1
<1>7. \A i \in 1 .. n : t[i] = s[i]
  <2>1. \A i \in 1 .. n - 1 + 1 : t[i] = s[1 + i - 1]
    BY <1>5 DEF t
  <2> QED  BY <1>2, <2>1
<1>8. t \in Seq(S) /\ t = SubSeq(s, 1, Len(s) - 1)
  BY <1>3, <1>5 DEF t
<1> QED  BY <1>1, <1>2, <1>3, <1>6, <1>7, <1>8

LEMMA TopType ==
  ASSUME TypeOK, stack # <<>>
  PROVE  top \in StackFrame /\ Below \in Seq(StackFrame)
BY BelowIsShorter DEF TypeOK, top, Below

LEMMA BodyType ==
  ASSUME NEW m \in Module, NEW k \in DOMAIN Body[m]
  PROVE  /\ Body[m] \in Seq(Statement) /\ Body[m][k] \in Statement
         /\ Body[m][k].does = "import" => Body[m][k].what \in Module
         /\ Body[m][k].does = "check" => Body[m][k].what \in Check
<1>1. Body[m] \in Seq(Statement) /\ Body[m][k] \in Statement
  BY PackAssumption
<1>2. Body[m][k].does = "import" => Body[m][k].what \in Module
  BY PackAssumption
<1>3. ASSUME Body[m][k].does = "check" PROVE Body[m][k].what \in Check
  <2>1. Body[m][k] \in {t \in Elements(Body[m]) : t.does = "check"}
    BY <1>3 DEF Elements
  <2>2. Body[m][k].what \in Does(m, "check")
    BY <2>1 DEF Does
  <2> QED  BY <2>2 DEF Check
<1> QED  BY <1>1, <1>2, <1>3

\* The statement being executed.
LEMMA StatementType ==
  ASSUME TypeOK, InStatement
  PROVE  /\ top \in StackFrame /\ Below \in Seq(StackFrame) /\ stack # <<>>
         /\ statement \in Statement
         /\ statement.does = "import" => statement.what \in Module
         /\ statement.does = "check" => statement.what \in Check
<1>1. top \in StackFrame /\ Below \in Seq(StackFrame) /\ stack # <<>>
  BY TopType DEF InStatement, Importing
<1>2. top.module \in Module /\ top.at \in DOMAIN Body[top.module]
  BY <1>1 DEF InStatement, StackFrame
<1> QED  BY <1>1, <1>2, BodyType DEF statement

LEMMA CandidatesType ==
  ASSUME TypeOK
  PROVE  /\ Candidates \in Seq(EntryPoint)
         /\ \A i \in 1 .. Len(Candidates) :
              Candidates[i].name \in AnyName /\ Candidates[i].module \in Module
<1>1. Builtins \in Seq(EntryPoint) /\ entry_points \in Seq(EntryPoint)
  BY PackAssumption DEF TypeOK
<1>2. /\ Candidates \in Seq(EntryPoint)
      /\ Len(Candidates) = Len(Builtins) + Len(entry_points)
      /\ \A i \in 1 .. Len(Builtins) + Len(entry_points) :
           Candidates[i] = IF i <= Len(Builtins) THEN Builtins[i] ELSE entry_points[i - Len(Builtins)]
  BY <1>1, ConcatProperties DEF Candidates
<1>3. ASSUME NEW i \in 1 .. Len(Candidates)
      PROVE  Candidates[i].name \in AnyName
  <2>1. \/ Candidates[i] \in Elements(Builtins)
        \/ Candidates[i] \in Elements(entry_points)
    <3>1. CASE i <= Len(Builtins)
      <4>1. i \in DOMAIN Builtins /\ Candidates[i] = Builtins[i]
        BY <1>1, <1>2, <3>1
      <4> QED  BY <4>1 DEF Elements
    <3>2. CASE ~ i <= Len(Builtins)
      <4>1. i - Len(Builtins) \in DOMAIN entry_points /\ Candidates[i] = entry_points[i - Len(Builtins)]
        BY <1>1, <1>2, <3>2
      <4> QED  BY <4>1 DEF Elements
    <3> QED  BY <3>1, <3>2
  <2>2. \E s \in Installations \cup {Builtins} : Candidates[i] \in Elements(s)
    BY <2>1 DEF TypeOK
  <2> QED  BY <2>2 DEF AnyName
<1>4. ASSUME NEW i \in 1 .. Len(Candidates)
      PROVE  Candidates[i].module \in Module
  <2>1. Candidates[i] \in EntryPoint
    BY <1>2
  <2> QED  BY <2>1 DEF EntryPoint
<1> QED  BY <1>2, <1>3, <1>4

LEMMA CurrentPackType ==
  ASSUME TypeOK
  PROVE  current_pack \in AnyName \cup {"core"} /\ current_pack # NoPack
BY DEF TypeOK, current_pack, NoPack

\* A module that begins to be imported.
LEMMA EnterType ==
  ASSUME TypeOK, NEW m \in Module, Enter(m)
  PROVE  /\ pc' = "importing" /\ modules' \subseteq Module
         /\ stack' \in Seq(StackFrame)
<1>1. Frame(m) \in StackFrame
  BY DEF Frame, StackFrame
<1>2. <<Frame(m)>> \in Seq(StackFrame) /\ <<>> \in Seq(StackFrame)
  BY <1>1
<1> QED  BY <1>2 DEF Enter, TypeOK

\* A report with one more entry, or another end, is a report.
LEMMA ReportType ==
  ASSUME NEW r \in LoadReport, NEW name \in AnyName,
         NEW end \in {"none", "running", "returned", "aborted"}
  PROVE  /\ [r EXCEPT !.loaded = Append(r.loaded, name)] \in LoadReport
         /\ [r EXCEPT !.failed = Append(r.failed, name)] \in LoadReport
         /\ [r EXCEPT !.skipped = Append(r.skipped, name)] \in LoadReport
         /\ [r EXCEPT !.end = end] \in LoadReport
<1>1. /\ Append(r.loaded, name) \in Seq(AnyName)
      /\ Append(r.failed, name) \in Seq(AnyName)
      /\ Append(r.skipped, name) \in Seq(AnyName)
  BY DEF LoadReport
<1> QED  BY <1>1 DEF LoadReport

LEMMA EmptyType ==
  ASSUME NEW d \in SUBSET STRING
  PROVE  Empty \in LoadReport /\ [Empty EXCEPT !.disabled = d, !.end = "running"] \in LoadReport
<1>1. <<>> \in Seq(AnyName)
  OBVIOUS
<1> QED  BY <1>1 DEF Empty, LoadReport

(***************************************************************************)
(* Every reachable state is well typed.                                    *)
(***************************************************************************)
LEMMA TypeStep == TypeOK /\ AtACandidate /\ [Next]_vars => TypeOK'
<1> SUFFICES ASSUME TypeOK, AtACandidate, [Next]_vars PROVE TypeOK'
  OBVIOUS
<1> USE DEF reports, registries
<1>0. /\ Len(Candidates) \in Nat /\ at \in Nat
      /\ pc \in {"choosing", "imported", "failed"} => at >= 1
      /\ 1 <= at /\ at <= Len(Candidates) => here.name \in AnyName /\ here.module \in Module
      /\ entry_points' = entry_points => Candidates' = Candidates
  <2>1. Len(Candidates) \in Nat /\ at \in Nat
    BY CandidatesType DEF TypeOK
  <2>2. pc \in {"choosing", "imported", "failed"} => at >= 1
    BY <2>1 DEF AtACandidate
  <2>3. 1 <= at /\ at <= Len(Candidates) => here.name \in AnyName /\ here.module \in Module
    BY <2>1, CandidatesType DEF here
  <2>4. entry_points' = entry_points => Candidates' = Candidates
    BY DEF Candidates
  <2> QED  BY <2>1, <2>2, <2>3, <2>4
<1>1. CASE Registers \/ Declares
  <2>1. InStatement /\ UNCHANGED <<entry_points, pc, disabled, at, loading, modules, reports>>
    BY <1>1 DEF Registers, Declares
  <2>2. stack' \in Seq(StackFrame)
    <3>1. [module |-> top.module, at |-> top.at + 1] \in StackFrame
      BY <2>1, StatementType DEF StackFrame
    <3> QED  BY <1>1, <2>1, <3>1, StatementType DEF Registers, Declares, GoOn
  <2>3. PACKS' \subseteq STRING
    BY <1>1, <2>1, StatementType DEF Registers, Declares, TypeOK, Statement
  <2>4. CHECKS' \in [Check -> AnyName \cup {"core", NoPack}]
    BY <1>1, <2>1, StatementType, CurrentPackType DEF Registers, Declares, TypeOK
  <2> QED  BY <1>0, <2>1, <2>2, <2>3, <2>4 DEF TypeOK
<1>2. CASE Imports
  <2>1. InStatement /\ statement.does = "import"
        /\ UNCHANGED <<entry_points, pc, disabled, at, loading, PACKS, CHECKS, reports>>
    BY <1>2 DEF Imports
  <2> DEFINE onwards == Append(Below, [module |-> top.module, at |-> top.at + 1])
  <2>2. onwards \in Seq(StackFrame)
    <3>1. [module |-> top.module, at |-> top.at + 1] \in StackFrame
      BY <2>1, StatementType DEF StackFrame
    <3> QED  BY <2>1, <3>1, StatementType
  <2>3. statement.what \in Module /\ Frame(statement.what) \in StackFrame
    BY <2>1, StatementType DEF Frame, StackFrame
  <2>4. /\ stack' = onwards \/ stack' = Append(onwards, Frame(statement.what))
        /\ modules' = modules \/ modules' = modules \cup {statement.what}
    BY <1>2 DEF Imports
  <2> HIDE DEF onwards
  <2>5. stack' \in Seq(StackFrame)
    BY <2>2, <2>3, <2>4
  <2>6. modules' \subseteq Module
    BY <2>3, <2>4 DEF TypeOK
  <2> QED  BY <1>0, <2>1, <2>5, <2>6 DEF TypeOK
<1>3. CASE Completes
  BY <1>0, <1>3, TopType DEF Completes, Importing, TypeOK
<1>4. CASE Raises \/ Returns
  <2>1. <<>> \in Seq(StackFrame)
    OBVIOUS
  <2> QED  BY <1>0, <1>4, <2>1 DEF Raises, Returns, TypeOK
<1>5. CASE \E d \in Disablings : Discover(d)
  <2>1. PICK d \in Disablings : Discover(d)
    BY <1>5
  <2>2. d \in SUBSET STRING
    BY PackAssumption
  <2>3. at' \in 0 .. Len(Candidates) + 1 /\ entry_points' = entry_points
    BY <1>0, <2>1 DEF Discover
  <2>4. report' \in LoadReport /\ last' \in LoadReport
    BY <2>1, <2>2, EmptyType DEF Discover, TypeOK
  <2> QED  BY <1>0, <2>1, <2>2, <2>3, <2>4 DEF Discover, TypeOK
<1>6. CASE Skip
  <2>1. at' = at + 1 /\ at' \in 0 .. Len(Candidates) + 1 /\ here.name \in AnyName
    BY <1>0, <1>6 DEF Skip
  <2> QED  BY <1>0, <1>6, <2>1, ReportType DEF Skip, TypeOK
<1>7. CASE Load
  <2>1. here.name \in AnyName /\ here.module \in Module
    BY <1>0, <1>7 DEF Load
  <2> QED  BY <1>0, <1>7, <2>1, EnterType DEF Load, TypeOK
<1>8. CASE Loaded \/ NeverRegistered \/ Failed
  <2>1. pc \in {"imported", "failed"} /\ at \in 1 .. Len(Candidates)
    BY <1>0, <1>8 DEF Loaded, NeverRegistered, Failed, AtACandidate
  <2>2. at' \in 0 .. Len(Candidates) + 1 /\ here.name \in AnyName
    BY <1>0, <1>8, <2>1 DEF Loaded, NeverRegistered, Failed, Onwards
  <2>3. report' \in LoadReport
    BY <1>8, <2>2, ReportType DEF Loaded, NeverRegistered, Failed, TypeOK
  <2> QED  BY <1>0, <1>8, <2>2, <2>3 DEF Loaded, NeverRegistered, Failed, Onwards, TypeOK
<1>9. CASE Aborts \/ Finishes
  <2>1. PICK how \in {"returned", "aborted"} : End(how)
    BY <1>9 DEF Aborts, Finishes
  <2>2. report' \in LoadReport
    BY <2>1 DEF End, LoadReport, TypeOK
  <2> QED  BY <1>0, <2>1, <2>2 DEF End, TypeOK
<1>10. CASE \E m \in Importable : ImportElsewhere(m)
  <2>1. PICK m \in Importable : ImportElsewhere(m)
    BY <1>10
  <2>2. m \in Module /\ Empty \in LoadReport
    BY PackAssumption, EmptyType
  <2> QED  BY <1>0, <2>1, <2>2, EnterType DEF ImportElsewhere, TypeOK
<1>11. CASE UNCHANGED vars
  BY <1>11 DEF vars, TypeOK, Candidates
<1> QED
  BY <1>1, <1>2, <1>3, <1>4, <1>5, <1>6, <1>7, <1>8, <1>9, <1>10, <1>11 DEF Next, Work

(***************************************************************************)
(* The stack is empty outside an import, and no candidate is passed over.  *)
(***************************************************************************)
LEMMA AtACandidateStep == TypeOK /\ AtACandidate /\ [Next]_vars => AtACandidate'
<1> SUFFICES ASSUME TypeOK, AtACandidate, [Next]_vars PROVE AtACandidate'
  OBVIOUS
<1> USE DEF AtACandidate, reports, registries
<1>0. /\ Len(Candidates) \in Nat /\ at \in Nat
      /\ entry_points' = entry_points => Candidates' = Candidates
  <2>1. Len(Candidates) \in Nat /\ at \in Nat
    BY CandidatesType DEF TypeOK
  <2>2. entry_points' = entry_points => Candidates' = Candidates
    BY DEF Candidates
  <2> QED  BY <2>1, <2>2
<1>1. CASE Registers \/ Declares \/ Imports \/ Completes
  BY <1>0, <1>1 DEF Registers, Declares, Imports, Completes, InStatement, Importing
<1>2. CASE Raises \/ Returns
  BY <1>0, <1>2 DEF Raises, Returns, InStatement, Importing
<1>3. CASE \E d \in Disablings : Discover(d)
  BY <1>0, <1>3 DEF Discover
<1>4. CASE Skip \/ Load
  BY <1>0, <1>4 DEF Skip, Load, Enter
<1>5. CASE Loaded \/ NeverRegistered \/ Failed
  BY <1>0, <1>5 DEF Loaded, NeverRegistered, Failed, Onwards
<1>6. CASE Aborts \/ Finishes
  BY <1>0, <1>6 DEF Aborts, Finishes, End
<1>7. CASE \E m \in Importable : ImportElsewhere(m)
  BY <1>0, <1>7 DEF ImportElsewhere, Enter, TypeOK
<1>8. CASE UNCHANGED vars
  BY <1>0, <1>8 DEF vars
<1> QED
  BY <1>1, <1>2, <1>3, <1>4, <1>5, <1>6, <1>7, <1>8 DEF Next, Work

-------------------------------------------------------------------------------
(***************************************************************************)
(* Registries only grow, so what has taken effect stays in effect.         *)
(***************************************************************************)
Grown == PACKS \subseteq PACKS' /\ \A c \in Check : Registered(c) => Registered(c)'

LEMMA RegistriesGrow == TypeOK /\ [Next]_vars => Grown
<1> SUFFICES ASSUME TypeOK, [Next]_vars PROVE Grown
  OBVIOUS
<1> USE DEF reports, registries
<1>1. CASE Declares
  <2>1. CHECKS' = [CHECKS EXCEPT ![statement.what] = current_pack] /\ PACKS' = PACKS
    BY <1>1 DEF Declares
  <2>2. current_pack # NoPack
    BY CurrentPackType
  <2>3. ASSUME NEW c \in Check, Registered(c) PROVE Registered(c)'
    BY <2>1, <2>2, <2>3 DEF Registered, TypeOK, NoPack
  <2> QED  BY <2>1, <2>3 DEF Grown
<1>2. CASE Registers
  BY <1>2 DEF Registers, Grown, Registered, NoPack
<1>3. CASE PACKS' = PACKS /\ CHECKS' = CHECKS
  BY <1>3 DEF Grown, Registered, NoPack
<1>4. Registers \/ Declares \/ (PACKS' = PACKS /\ CHECKS' = CHECKS)
  BY DEF Next, Work, vars, Imports, Completes, Raises, Returns, Discover, Skip, Load, Loaded,
         NeverRegistered, Failed, Aborts, Finishes, End, ImportElsewhere
<1> QED  BY <1>1, <1>2, <1>3, <1>4

LEMMA EffectsLast ==
  ASSUME TypeOK, Grown, NEW m \in Module, NEW k \in DOMAIN Body[m], InEffect(Body[m][k])
  PROVE  InEffect(Body[m][k])'
<1>1. Body[m][k].does = "check" => Body[m][k].what \in Check
  BY BodyType
<1>2. /\ Body[m][k].does # "raise"
      /\ Body[m][k].does = "pack" => Body[m][k].what \in PACKS' /\ Body[m][k].compatible
  BY DEF Grown, InEffect
<1>3. Body[m][k].does = "check" => Registered(Body[m][k].what)'
  BY <1>1 DEF Grown, InEffect
<1> QED  BY <1>2, <1>3 DEF InEffect

LEMMA RunsLast ==
  ASSUME TypeOK, Grown, NEW f \in StackFrame, RunUpTo(f)
  PROVE  RunUpTo(f)'
<1>1. f.module \in Module /\ f.at \in Nat \ {0} /\ Body[f.module] \in Seq(Statement)
  BY PackAssumption DEF StackFrame
<1>2. ASSUME NEW k \in 1 .. f.at - 1 PROVE InEffect(Body[f.module][k])'
  <2>1. k \in DOMAIN Body[f.module] /\ InEffect(Body[f.module][k])
    BY <1>1 DEF RunUpTo
  <2> QED  BY <1>1, <2>1, EffectsLast
<1>3. f.at <= Len(Body[f.module]) + 1
  BY DEF RunUpTo
<1> QED  BY <1>2, <1>3 DEF RunUpTo

LEMMA CompleteLasts ==
  ASSUME TypeOK, Grown, NEW m \in Module, \A k \in DOMAIN Body[m] : InEffect(Body[m][k])
  PROVE  \A k \in DOMAIN Body[m] : InEffect(Body[m][k])'
BY EffectsLast

-------------------------------------------------------------------------------
\* One statement further on, once it has taken effect.
LEMMA GoesOn ==
  ASSUME TypeOK, Grown, InStatement, RunSoFar, NEW f, f = top, NEW s, s = statement, InEffect(s)',
         NEW g, g = [module |-> f.module, at |-> f.at + 1]
  PROVE  RunUpTo(g)'
<1>1. f \in StackFrame /\ stack # <<>> /\ stack \in Seq(StackFrame)
  BY StatementType DEF TypeOK
<1>2. f.module \in Module /\ f.at \in Nat \ {0} /\ Body[f.module] \in Seq(Statement)
  BY <1>1, PackAssumption DEF StackFrame
<1>3. f.at \in DOMAIN Body[f.module] /\ s = Body[f.module][f.at]
  BY DEF InStatement, statement
<1>4. RunUpTo(f)'
  <2>1. Len(stack) \in DOMAIN stack
    BY <1>1
  <2>2. RunUpTo(f)
    BY <2>1 DEF RunSoFar, top
  <2> QED  BY <1>1, <2>2, RunsLast
<1>5. ASSUME NEW k \in 1 .. f.at PROVE InEffect(Body[f.module][k])'
  <2>1. CASE k = f.at
    BY <1>3, <2>1
  <2>2. CASE k \in 1 .. f.at - 1
    BY <1>4, <2>2 DEF RunUpTo
  <2> QED  BY <1>2, <2>1, <2>2
<1>6. g.module = f.module /\ g.at <= Len(Body[g.module]) + 1 /\ 1 .. g.at - 1 = 1 .. f.at
  BY <1>2, <1>3
<1> QED  BY <1>5, <1>6 DEF RunUpTo

LEMMA StartsFresh ==
  ASSUME NEW m \in Module
  PROVE  RunUpTo(Frame(m))'
<1>1. Body[m] \in Seq(Statement)
  BY PackAssumption
<1>2. 1 <= Len(Body[m]) + 1 /\ 1 .. 1 - 1 = {}
  BY <1>1
<1> QED  BY <1>2 DEF RunUpTo, Frame

\* What is left on the stack below the top has still run so far.
LEMMA BelowRuns ==
  ASSUME TypeOK, Grown, RunSoFar, stack # <<>>, NEW g \in Seq(StackFrame), g = Below
  PROVE  /\ \A i \in DOMAIN g : RunUpTo(g[i])'
         /\ \A m \in InFlight : m = top.module \/ \E i \in DOMAIN g : g[i].module = m
<1>1. /\ stack \in Seq(StackFrame) /\ Len(g) = Len(stack) - 1
      /\ \A i \in 1 .. Len(stack) - 1 : g[i] = stack[i]
      /\ Len(stack) \in Nat \ {0}
  BY BelowIsShorter DEF TypeOK, Below
<1>2. DOMAIN g = 1 .. Len(stack) - 1 /\ DOMAIN stack = 1 .. Len(stack)
  BY <1>1
<1>3. ASSUME NEW i \in DOMAIN g PROVE RunUpTo(g[i])'
  <2>1. i \in DOMAIN stack /\ g[i] = stack[i] /\ g[i] \in StackFrame
    BY <1>1, <1>2
  <2>2. RunUpTo(g[i])
    BY <2>1 DEF RunSoFar
  <2> QED  BY <2>1, <2>2, RunsLast
<1>4. ASSUME NEW m \in InFlight PROVE m = top.module \/ \E i \in DOMAIN g : g[i].module = m
  <2>1. PICK i \in DOMAIN stack : stack[i].module = m
    BY DEF InFlight
  <2>2. CASE i = Len(stack)
    BY <2>1, <2>2 DEF top
  <2>3. CASE i \in 1 .. Len(stack) - 1
    BY <1>1, <1>2, <2>1, <2>3
  <2> QED  BY <1>1, <1>2, <2>2, <2>3
<1> QED  BY <1>3, <1>4

\* A stack with one more module on top.
LEMMA PushedStack ==
  ASSUME NEW g \in Seq(StackFrame), NEW f \in StackFrame, NEW s, s = Append(g, f)
  PROVE  /\ DOMAIN s = DOMAIN g \cup {Len(g) + 1} /\ s \in Seq(StackFrame)
         /\ \A i \in DOMAIN g : s[i] = g[i]
         /\ s[Len(g) + 1] = f /\ Len(g) + 1 \in DOMAIN s
<1>1. s \in Seq(StackFrame) /\ Len(s) = Len(g) + 1
  OBVIOUS
<1> QED  BY <1>1

-------------------------------------------------------------------------------
(***************************************************************************)
(* What ran took effect, and a module that is off the stack has run to its *)
(* end.                                                                    *)
(***************************************************************************)
Quiet == stack' = stack /\ modules' = modules

LEMMA QuietStep ==
  ASSUME TypeOK, Grown, RunSoFar, ModulesComplete, Quiet
  PROVE  RunSoFar' /\ ModulesComplete'
<1>1. ASSUME NEW i \in DOMAIN stack PROVE RunUpTo(stack[i])'
  <2>1. PICK f : f = stack[i]
    OBVIOUS
  <2>2. f \in StackFrame /\ RunUpTo(f)
    BY <2>1 DEF RunSoFar, TypeOK
  <2>3. RunUpTo(f)'
    BY <2>2, RunsLast
  <2>4. f = stack'[i]
    BY <2>1 DEF Quiet
  <2> QED  BY <2>3, <2>4 DEF Quiet
<1>2. ASSUME NEW m \in modules' PROVE m \in InFlight' \/ \A k \in DOMAIN Body[m] : InEffect(Body[m][k])'
  <2>1. m \in modules /\ m \in Module /\ InFlight' = InFlight
    BY DEF Quiet, TypeOK, InFlight
  <2> QED  BY <2>1, CompleteLasts DEF ModulesComplete
<1> QED  BY <1>1, <1>2 DEF RunSoFar, ModulesComplete, Quiet

\* A statement of a module takes effect: a pack, a check, or a module on its way.
LEMMA StatementStep ==
  ASSUME TypeOK, Grown, RunSoFar, ModulesComplete, InStatement,
         NEW s, s = statement, InEffect(s)', GoOn, modules' = modules
  PROVE  RunSoFar' /\ ModulesComplete'
<1>1. PICK f : f = top
  OBVIOUS
<1>2. PICK g : g = [module |-> f.module, at |-> f.at + 1]
  OBVIOUS
<1>3. PICK b : b = Below
  OBVIOUS
<1>4. f \in StackFrame /\ b \in Seq(StackFrame) /\ stack # <<>>
  BY <1>1, <1>3, StatementType
<1>5. g \in StackFrame /\ g.module = f.module
  BY <1>2, <1>4 DEF StackFrame
<1>6. RunUpTo(g)'
  BY <1>1, <1>2, GoesOn
<1>7. /\ \A i \in DOMAIN b : RunUpTo(b[i])'
      /\ \A m \in InFlight : m = top.module \/ \E i \in DOMAIN b : b[i].module = m
  BY <1>3, <1>4, BelowRuns
<1>8. stack' = Append(b, g)
  BY <1>1, <1>2, <1>3 DEF GoOn
<1>9. /\ DOMAIN stack' = DOMAIN b \cup {Len(b) + 1} /\ Len(b) + 1 \in DOMAIN stack'
      /\ \A i \in DOMAIN b : stack'[i] = b[i]
      /\ stack'[Len(b) + 1] = g
  <2>1. PICK t : t = stack'
    OBVIOUS
  <2> QED  BY <1>4, <1>5, <1>8, <2>1, PushedStack
<1>10. RunSoFar'
  BY <1>6, <1>7, <1>9 DEF RunSoFar
<1>11. InFlight \subseteq InFlight'
  BY <1>1, <1>5, <1>7, <1>9 DEF InFlight
<1>12. ModulesComplete'
  <2>1. ASSUME NEW m \in modules'
        PROVE  m \in InFlight' \/ \A k \in DOMAIN Body[m] : InEffect(Body[m][k])'
    <3>1. m \in modules /\ m \in Module
      BY <2>1 DEF TypeOK
    <3> QED  BY <1>11, <3>1, CompleteLasts DEF ModulesComplete
  <2> QED  BY <2>1 DEF ModulesComplete
<1> QED  BY <1>10, <1>12

\* A module is imported from within another.
LEMMA ImportStep ==
  ASSUME TypeOK, Grown, RunSoFar, ModulesComplete, InStatement,
         NEW s, s = statement, s.does = "import", Imports, s.what \notin modules
  PROVE  RunSoFar' /\ ModulesComplete'
<1>1. PICK f : f = top
  OBVIOUS
<1>2. PICK g : g = [module |-> f.module, at |-> f.at + 1]
  OBVIOUS
<1>3. PICK b : b = Below
  OBVIOUS
<1>4. f \in StackFrame /\ b \in Seq(StackFrame) /\ stack # <<>> /\ s.what \in Module
  BY <1>1, <1>3, StatementType
<1>5. g \in StackFrame /\ g.module = f.module
  BY <1>2, <1>4 DEF StackFrame
<1>6. RunUpTo(g)'
  <2>1. InEffect(s)'
    BY DEF InEffect
  <2> QED  BY <1>1, <1>2, <2>1, GoesOn
<1>7. /\ \A i \in DOMAIN b : RunUpTo(b[i])'
      /\ \A m \in InFlight : m = top.module \/ \E i \in DOMAIN b : b[i].module = m
  BY <1>3, <1>4, BelowRuns
<1>8. PICK u : u = Append(b, g)
  OBVIOUS
<1>9. PICK h : h = Frame(s.what)
  OBVIOUS
<1>10. h \in StackFrame /\ h.module = s.what
  BY <1>4, <1>9 DEF Frame, StackFrame
<1>11. RunUpTo(h)'
  BY <1>4, <1>9, StartsFresh
<1>12. stack' = Append(u, h) /\ modules' = modules \cup {s.what}
  BY <1>1, <1>2, <1>3, <1>8, <1>9 DEF Imports
<1>13. /\ DOMAIN u = DOMAIN b \cup {Len(b) + 1} /\ u \in Seq(StackFrame)
       /\ \A i \in DOMAIN b : u[i] = b[i]
       /\ u[Len(b) + 1] = g
  BY <1>4, <1>5, <1>8, PushedStack
<1>14. /\ DOMAIN stack' = DOMAIN u \cup {Len(u) + 1}
       /\ \A i \in DOMAIN u : stack'[i] = u[i]
       /\ stack'[Len(u) + 1] = h
  <2>1. PICK t : t = stack'
    OBVIOUS
  <2>2. t = Append(u, h) /\ u \in Seq(StackFrame) /\ h \in StackFrame
    BY <1>10, <1>12, <1>13, <2>1
  <2>3. /\ DOMAIN t = DOMAIN u \cup {Len(u) + 1}
        /\ \A i \in DOMAIN u : t[i] = u[i]
        /\ t[Len(u) + 1] = h
    BY <2>2, PushedStack
  <2> QED  BY <2>1, <2>3
<1>15. RunSoFar'
  BY <1>6, <1>7, <1>11, <1>13, <1>14 DEF RunSoFar
<1>16. InFlight \cup {s.what} \subseteq InFlight'
  BY <1>1, <1>5, <1>7, <1>10, <1>13, <1>14 DEF InFlight
<1>17. ModulesComplete'
  <2>1. ASSUME NEW m \in modules'
        PROVE  m \in InFlight' \/ \A k \in DOMAIN Body[m] : InEffect(Body[m][k])'
    <3>1. CASE m = s.what
      BY <1>16, <3>1
    <3>2. CASE m \in modules
      <4>1. m \in Module
        BY <3>2 DEF TypeOK
      <4> QED  BY <1>16, <3>2, <4>1, CompleteLasts DEF ModulesComplete
    <3> QED  BY <1>12, <3>1, <3>2
  <2> QED  BY <2>1 DEF ModulesComplete
<1> QED  BY <1>15, <1>17

\* The module on top has run out of statements.
LEMMA CompletionStep ==
  ASSUME TypeOK, Grown, RunSoFar, ModulesComplete, Completes
  PROVE  RunSoFar' /\ ModulesComplete'
<1>1. PICK b : b = Below
  OBVIOUS
<1>2. PICK f : f = top
  OBVIOUS
<1>3. stack # <<>> /\ stack' = b /\ modules' = modules /\ f.at \notin DOMAIN Body[f.module]
  BY <1>1, <1>2 DEF Completes, Importing, registries
<1>4. b \in Seq(StackFrame) /\ f \in StackFrame
  BY <1>1, <1>2, <1>3, TopType
<1>5. /\ \A i \in DOMAIN b : RunUpTo(b[i])'
      /\ \A m \in InFlight : m = f.module \/ \E i \in DOMAIN b : b[i].module = m
  <2>1. /\ \A i \in DOMAIN b : RunUpTo(b[i])'
        /\ \A m \in InFlight : m = top.module \/ \E i \in DOMAIN b : b[i].module = m
    BY <1>1, <1>3, <1>4, BelowRuns
  <2> QED  BY <1>2, <2>1
<1>6. RunSoFar'
  BY <1>3, <1>5 DEF RunSoFar
<1>7. \A k \in DOMAIN Body[f.module] : InEffect(Body[f.module][k])'
  <2>1. RunUpTo(f)
    <3>1. Len(stack) \in DOMAIN stack
      BY <1>3 DEF TypeOK
    <3> QED  BY <1>2, <3>1 DEF RunSoFar, top
  <2>2. f.module \in Module /\ f.at \in Nat \ {0} /\ Body[f.module] \in Seq(Statement)
    BY <1>4, PackAssumption DEF StackFrame
  <2>3. f.at = Len(Body[f.module]) + 1
    BY <1>3, <2>1, <2>2 DEF RunUpTo
  <2>4. \A k \in DOMAIN Body[f.module] : InEffect(Body[f.module][k])
    <3>1. DOMAIN Body[f.module] = 1 .. f.at - 1
      BY <2>2, <2>3
    <3> QED  BY <2>1, <3>1 DEF RunUpTo
  <2> QED  BY <2>2, <2>4, CompleteLasts
<1>8. ASSUME NEW m \in modules'
      PROVE  m \in InFlight' \/ \A k \in DOMAIN Body[m] : InEffect(Body[m][k])'
  <2>1. m \in modules /\ m \in Module
    BY <1>3, <1>8 DEF TypeOK
  <2>2. CASE m = f.module
    BY <1>7, <2>2
  <2>3. CASE m \in InFlight /\ m # f.module
    BY <1>3, <1>5, <2>3 DEF InFlight
  <2>4. CASE m \notin InFlight
    BY <2>1, <2>4, CompleteLasts DEF ModulesComplete
  <2> QED  BY <2>2, <2>3, <2>4
<1> QED  BY <1>6, <1>8 DEF ModulesComplete

\* The exception takes out every module that was on its way.
LEMMA RaiseStep ==
  ASSUME TypeOK, Grown, ModulesComplete, Raises
  PROVE  RunSoFar' /\ ModulesComplete'
<1>1. stack' = <<>> /\ modules' = modules \ InFlight
  BY DEF Raises
<1>2. ASSUME NEW m \in modules' PROVE \A k \in DOMAIN Body[m] : InEffect(Body[m][k])'
  <2>1. m \in modules /\ m \notin InFlight /\ m \in Module
    BY <1>1 DEF TypeOK
  <2> QED  BY <2>1, CompleteLasts DEF ModulesComplete
<1>3. RunSoFar'
  BY <1>1 DEF RunSoFar
<1> QED  BY <1>2, <1>3 DEF ModulesComplete

\* An import that begins with an empty stack.
LEMMA EnterStep ==
  ASSUME TypeOK, Grown, ModulesComplete, stack = <<>>, NEW n \in Module, Enter(n)
  PROVE  RunSoFar' /\ ModulesComplete'
<1>1. InFlight = {}
  BY DEF InFlight
<1>2. ASSUME NEW m \in modules PROVE \A k \in DOMAIN Body[m] : InEffect(Body[m][k])'
  <2>1. m \in Module
    BY DEF TypeOK
  <2> QED  BY <1>1, <2>1, CompleteLasts DEF ModulesComplete
<1>3. modules' = modules \cup {n}
  BY DEF Enter
<1>4. CASE n \in modules
  <2>1. stack' = <<>>
    BY <1>4 DEF Enter
  <2> QED  BY <1>2, <1>3, <1>4, <2>1 DEF RunSoFar, ModulesComplete
<1>5. CASE n \notin modules
  <2>1. PICK h : h = Frame(n)
    OBVIOUS
  <2>2. stack' = <<h>> /\ h.module = n /\ RunUpTo(h)'
    BY <1>5, <2>1, StartsFresh DEF Enter, Frame
  <2>3. n \in InFlight'
    BY <2>2 DEF InFlight
  <2> QED  BY <1>2, <1>3, <2>2, <2>3 DEF RunSoFar, ModulesComplete
<1> QED  BY <1>4, <1>5

-------------------------------------------------------------------------------
LEMMA ModulesStep == IInv /\ [Next]_vars => RunSoFar' /\ ModulesComplete'
<1> SUFFICES ASSUME IInv, [Next]_vars PROVE RunSoFar' /\ ModulesComplete'
  OBVIOUS
<1>0. TypeOK /\ AtACandidate /\ RunSoFar /\ ModulesComplete /\ Grown
  BY RegistriesGrow DEF IInv
<1>1. CASE Registers \/ Declares
  <2>1. PICK s : s = statement
    OBVIOUS
  <2>2. InStatement /\ GoOn /\ modules' = modules
    BY <1>1 DEF Registers, Declares
  <2>3. InEffect(s)'
    <3>1. CASE Registers
      BY <2>1, <3>1 DEF Registers, InEffect
    <3>2. CASE Declares
      <4>1. s.does = "check" /\ s.what \in Check
        BY <1>0, <2>1, <2>2, <3>2, StatementType DEF Declares
      <4>2. CHECKS' = [CHECKS EXCEPT ![s.what] = current_pack]
        BY <2>1, <3>2 DEF Declares
      <4>3. CHECKS'[s.what] # NoPack
        BY <1>0, <4>1, <4>2, CurrentPackType DEF TypeOK
      <4> QED  BY <4>1, <4>3 DEF InEffect, Registered, NoPack
    <3> QED  BY <1>1, <3>1, <3>2
  <2> QED  BY <1>0, <2>1, <2>2, <2>3, StatementStep
<1>2. CASE Imports
  <2>1. PICK s : s = statement
    OBVIOUS
  <2>2. InStatement /\ s.does = "import"
    BY <1>2, <2>1 DEF Imports
  <2>3. CASE s.what \in modules
    <3>1. GoOn /\ modules' = modules
      BY <1>2, <2>1, <2>3 DEF Imports, GoOn
    <3>2. InEffect(s)'
      BY <2>2 DEF InEffect
    <3> QED  BY <1>0, <2>1, <2>2, <3>1, <3>2, StatementStep
  <2>4. CASE s.what \notin modules
    BY <1>0, <1>2, <2>1, <2>2, <2>4, ImportStep
  <2> QED  BY <2>3, <2>4
<1>3. CASE Completes
  BY <1>0, <1>3, CompletionStep
<1>4. CASE Raises
  BY <1>0, <1>4, RaiseStep
<1>5. CASE Load
  <2>1. pc = "choosing" /\ at \in 1 .. Len(Candidates) /\ Enter(here.module)
    BY <1>0, <1>5, CandidatesType DEF Load, AtACandidate, TypeOK
  <2>2. PICK n : n = here.module
    OBVIOUS
  <2>3. n \in Module /\ stack = <<>> /\ Enter(n)
    BY <1>0, <2>1, <2>2, CandidatesType DEF here, AtACandidate
  <2> QED  BY <1>0, <2>3, EnterStep
<1>6. CASE \E m \in Importable : ImportElsewhere(m)
  <2>1. PICK m \in Importable : ImportElsewhere(m)
    BY <1>6
  <2>2. m \in Module /\ stack = <<>> /\ Enter(m)
    BY <1>0, <2>1, PackAssumption DEF ImportElsewhere, AtACandidate
  <2> QED  BY <1>0, <2>2, EnterStep
<1>7. CASE Quiet
  BY <1>0, <1>7, QuietStep
<1>8. \/ Registers \/ Declares \/ Imports \/ Completes \/ Raises \/ Load
      \/ (\E m \in Importable : ImportElsewhere(m)) \/ Quiet
  BY DEF Next, Work, vars, Quiet, Returns, Discover, Skip, Loaded, NeverRegistered, Failed,
         Aborts, Finishes, End, registries
<1> QED  BY <1>1, <1>2, <1>3, <1>4, <1>5, <1>6, <1>7, <1>8

LEMMA InitHolds == Init => IInv
<1> SUFFICES ASSUME Init PROVE IInv
  OBVIOUS
<1>1. report \in LoadReport /\ last \in LoadReport
  BY EmptyType DEF Init
<1>2. Len(Candidates) \in Nat
  <2>1. Builtins \in Seq(EntryPoint) /\ entry_points \in Seq(EntryPoint)
    BY PackAssumption DEF Init
  <2> QED  BY <2>1 DEF Candidates
<1>3. stack \in Seq(StackFrame)
  BY DEF Init
<1>4. TypeOK
  BY <1>1, <1>2, <1>3 DEF Init, TypeOK
<1>5. AtACandidate
  BY DEF Init, AtACandidate
<1>6. RunSoFar /\ ModulesComplete
  BY DEF Init, RunSoFar, ModulesComplete
<1> QED  BY <1>4, <1>5, <1>6 DEF IInv

LEMMA InductiveInvariant == Spec => []IInv
<1>1. IInv /\ [Next]_vars => IInv'
  BY TypeStep, AtACandidateStep, ModulesStep DEF IInv
<1> QED  BY InitHolds, <1>1, PTL DEF Spec

(***************************************************************************)
(* The registries, the report and the stack of imports keep their types,   *)
(* whatever packs are installed and disabled.                              *)
(***************************************************************************)
THEOREM TypeCorrect == Spec => []TypeOK
<1>1. IInv => TypeOK
  BY DEF IInv
<1> QED  BY InductiveInvariant, <1>1, PTL

(***************************************************************************)
(* For any packs, also those that raise halfway or import each other: a    *)
(* module that a later import finds in sys.modules, and skips, has         *)
(* registered all it registers (packs/__init__.py:125-145).                *)
(***************************************************************************)
THEOREM ModulesAreComplete == Spec => []ModulesComplete
<1>1. IInv => ModulesComplete
  BY DEF IInv
<1> QED  BY InductiveInvariant, <1>1, PTL

-------------------------------------------------------------------------------
(***************************************************************************)
(* Whose import is running: a discovery's candidate, under its name, or    *)
(* other code's module, under none.                                        *)
(***************************************************************************)
Origin == IF at = 0 THEN Importable ELSE {here.module}

ImportsForOne ==
  /\ loading = IF pc = "importing" /\ at # 0 THEN here.name ELSE NoPack
  /\ \A i \in DOMAIN stack : \E m \in Origin : stack[i].module \in BroughtIn[m]

AttributionInv == IInv /\ ImportsForOne /\ AttributedHonestly

\* What importing a module can bring in: itself, and what any of it imports.
LEMMA BringsIn ==
  ASSUME NEW m \in Module
  PROVE  /\ m \in BroughtIn[m]
         /\ \A x \in BroughtIn[m] : \A y \in Module : y \in Does(x, "import") => y \in BroughtIn[m]
<1>1. BroughtIn[m] = {x \in Module : \A S \in SUBSET Module : m \in S /\ Leads(S) => x \in S}
  BY DEF BroughtIn
<1>2. ASSUME NEW x \in BroughtIn[m], NEW y \in Module, y \in Does(x, "import")
      PROVE  y \in BroughtIn[m]
  <2>1. ASSUME NEW S \in SUBSET Module, m \in S, Leads(S) PROVE y \in S
    <3>1. x \in S
      BY <1>1, <1>2, <2>1
    <3>2. Does(x, "import") \subseteq S
      BY <2>1, <3>1 DEF Leads
    <3> QED  BY <1>2, <3>2
  <2> QED  BY <1>1, <2>1
<1> QED  BY <1>1, <1>2

\* The statement being executed is one of the module on top.
LEMMA StatementOfTop ==
  ASSUME TypeOK, InStatement
  PROVE  statement.what \in Does(top.module, statement.does)
<1>1. statement \in {t \in Elements(Body[top.module]) : t.does = statement.does}
  BY DEF statement, InStatement, Elements
<1> QED  BY <1>1 DEF Does

LEMMA TopIsOnStack ==
  ASSUME TypeOK, stack # <<>>
  PROVE  Len(stack) \in DOMAIN stack /\ top = stack[Len(stack)] /\ top.module \in Module
<1>1. Len(stack) \in DOMAIN stack /\ top = stack[Len(stack)]
  BY DEF TypeOK, top
<1> QED  BY <1>1, TopType DEF StackFrame

\* A frame of the stack after a step that goes on, returns or imports.
LEMMA FramesOfNext ==
  ASSUME TypeOK, Registers \/ Declares \/ Imports \/ Completes,
         NEW i \in DOMAIN stack'
  PROVE  \/ /\ i \in DOMAIN stack
            /\ stack'[i].module = stack[i].module /\ stack'[i].at >= stack[i].at
            /\ i = Len(stack) => /\ ~ Completes /\ stack'[i].at = top.at + 1
                                /\ \/ Len(stack') = i
                                   \/ Imports /\ statement.what \notin modules
         \/ /\ Imports /\ statement.what \notin modules /\ i = Len(stack) + 1
            /\ stack'[i] = Frame(statement.what) /\ Len(stack') = i
<1>1. PICK b : b = Below
  OBVIOUS
<1>2. PICK g : g = [module |-> top.module, at |-> top.at + 1]
  OBVIOUS
<1>3. PICK t : t = stack'
  OBVIOUS
<1>4. stack # <<>> /\ stack \in Seq(StackFrame)
  BY DEF TypeOK, Registers, Declares, Imports, Completes, InStatement, Importing
<1>5. /\ b \in Seq(StackFrame) /\ Len(b) = Len(stack) - 1 /\ Len(stack) \in Nat \ {0}
      /\ \A j \in 1 .. Len(b) : j \in DOMAIN stack /\ b[j] = stack[j]
  BY <1>1, <1>4, BelowIsShorter DEF Below
<1>6. /\ g \in StackFrame /\ g.module = stack[Len(stack)].module /\ Len(stack) \in DOMAIN stack
      /\ g.at = top.at + 1 /\ top.at \in Nat /\ top.at = stack[Len(stack)].at
  BY <1>2, <1>4, TopType DEF StackFrame, top
<1>7. \A j \in DOMAIN stack : stack[j].at \in Nat
  <2>1. \A j \in DOMAIN stack : stack[j] \in StackFrame
    BY <1>4
  <2> QED  BY <2>1 DEF StackFrame
<1>8. CASE t = b
  <2>1. i \in 1 .. Len(b) /\ i # Len(stack) /\ t[i] = stack[i] /\ i \in DOMAIN stack
    BY <1>3, <1>5, <1>8
  <2> QED  BY <1>3, <1>7, <2>1
<1>9. ASSUME NEW u, u = Append(b, g), NEW j \in DOMAIN u
      PROVE  /\ j \in DOMAIN stack /\ u[j].module = stack[j].module /\ u[j].at >= stack[j].at
             /\ u \in Seq(StackFrame) /\ Len(u) = Len(stack)
             /\ j = Len(stack) => u[j].at = top.at + 1
  <2>1. DOMAIN u = DOMAIN b \cup {Len(b) + 1} /\ (\A i_1 \in DOMAIN b : u[i_1] = b[i_1]) /\ u[Len(b) + 1] = g
        /\ u \in Seq(StackFrame)
    BY <1>5, <1>6, <1>9, PushedStack
  <2>2. Len(b) + 1 = Len(stack) /\ DOMAIN b = 1 .. Len(b)
    BY <1>5
  <2>3. Len(u) = Len(stack)
    BY <1>5, <1>9, <2>2
  <2>4. CASE j \in DOMAIN b
    <3>1. u[j] = stack[j] /\ j \in DOMAIN stack /\ j # Len(stack)
      BY <1>5, <2>1, <2>2, <2>4
    <3> QED  BY <1>7, <2>1, <2>3, <3>1
  <2>5. CASE j = Len(stack)
    <3>1. u[j] = g
      BY <2>1, <2>2, <2>5
    <3> QED  BY <1>6, <2>1, <2>3, <2>5, <3>1
  <2> QED  BY <1>9, <2>1, <2>2, <2>4, <2>5
<1>10. CASE t = Append(b, g) /\ ~ Completes
  <2>1. /\ i \in DOMAIN stack /\ t[i].module = stack[i].module /\ t[i].at >= stack[i].at
        /\ Len(t) = Len(stack)
        /\ i = Len(stack) => t[i].at = top.at + 1
    BY <1>3, <1>9, <1>10
  <2> QED  BY <1>3, <1>10, <2>1
<1>11. CASE Imports /\ statement.what \notin modules
  <2>1. PICK s : s = statement
    OBVIOUS
  <2>2. PICK u : u = Append(b, g)
    OBVIOUS
  <2>3. PICK h : h = Frame(s.what)
    OBVIOUS
  <2>4. t = Append(u, h)
    BY <1>1, <1>2, <1>3, <1>11, <2>1, <2>2, <2>3 DEF Imports
  <2>5. h \in StackFrame
    BY <1>11, <2>1, <2>3, StatementType DEF Imports, Frame, StackFrame
  <2>6. u \in Seq(StackFrame) /\ Len(u) = Len(stack)
    <3>1. Len(u) = Len(b) + 1 /\ u \in Seq(StackFrame)
      BY <1>5, <1>6, <2>2
    <3> QED  BY <1>5, <3>1
  <2>7. /\ DOMAIN t = DOMAIN u \cup {Len(u) + 1}
        /\ \A j \in DOMAIN u : t[j] = u[j]
        /\ t[Len(u) + 1] = h
    BY <2>4, <2>5, <2>6, PushedStack
  <2>8. i \in DOMAIN t /\ Len(t) = Len(stack) + 1
    <3>1. Len(t) = Len(u) + 1
      BY <2>4, <2>5, <2>6
    <3> QED  BY <1>3, <2>6, <3>1
  <2>9. CASE i \in DOMAIN u
    <3>1. /\ t[i] = u[i] /\ i \in DOMAIN stack
          /\ u[i].module = stack[i].module /\ u[i].at >= stack[i].at
          /\ i = Len(stack) => u[i].at = top.at + 1
      BY <1>9, <2>2, <2>7, <2>9
    <3>2. ~ Completes
      BY <1>11 DEF Imports, Completes, InStatement
    <3> QED  BY <1>3, <1>11, <3>1, <3>2
  <2>10. CASE i = Len(u) + 1
    <3>1. t[i] = h /\ i = Len(stack) + 1
      BY <2>6, <2>7, <2>10
    <3> QED  BY <1>3, <1>11, <2>1, <2>3, <2>8, <3>1
  <2> QED  BY <2>7, <2>8, <2>9, <2>10
<1>12. \/ t = b
       \/ t = Append(b, g) /\ ~ Completes
       \/ Imports /\ statement.what \notin modules
  <2>1. CASE Completes
    BY <1>1, <1>3, <2>1 DEF Completes
  <2>2. CASE Registers \/ Declares \/ Imports
    <3>1. ~ Completes
      BY <2>2 DEF Registers, Declares, Imports, InStatement, Completes
    <3> QED  BY <1>1, <1>2, <1>3, <2>2, <3>1 DEF Registers, Declares, Imports, GoOn
  <2> QED  BY <2>1, <2>2
<1> QED  BY <1>8, <1>10, <1>11, <1>12

\* What leaves an import where it is keeps the origin of what is being imported.
Settled == at' = at /\ entry_points' = entry_points

LEMMA OriginLasts ==
  ASSUME Settled
  PROVE  Origin' = Origin /\ here' = here /\ Candidates' = Candidates
BY DEF Settled, Origin, here, Candidates

\* Outside an import there is no one to import for.
LEMMA NotImporting ==
  ASSUME stack' = <<>>, loading' = NoPack, pc' # "importing"
  PROVE  ImportsForOne'
<1>1. NoPack' = NoPack
  BY DEF NoPack
<1>2. loading' = IF pc' = "importing" /\ at' # 0 THEN here'.name ELSE NoPack'
  BY <1>1
<1>3. \A i \in DOMAIN stack' : \E m \in Origin' : stack'[i].module \in BroughtIn'[m]
  OBVIOUS
<1> QED  BY <1>2, <1>3 DEF ImportsForOne

LEMMA ImportsForOneStep == IInv /\ ImportsForOne /\ [Next]_vars => ImportsForOne'
<1> SUFFICES ASSUME IInv, ImportsForOne, [Next]_vars PROVE ImportsForOne'
  OBVIOUS
<1>0. TypeOK /\ AtACandidate
  BY DEF IInv
<1>1. CASE Registers \/ Declares \/ Imports \/ Completes
  <2>1. Settled /\ loading' = loading /\ pc' = pc
    BY <1>1 DEF Registers, Declares, Imports, Completes, Settled
  <2>2. ASSUME NEW i \in DOMAIN stack' PROVE \E m \in Origin : stack'[i].module \in BroughtIn[m]
    <3>1. CASE i \in DOMAIN stack /\ stack'[i].module = stack[i].module
      BY <3>1 DEF ImportsForOne
    <3>2. CASE Imports /\ stack'[i] = Frame(statement.what)
      <4>1. InStatement /\ statement.does = "import"
        BY <3>2 DEF Imports
      <4>2. /\ statement.what \in Module /\ statement.what \in Does(top.module, "import")
            /\ Len(stack) \in DOMAIN stack /\ top.module = stack[Len(stack)].module
        BY <1>0, <4>1, StatementType, StatementOfTop, TopIsOnStack
      <4>3. PICK m \in Origin : top.module \in BroughtIn[m]
        BY <4>2 DEF ImportsForOne
      <4>4. m \in Module
        <5>1. CASE at = 0
          BY <5>1, PackAssumption DEF Origin
        <5>2. CASE at # 0
          <6>1. at \in 1 .. Len(Candidates)
            BY <1>0, <4>1, <5>2, CandidatesType DEF AtACandidate, TypeOK, InStatement, Importing
          <6>2. m = here.module
            BY <5>2 DEF Origin
          <6> QED  BY <1>0, <6>1, <6>2, CandidatesType DEF here
        <5> QED  BY <5>1, <5>2
      <4>5. statement.what \in BroughtIn[m]
        BY <4>2, <4>3, <4>4, BringsIn
      <4>6. stack'[i].module = statement.what
        BY <3>2 DEF Frame
      <4> QED  BY <4>5, <4>6
    <3> QED  BY <1>0, <1>1, <2>2, <3>1, <3>2, FramesOfNext
  <2>3. loading' = IF pc' = "importing" /\ at' # 0 THEN here'.name ELSE NoPack
    BY <2>1, OriginLasts DEF ImportsForOne, Settled
  <2> QED  BY <2>1, <2>2, <2>3, OriginLasts DEF ImportsForOne
<1>2. CASE Raises \/ Returns
  <2>1. stack' = <<>> /\ loading' = NoPack /\ pc' # "importing"
    BY <1>2 DEF Raises, Returns
  <2> QED  BY <2>1, NotImporting
<1>3. ASSUME NEW n \in Module, Enter(n), n \in Origin', stack = <<>>,
             loading' = IF at' # 0 THEN here'.name ELSE NoPack
      PROVE  ImportsForOne'
  <2>1. stack' = <<>> \/ stack' = <<Frame(n)>>
    BY <1>3 DEF Enter
  <2>2. ASSUME NEW i \in DOMAIN stack' PROVE stack'[i].module \in BroughtIn[n]
    <3>1. stack'[i].module = n
      BY <2>1, <2>2 DEF Frame
    <3> QED  BY <3>1, BringsIn
  <2>3. pc' = "importing"
    BY <1>3 DEF Enter
  <2> QED  BY <1>3, <2>2, <2>3 DEF ImportsForOne
<1>4. CASE Load
  <2>1. PICK n : n = here.module
    OBVIOUS
  <2>2. /\ pc = "choosing" /\ at \in 1 .. Len(Candidates) /\ Settled
        /\ loading' = here.name /\ Enter(n)
    BY <1>0, <1>4, <2>1, CandidatesType DEF Load, AtACandidate, TypeOK, Settled
  <2>3. n \in Module /\ stack = <<>> /\ n \in Origin' /\ at' # 0 /\ here' = here
    BY <1>0, <2>1, <2>2, CandidatesType, OriginLasts DEF here, AtACandidate, Origin, Settled
  <2> QED  BY <1>3, <2>2, <2>3
<1>5. CASE \E m \in Importable : ImportElsewhere(m)
  <2>1. PICK n \in Importable : ImportElsewhere(n)
    BY <1>5
  <2>2. /\ n \in Module /\ at' = 0 /\ at = 0 /\ stack = <<>> /\ loading' = loading /\ Enter(n)
        /\ pc = "idle"
    BY <1>0, <2>1, PackAssumption DEF ImportElsewhere, AtACandidate
  <2>3. n \in Origin' /\ loading' = NoPack
    BY <2>2 DEF Origin, ImportsForOne
  <2> QED  BY <1>3, <2>2, <2>3
<1>6. CASE (\E d \in Disablings : Discover(d)) \/ Skip \/ Loaded \/ NeverRegistered \/ Failed
             \/ Aborts \/ Finishes
  <2>1. /\ pc # "importing" /\ pc' # "importing"
        /\ stack' = stack /\ loading' = loading
    BY <1>6 DEF Discover, Skip, Loaded, NeverRegistered, Failed, Aborts, Finishes, End, Onwards
  <2>2. stack = <<>> /\ loading = NoPack
    BY <1>0, <2>1 DEF AtACandidate, ImportsForOne
  <2> QED  BY <2>1, <2>2, NotImporting
<1>7. CASE UNCHANGED vars
  <2>1. Settled /\ loading' = loading /\ pc' = pc /\ stack' = stack
    BY <1>7 DEF vars, Settled
  <2> QED  BY <2>1, OriginLasts DEF ImportsForOne, Settled
<1> QED  BY <1>1, <1>2, <1>4, <1>5, <1>6, <1>7 DEF Next, Work

\* The pack a check would be attributed to is one whose import may bring it in.
LEMMA LoadedHonestly ==
  ASSUME TypeOK, AtACandidate, ImportsForOne, InStatement
  PROVE  \E m \in MayBring(current_pack) : top.module \in BroughtIn[m]
<1>1. PICK m \in Origin : top.module \in BroughtIn[m]
  <2>1. Len(stack) \in DOMAIN stack /\ top = stack[Len(stack)]
    BY TopIsOnStack, StatementType
  <2> QED  BY <2>1 DEF ImportsForOne
<1>2. CASE at = 0
  <2>1. current_pack = "core" /\ m \in Importable
    BY <1>2 DEF ImportsForOne, current_pack, Origin
  <2> QED  BY <1>1, <2>1 DEF MayBring
<1>3. CASE at # 0
  <2>1. pc = "importing" /\ at \in 1 .. Len(Candidates) /\ m = here.module
    BY <1>3, CandidatesType DEF AtACandidate, TypeOK, InStatement, Importing, Origin
  <2>2. loading = here.name /\ here.name \in AnyName
    BY <1>3, <2>1, CandidatesType DEF ImportsForOne, here
  <2>3. current_pack = here.name
    BY <2>2, NameAssumption DEF current_pack
  <2>4. here \in Elements(Candidates)
    <3>1. at \in DOMAIN Candidates
      BY <2>1, CandidatesType
    <3> QED  BY <3>1 DEF Elements, here
  <2> QED  BY <1>1, <2>1, <2>3, <2>4 DEF MayBring
<1> QED  BY <1>2, <1>3

\* Only a declaration changes what checks are attributed to.
LEMMA AttributedOnce ==
  ASSUME TypeOK, [Next]_vars
  PROVE  /\ CHECKS' = CHECKS \/ Declares
         /\ \A c \in Check : Registered(c) => CHECKS'[c] = CHECKS[c]
<1>1. CHECKS' = CHECKS \/ Declares
  BY DEF Next, Work, vars, registries, Registers, Imports, Completes, Raises, Returns, Discover, Skip, Load,
         Loaded, NeverRegistered, Failed, Aborts, Finishes, End, ImportElsewhere
<1>2. ASSUME Declares, NEW c \in Check, Registered(c) PROVE CHECKS'[c] = CHECKS[c]
  <2>1. CHECKS' = [CHECKS EXCEPT ![statement.what] = current_pack] /\ ~ Registered(statement.what)
    BY <1>2 DEF Declares
  <2> QED  BY <1>2, <2>1 DEF TypeOK
<1> QED  BY <1>1, <1>2

LEMMA AttributionStep ==
  AttributionInv /\ [Next]_vars => AttributedHonestly'
<1> SUFFICES ASSUME AttributionInv, [Next]_vars PROVE AttributedHonestly'
  OBVIOUS
<1>0. TypeOK /\ AtACandidate /\ ImportsForOne /\ AttributedHonestly
  BY DEF AttributionInv, IInv
<1>1. entry_points' = entry_points
  BY DEF Next, Work, vars, Registers, Declares, Imports, Completes, Raises, Returns, Discover, Skip, Load,
         Loaded, NeverRegistered, Failed, Aborts, Finishes, End, ImportElsewhere
<1>2. \A n : MayBring(n)' = MayBring(n)
  BY <1>1 DEF MayBring, Candidates
<1>3. ASSUME NEW c \in Check, CHECKS'[c] # NoPack
      PROVE  \E m \in MayBring(CHECKS'[c]) : \E x \in BroughtIn[m] : c \in OwnChecks(x)
  <2>1. CASE Registered(c)
    BY <1>0, <2>1, AttributedOnce DEF AttributedHonestly
  <2>2. CASE ~ Registered(c)
    <3>1. Declares
      BY <1>0, <1>3, <2>2, AttributedOnce DEF Registered
    <3>2. /\ InStatement /\ statement.does = "check"
          /\ CHECKS' = [CHECKS EXCEPT ![statement.what] = current_pack]
      BY <3>1 DEF Declares
    <3>3. c = statement.what /\ CHECKS'[c] = current_pack
      BY <1>0, <1>3, <2>2, <3>2 DEF TypeOK, Registered
    <3>4. c \in OwnChecks(top.module)
      BY <1>0, <3>2, <3>3, StatementOfTop DEF OwnChecks
    <3> QED  BY <1>0, <3>2, <3>3, <3>4, LoadedHonestly
  <2> QED  BY <2>1, <2>2
<1>4. \A c \in Check : Registered(c)' <=> CHECKS'[c] # NoPack
  BY DEF Registered, NoPack
<1>5. AttributedHonestly' <=>
        \A c \in Check : CHECKS'[c] # NoPack =>
          \E m \in MayBring(CHECKS'[c]) : \E x \in BroughtIn[m] : c \in OwnChecks(x)
  BY <1>2, <1>4 DEF AttributedHonestly
<1> QED  BY <1>3, <1>5

LEMMA AttributionInvariant == Spec => []AttributionInv
<1>1. Init => AttributionInv
  BY InitHolds DEF AttributionInv, Init, ImportsForOne, AttributedHonestly, Registered
<1>2. AttributionInv /\ [Next]_vars => AttributionInv'
  <2>1. IInv /\ [Next]_vars => IInv'
    BY TypeStep, AtACandidateStep, ModulesStep DEF IInv
  <2> QED  BY <2>1, ImportsForOneStep, AttributionStep DEF AttributionInv
<1> QED  BY <1>1, <1>2, PTL DEF Spec

(***************************************************************************)
(* For any packs, whatever they import and wherever they raise: a check is *)
(* attributed to a pack whose import brought in the module that declares   *)
(* it, or to core when other code's did (packs/__init__.py:79-87,          *)
(* 122-133).                                                               *)
(***************************************************************************)
THEOREM AttributionIsHonest == Spec => []AttributedHonestly
<1>1. AttributionInv => AttributedHonestly
  BY DEF AttributionInv
<1> QED  BY AttributionInvariant, <1>1, PTL

-------------------------------------------------------------------------------
\* Where a discovery is: its candidate is wanted, and on its way or there.
OnItsWay ==
  /\ at # 0 => report.end = "running"
  /\ pc \in {"importing", "imported", "failed"} /\ at # 0 => here.name \notin disabled
  /\ pc \in {"importing", "imported"} /\ at # 0 => here.module \in modules

Tried(i) == i <= Len(Builtins) /\ Builtins[i].name \notin disabled
LoadedSoFar ==
  /\ \A i \in 1 .. at - 1 : Tried(i) => Ready(Builtins[i])
  /\ report.end = "returned" => \A i \in DOMAIN Builtins : Tried(i) => Ready(Builtins[i])

\* A built-in module imports nothing, so it is on top of what is being imported.
StackedOnce ==
  \A i \in DOMAIN stack :
    stack[i].module \in modules /\ (stack[i].module \in BuiltinModules => i = Len(stack))

\* A statement whose registration is there.
Happened(s) ==
  \/ s.does = "pack" /\ s.what \in PACKS
  \/ s.does = "check" /\ Registered(s.what)

\* The import of module m has passed statement k.
Past(m, k) == m \in modules /\ \A i \in DOMAIN stack : stack[i].module = m => stack[i].at > k

(***************************************************************************)
(* What a built-in pack registers, it registered itself, in an import that *)
(* stands; or another pack has taken a check of its.                       *)
(***************************************************************************)
OwnUnlessTaken(b) ==
  \A k \in DOMAIN Body[b.module] :
    Happened(Body[b.module][k]) => Past(b.module, k) \/ Taken(b)

CutShort ==
  /\ pc = "failed" /\ builtin => Taken(here)
  /\ report.end = "aborted" => \E b \in Elements(Builtins) : b.name \notin disabled /\ Taken(b)

BuiltinsInv ==
  /\ AttributionInv /\ OnItsWay /\ StackedOnce /\ LoadedSoFar /\ CutShort
  /\ \A b \in Elements(Builtins) : OwnUnlessTaken(b)

-------------------------------------------------------------------------------
\* The candidates begin with the built-in packs.
LEMMA BuiltinsComeFirst ==
  ASSUME TypeOK
  PROVE  /\ Builtins \in Seq(EntryPoint) /\ Len(Builtins) \in Nat /\ Len(Builtins) <= Len(Candidates)
         /\ \A i \in 1 .. Len(Builtins) :
              /\ Candidates[i] = Builtins[i] /\ Builtins[i] \in Elements(Builtins)
         /\ \A b \in Elements(Builtins) : b.module \in Module
<1>1. Builtins \in Seq(EntryPoint) /\ entry_points \in Seq(EntryPoint)
  BY PackAssumption DEF TypeOK
<1>2. /\ Len(Candidates) = Len(Builtins) + Len(entry_points)
      /\ \A i \in 1 .. Len(Builtins) + Len(entry_points) :
           Candidates[i] = IF i <= Len(Builtins) THEN Builtins[i] ELSE entry_points[i - Len(Builtins)]
  BY <1>1, ConcatProperties DEF Candidates
<1>3. ASSUME NEW i \in 1 .. Len(Builtins) PROVE Candidates[i] = Builtins[i] /\ Builtins[i] \in Elements(Builtins)
  BY <1>1, <1>2 DEF Elements
<1>4. ASSUME NEW b \in Elements(Builtins) PROVE b.module \in Module
  <2>1. b \in EntryPoint
    BY <1>1 DEF Elements
  <2> QED  BY <2>1 DEF EntryPoint
<1> QED  BY <1>1, <1>2, <1>3, <1>4

\* A built-in pack that has been imported is registered, with its checks.
LEMMA BuiltinIsComplete ==
  ASSUME IInv, NEW b \in Elements(Builtins), b.module \in modules, stack = <<>>
  PROVE  b.name \in PACKS /\ \A c \in OwnChecks(b.module) : Registered(c)
<1>1. TypeOK /\ b.module \in Module
  BY BuiltinsComeFirst DEF IInv
<1>2. \A k \in DOMAIN Body[b.module] : InEffect(Body[b.module][k])
  BY DEF IInv, ModulesComplete, InFlight
<1>3. b.name \in PACKS
  <2>1. RegisterPack(b.name, TRUE) \in Elements(Body[b.module])
    BY BuiltinAssumption
  <2>2. PICK k \in DOMAIN Body[b.module] : Body[b.module][k] = RegisterPack(b.name, TRUE)
    BY <2>1 DEF Elements
  <2> QED  BY <1>2, <2>2 DEF InEffect, RegisterPack
<1>4. ASSUME NEW c \in OwnChecks(b.module) PROVE Registered(c)
  <2>1. PICK s \in Elements(Body[b.module]) : s.does = "check" /\ s.what = c
    BY <1>4 DEF OwnChecks, Does
  <2>2. PICK k \in DOMAIN Body[b.module] : Body[b.module][k] = s
    BY <2>1 DEF Elements
  <2> QED  BY <1>2, <2>1, <2>2 DEF InEffect
<1> QED  BY <1>3, <1>4

\* Nothing but the import in progress moves the discovery.
LEMMA DisabledOnlyChosen ==
  ASSUME [Next]_vars
  PROVE  /\ entry_points' = entry_points
         /\ disabled' = disabled \/ \E d \in Disablings : Discover(d)
BY DEF Next, Work, vars, Registers, Declares, Imports, Completes, Raises, Returns, Skip, Load, Discover,
       Loaded, NeverRegistered, Failed, Aborts, Finishes, End, ImportElsewhere

LEMMA OnItsWayStep == TypeOK /\ AtACandidate /\ OnItsWay /\ [Next]_vars => OnItsWay'
<1> SUFFICES ASSUME TypeOK, AtACandidate, OnItsWay, [Next]_vars PROVE OnItsWay'
  OBVIOUS
<1> USE DEF registries, reports
<1>1. ASSUME Settled, report' = report, disabled' = disabled, modules \subseteq modules',
             pc' \in {"importing", "imported"} => pc \in {"importing", "imported"},
             pc' = "failed" => pc \in {"failed", "importing"} \/ at = 0
      PROVE  OnItsWay'
  BY <1>1, OriginLasts DEF OnItsWay, Settled
<1>2. CASE Registers \/ Declares \/ Imports \/ Completes \/ Returns
  BY <1>1, <1>2 DEF Registers, Declares, Imports, Completes, Returns, Settled, InStatement, Importing
<1>3. CASE Raises
  <2>1. Settled /\ report' = report /\ disabled' = disabled /\ pc = "importing" /\ pc' \notin {"importing", "imported"}
    BY <1>3 DEF Raises, Settled, InStatement, Importing
  <2> QED  BY <2>1, OriginLasts DEF OnItsWay, Settled
<1>4. CASE Load
  <2>1. PICK n : n = here.module
    OBVIOUS
  <2>2. /\ Settled /\ report' = report /\ disabled' = disabled /\ here.name \notin disabled
        /\ Enter(n)
    BY <1>4, <2>1 DEF Load, Settled
  <2>3. n \in modules'
    BY <2>2 DEF Enter
  <2> QED  BY <2>1, <2>2, <2>3, OriginLasts DEF OnItsWay, Settled
<1>5. CASE (\E d \in Disablings : Discover(d)) \/ Skip \/ Loaded \/ NeverRegistered \/ Failed
  <2>1. pc' = "choosing" /\ report'.end = "running"
    <3>1. CASE \E d \in Disablings : Discover(d)
      BY <3>1 DEF Discover, Empty
    <3>2. CASE Skip \/ Loaded \/ NeverRegistered \/ Failed
      <4>1. report.end = "running" /\ report \in LoadReport /\ pc' = "choosing"
        BY <3>2 DEF Skip, Loaded, NeverRegistered, Failed, Onwards, OnItsWay, AtACandidate, TypeOK
      <4>2. report'.end = report.end
        BY <3>2, <4>1 DEF Skip, Loaded, NeverRegistered, Failed, LoadReport
      <4> QED  BY <4>1, <4>2
    <3> QED  BY <1>5, <3>1, <3>2
  <2> QED  BY <2>1 DEF OnItsWay
<1>6. CASE Aborts \/ Finishes \/ \E m \in Importable : ImportElsewhere(m)
  BY <1>6 DEF Aborts, Finishes, End, ImportElsewhere, OnItsWay, AtACandidate
<1>7. CASE UNCHANGED vars
  BY <1>1, <1>7 DEF vars, Settled
<1> QED  BY <1>2, <1>3, <1>4, <1>5, <1>6, <1>7 DEF Next, Work

LEMMA ReadyLasts ==
  ASSUME TypeOK, Grown, Elements(report.loaded) \subseteq Elements(report'.loaded),
         NEW b \in Elements(Builtins), Ready(b)
  PROVE  Ready(b)'
<1>1. OwnChecks(b.module) \subseteq Check
  BY BuiltinsComeFirst DEF OwnChecks, Check
<1> QED  BY <1>1 DEF Ready, Grown

\* What a discovery appends to what it loaded.
LEMMA AppendElements ==
  ASSUME NEW S, NEW s \in Seq(S), NEW x \in S
  PROVE  Elements(s) \subseteq Elements(Append(s, x)) /\ x \in Elements(Append(s, x))
<1>1. PICK t : t = Append(s, x)
  OBVIOUS
<1>2. DOMAIN t = DOMAIN s \cup {Len(s) + 1} /\ (\A i \in DOMAIN s : t[i] = s[i]) /\ t[Len(s) + 1] = x
  BY <1>1
<1> QED  BY <1>1, <1>2 DEF Elements

LEMMA LoadedSoFarStep ==
  IInv /\ OnItsWay /\ LoadedSoFar /\ [Next]_vars => LoadedSoFar'
<1> SUFFICES ASSUME IInv, OnItsWay, LoadedSoFar, [Next]_vars PROVE LoadedSoFar'
  OBVIOUS
<1> USE DEF registries, reports
<1>0. /\ TypeOK /\ AtACandidate /\ Grown /\ at \in Nat /\ Len(Builtins) \in Nat /\ report \in LoadReport
      /\ Len(Candidates) \in Nat /\ Len(Builtins) <= Len(Candidates)
      /\ DOMAIN Builtins = 1 .. Len(Builtins)
      /\ at \in 1 .. Len(Builtins) => here = Builtins[at]
  BY RegistriesGrow, BuiltinsComeFirst, CandidatesType DEF IInv, TypeOK, here
<1>1. ASSUME disabled' = disabled,
             Elements(report.loaded) \subseteq Elements(report'.loaded),
             NEW i \in 1 .. Len(Builtins), Ready(Builtins[i])
      PROVE  Ready(Builtins[i])'
  <2>1. PICK b : b = Builtins[i]
    OBVIOUS
  <2>2. b \in Elements(Builtins) /\ Ready(b)
    BY <1>0, <1>1, <2>1, BuiltinsComeFirst
  <2> QED  BY <1>0, <1>1, <2>1, <2>2, ReadyLasts
<1>2. ASSUME at' = at, disabled' = disabled, report' = report PROVE LoadedSoFar'
  BY <1>0, <1>1, <1>2 DEF LoadedSoFar, Tried
<1>3. PICK h : h = here
  OBVIOUS
<1>4. ASSUME at' = at + 1, at # 0, disabled' = disabled, report'.end = "running",
             Elements(report.loaded) \subseteq Elements(report'.loaded),
             at <= Len(Builtins) /\ h.name \notin disabled => Ready(h)'
      PROVE  LoadedSoFar'
  <2>1. ASSUME NEW i \in 1 .. at, Tried(i) PROVE Ready(Builtins[i])'
    <3>1. i \in 1 .. Len(Builtins) /\ Builtins[i].name \notin disabled
      BY <1>0, <2>1 DEF Tried
    <3>2. CASE i = at
      <4>1. h = Builtins[i]
        BY <1>0, <1>3, <3>1, <3>2
      <4> QED  BY <1>4, <3>1, <3>2, <4>1
    <3>3. CASE i \in 1 .. at - 1
      BY <1>1, <1>4, <2>1, <3>1, <3>3 DEF LoadedSoFar
    <3> QED  BY <1>0, <3>2, <3>3
  <2>2. at' - 1 = at
    BY <1>0, <1>4
  <2> QED  BY <1>4, <2>1, <2>2 DEF LoadedSoFar, Tried
<1>5. CASE Skip
  <2>1. report'.loaded = report.loaded /\ report'.end = report.end
    BY <1>0, <1>5 DEF Skip, LoadReport
  <2> QED  BY <1>0, <1>3, <1>4, <1>5, <2>1 DEF Skip, OnItsWay, AtACandidate
<1>6. CASE Loaded \/ NeverRegistered
  <2>1. /\ pc = "imported" /\ at # 0 /\ at \in 1 .. Len(Candidates) /\ stack = <<>>
        /\ report.end = "running" /\ h.module \in modules
    BY <1>0, <1>3, <1>6 DEF Loaded, NeverRegistered, AtACandidate, OnItsWay
  <2>2. ASSUME at <= Len(Builtins)
        PROVE  h \in Elements(Builtins) /\ h.name \in PACKS /\ \A c \in OwnChecks(h.module) : Registered(c)
    <3>1. h \in Elements(Builtins)
      BY <1>0, <1>3, <2>1, <2>2, BuiltinsComeFirst
    <3> QED  BY <2>1, <3>1, BuiltinIsComplete
  <2>3. ASSUME at <= Len(Builtins) PROVE Ready(h)'
    <3>1. Loaded
      BY <1>3, <1>6, <2>2, <2>3 DEF NeverRegistered
    <3>2. /\ report.loaded \in Seq(AnyName) /\ h.name \in AnyName
          /\ report'.loaded = Append(report.loaded, h.name)
      BY <1>0, <1>3, <2>1, <3>1, CandidatesType DEF Loaded, LoadReport, here
    <3>3. h.name \in Elements(report'.loaded)
      BY <3>2, AppendElements
    <3>4. \A c \in OwnChecks(h.module) : Registered(c)'
      <4>1. OwnChecks(h.module) \subseteq Check
        BY <1>0, <2>2, <2>3, BuiltinsComeFirst DEF OwnChecks, Check
      <4> QED  BY <1>0, <2>2, <2>3, <4>1 DEF Grown
    <3> QED  BY <3>3, <3>4 DEF Ready
  <2>4. Elements(report.loaded) \subseteq Elements(report'.loaded) /\ report'.end = report.end
    <3>1. CASE NeverRegistered
      BY <1>0, <3>1 DEF NeverRegistered, LoadReport
    <3>2. CASE Loaded
      <4>1. /\ report.loaded \in Seq(AnyName) /\ h.name \in AnyName
            /\ report'.loaded = Append(report.loaded, h.name) /\ report'.end = report.end
        BY <1>0, <1>3, <2>1, <3>2, CandidatesType DEF Loaded, LoadReport, here
      <4> QED  BY <4>1, AppendElements
    <3> QED  BY <1>6, <3>1, <3>2
  <2> QED  BY <1>4, <1>6, <2>1, <2>3, <2>4 DEF Loaded, NeverRegistered, Onwards
<1>7. CASE Failed
  <2>1. report'.loaded = report.loaded /\ report'.end = report.end /\ ~ at <= Len(Builtins)
    BY <1>0, <1>7 DEF Failed, LoadReport, builtin
  <2> QED  BY <1>0, <1>4, <1>7, <2>1 DEF Failed, Onwards, OnItsWay, AtACandidate
<1>8. CASE Finishes
  <2>1. at > Len(Candidates) /\ at' = 0 /\ disabled' = disabled /\ report'.loaded = report.loaded
    BY <1>0, <1>8 DEF Finishes, End, LoadReport
  <2>2. ASSUME NEW i \in DOMAIN Builtins, Tried(i) PROVE Ready(Builtins[i])'
    <3>1. i \in 1 .. Len(Builtins) /\ i \in 1 .. at - 1
      BY <1>0, <2>1
    <3> QED  BY <1>1, <2>1, <2>2, <3>1 DEF LoadedSoFar
  <2> QED  BY <2>1, <2>2 DEF LoadedSoFar, Tried
<1>9. CASE Aborts \/ (\E d \in Disablings : Discover(d)) \/ (\E m \in Importable : ImportElsewhere(m))
  <2>1. at' = 0 \/ at' = 1
    BY <1>0, <1>9 DEF Aborts, End, Discover, ImportElsewhere, AtACandidate
  <2>2. report'.end # "returned"
    <3>1. CASE Aborts
      BY <1>0, <3>1 DEF Aborts, End, LoadReport
    <3>2. CASE \E d \in Disablings : Discover(d)
      BY <3>2 DEF Discover, Empty
    <3>3. CASE \E m \in Importable : ImportElsewhere(m)
      BY <3>3 DEF ImportElsewhere, Empty
    <3> QED  BY <1>9, <3>1, <3>2, <3>3
  <2>3. 1 .. at' - 1 = {}
    BY <2>1
  <2> QED  BY <2>2, <2>3 DEF LoadedSoFar
<1>10. CASE Registers \/ Declares \/ Imports \/ Completes \/ Raises \/ Returns \/ Load \/ UNCHANGED vars
  <2>1. at' = at /\ disabled' = disabled /\ report' = report
    BY <1>10 DEF Registers, Declares, Imports, Completes, Raises, Returns, Load, vars
  <2> QED  BY <1>2, <2>1
<1> QED  BY <1>5, <1>6, <1>7, <1>8, <1>9, <1>10 DEF Next, Work

-------------------------------------------------------------------------------
LEMMA BuiltinBody ==
  ASSUME NEW b \in Elements(Builtins), NEW k \in DOMAIN Body[b.module]
  PROVE  \/ /\ Body[b.module][k].does = "pack" /\ Body[b.module][k].what = b.name
            /\ Body[b.module][k].compatible
         \/ Body[b.module][k].does = "check"
<1>1. Body[b.module][k] = RegisterPack(b.name, TRUE) \/ Body[b.module][k].does = "check"
  BY BuiltinAssumption
<1> QED  BY <1>1 DEF RegisterPack

\* Nothing comes with a built-in pack.
LEMMA BuiltinComesAlone ==
  ASSUME NEW b \in Elements(Builtins), b.module \in Module, NEW x \in BroughtIn[b.module]
  PROVE  x = b.module
<1>1. Leads({b.module})
  <2>1. Does(b.module, "import") = {}
    <3>1. ASSUME NEW t \in Elements(Body[b.module]), t.does = "import" PROVE FALSE
      <4>1. PICK k \in DOMAIN Body[b.module] : Body[b.module][k] = t
        BY DEF Elements
      <4> QED  BY <3>1, <4>1, BuiltinBody
    <3> QED  BY <3>1 DEF Does
  <2> QED  BY <2>1 DEF Leads
<1>2. x \in {y \in Module : \A S \in SUBSET Module : b.module \in S /\ Leads(S) => y \in S}
  BY DEF BroughtIn
<1>3. {b.module} \in SUBSET Module
  OBVIOUS
<1>4. x \in {b.module}
  BY <1>1, <1>2, <1>3
<1> QED  BY <1>4

LEMMA TakenLasts ==
  ASSUME TypeOK, [Next]_vars, NEW b \in Elements(Builtins), Taken(b)
  PROVE  Taken(b)'
<1>1. PICK c \in OwnChecks(b.module) : CHECKS[c] \notin {NoPack, "core", b.name}
  BY DEF Taken
<1>2. c \in Check
  BY BuiltinsComeFirst DEF OwnChecks, Check
<1>3. CHECKS'[c] = CHECKS[c]
  BY <1>1, <1>2, AttributedOnce DEF Registered
<1> QED  BY <1>1, <1>3 DEF Taken, NoPack

\* Every step is an import's, begins one, or leaves the stack as it is.
LEMMA KindsOfStep ==
  ASSUME TypeOK, AtACandidate, [Next]_vars
  PROVE  \/ Registers \/ Declares \/ Imports \/ Completes
         \/ Raises
         \/ stack = <<>> /\ \E n \in Module : Enter(n)
         \/ Quiet
<1>1. CASE Load
  <2>1. PICK n : n = here.module
    OBVIOUS
  <2>2. pc = "choosing" /\ at \in 1 .. Len(Candidates) /\ Enter(n)
    BY <1>1, <2>1, CandidatesType DEF Load, AtACandidate, TypeOK
  <2>3. n \in Module /\ stack = <<>>
    BY <2>1, <2>2, CandidatesType DEF here, AtACandidate
  <2> QED  BY <2>2, <2>3
<1>2. CASE \E m \in Importable : ImportElsewhere(m)
  BY <1>2, PackAssumption DEF ImportElsewhere, AtACandidate
<1>3. CASE UNCHANGED vars \/ Returns \/ (\E d \in Disablings : Discover(d)) \/ Skip \/ Loaded
             \/ NeverRegistered \/ Failed \/ Aborts \/ Finishes
  BY <1>3 DEF vars, registries, Returns, Discover, Skip, Loaded, NeverRegistered, Failed, Aborts,
              Finishes, End, Quiet
<1> QED  BY <1>1, <1>2, <1>3 DEF Next, Work

LEMMA StackedOnceStep == TypeOK /\ AtACandidate /\ StackedOnce /\ [Next]_vars => StackedOnce'
<1> SUFFICES ASSUME TypeOK, AtACandidate, StackedOnce, [Next]_vars,
                    NEW i \in DOMAIN stack'
             PROVE  stack'[i].module \in modules' /\ (stack'[i].module \in BuiltinModules => i = Len(stack'))
  BY DEF StackedOnce, BuiltinModules
<1>1. CASE Registers \/ Declares \/ Imports \/ Completes
  <2>1. modules \subseteq modules'
    BY <1>1 DEF Registers, Declares, Imports, Completes, registries
  <2>2. CASE /\ i \in DOMAIN stack
             /\ stack'[i].module = stack[i].module /\ stack'[i].at >= stack[i].at
             /\ i = Len(stack) => /\ ~ Completes /\ stack'[i].at = top.at + 1
                                  /\ \/ Len(stack') = i
                                     \/ Imports /\ statement.what \notin modules
    <3>1. stack'[i].module \in modules'
      BY <2>1, <2>2 DEF StackedOnce
    <3>2. ASSUME stack'[i].module \in BuiltinModules PROVE i = Len(stack')
      <4>1. i = Len(stack)
        BY <2>2, <3>2 DEF StackedOnce
      <4>2. ASSUME Imports PROVE FALSE
        <5>1. PICK b \in Elements(Builtins) : top.module = b.module
          BY <2>2, <3>2, <4>1 DEF BuiltinModules, top
        <5>2. top.at \in DOMAIN Body[b.module] /\ Body[b.module][top.at].does = "import"
          BY <4>2, <5>1 DEF Imports, InStatement, statement
        <5> QED  BY <5>2, BuiltinBody
      <4> QED  BY <2>2, <4>1, <4>2
    <3> QED  BY <3>1, <3>2
  <2>3. CASE /\ Imports /\ statement.what \notin modules /\ i = Len(stack) + 1
             /\ stack'[i] = Frame(statement.what) /\ Len(stack') = i
    <3>1. modules' = modules \cup {statement.what}
      BY <2>3 DEF Imports
    <3> QED  BY <2>3, <3>1 DEF Frame
  <2> QED  BY <1>1, <2>2, <2>3, FramesOfNext
<1>2. CASE Raises
  BY <1>2 DEF Raises
<1>3. CASE stack = <<>> /\ \E n \in Module : Enter(n)
  <2>1. PICK n \in Module : Enter(n)
    BY <1>3
  <2>2. stack' = <<Frame(n)>> /\ modules' = modules \cup {n}
    BY <2>1 DEF Enter
  <2> QED  BY <2>2 DEF Frame
<1>4. CASE Quiet
  <2>1. i \in DOMAIN stack /\ stack' = stack /\ modules' = modules
    BY <1>4 DEF Quiet
  <2> QED  BY <2>1 DEF StackedOnce
<1> QED  BY <1>1, <1>2, <1>3, <1>4, KindsOfStep

LEMMA PastLasts ==
  ASSUME TypeOK, AtACandidate, [Next]_vars, NEW m \in Module, NEW k \in Nat, Past(m, k),
         Raises => m \notin InFlight
  PROVE  Past(m, k)'
<1>0. m \in modules /\ \A i \in DOMAIN stack : stack[i].module = m => stack[i].at > k
  BY DEF Past
<1> SUFFICES m \in modules' /\ \A i \in DOMAIN stack' : stack'[i].module = m => stack'[i].at > k
  BY DEF Past
<1>1. CASE Registers \/ Declares \/ Imports \/ Completes
  <2>1. modules \subseteq modules'
    BY <1>1 DEF Registers, Declares, Imports, Completes, registries
  <2>2. ASSUME NEW i \in DOMAIN stack', stack'[i].module = m PROVE stack'[i].at > k
    <3>1. CASE i \in DOMAIN stack /\ stack'[i].module = stack[i].module /\ stack'[i].at >= stack[i].at
      <4>1. stack[i].at > k /\ stack[i].at \in Nat
        <5>1. stack[i] \in StackFrame
          BY <3>1 DEF TypeOK
        <5> QED  BY <1>0, <2>2, <3>1, <5>1 DEF StackFrame
      <4>2. stack'[i].at \in Nat
        <5>1. stack'[i] \in StackFrame
          BY <2>2, TypeStep DEF TypeOK
        <5> QED  BY <5>1 DEF StackFrame
      <4> QED  BY <3>1, <4>1, <4>2
    <3>2. CASE statement.what \notin modules /\ stack'[i] = Frame(statement.what)
      BY <1>0, <2>2, <3>2 DEF Frame
    <3> QED  BY <1>1, <2>2, <3>1, <3>2, FramesOfNext
  <2> QED  BY <1>0, <2>1, <2>2
<1>2. CASE Raises
  BY <1>0, <1>2 DEF Raises
<1>3. CASE stack = <<>> /\ \E n \in Module : Enter(n)
  <2>1. PICK n \in Module : Enter(n)
    BY <1>3
  <2>2. modules' = modules \cup {n} /\ stack' = IF n \in modules THEN <<>> ELSE <<Frame(n)>>
    BY <2>1 DEF Enter
  <2>3. CASE n \in modules
    BY <1>0, <2>2, <2>3
  <2>4. CASE n \notin modules
    <3>1. n # m /\ stack' = <<Frame(n)>>
      BY <1>0, <2>2, <2>4
    <3> QED  BY <1>0, <2>2, <3>1 DEF Frame
  <2> QED  BY <2>3, <2>4
<1>4. CASE Quiet
  BY <1>0, <1>4 DEF Quiet
<1> QED  BY <1>1, <1>2, <1>3, <1>4, KindsOfStep

\* A built-in pack that is being imported is what is on top.
LEMMA BuiltinOnTop ==
  ASSUME TypeOK, StackedOnce, NEW i \in DOMAIN stack, stack[i].module \in BuiltinModules
  PROVE  i = Len(stack) /\ top.module = stack[i].module /\ top.at = stack[i].at /\ stack # <<>>
BY DEF StackedOnce, top

\* A built-in pack raises only where another pack has taken a check of its.
LEMMA RaisesWhereTaken ==
  ASSUME TypeOK, StackedOnce, Raises, NEW b \in Elements(Builtins), OwnUnlessTaken(b),
         b.module \in InFlight
  PROVE  Taken(b)
<1>1. PICK i \in DOMAIN stack : stack[i].module = b.module
  BY DEF InFlight
<1>2. i = Len(stack) /\ top.module = b.module /\ top.at = stack[i].at
  BY <1>1, BuiltinOnTop DEF BuiltinModules
<1>3. PICK k : k = top.at
  OBVIOUS
<1>4. k \in DOMAIN Body[b.module] /\ statement = Body[b.module][k] /\ Fails
  BY <1>2, <1>3 DEF Raises, InStatement, statement
<1>5. Happened(Body[b.module][k])
  <2>1. CASE Body[b.module][k].does = "check"
    BY <1>4, <2>1 DEF Fails, Happened
  <2>2. CASE Body[b.module][k].does = "pack" /\ Body[b.module][k].compatible
    BY <1>4, <2>2 DEF Fails, Happened
  <2> QED  BY <1>4, <2>1, <2>2, BuiltinBody
<1>6. ~ Past(b.module, k)
  <2>1. ~ stack[i].at > k
    <3>1. stack[i] \in StackFrame
      BY <1>1 DEF TypeOK
    <3>2. stack[i].at \in Nat /\ k = stack[i].at
      BY <1>2, <1>3, <3>1 DEF StackFrame
    <3> QED  BY <3>2
  <2> QED  BY <1>1, <2>1 DEF Past
<1> QED  BY <1>4, <1>5, <1>6 DEF OwnUnlessTaken

\* A check of a built-in pack that another module declares is taken from it.
LEMMA DeclaredByAnother ==
  ASSUME NamesApart, AttributionInv, InStatement, NEW b \in Elements(Builtins),
         NEW c \in OwnChecks(b.module), c \in Does(top.module, "check"), top.module # b.module
  PROVE  current_pack \notin {NoPack, "core", b.name}
<1>0. TypeOK /\ AtACandidate /\ ImportsForOne
  BY DEF AttributionInv, IInv
<1>1. PICK m \in Origin : top.module \in BroughtIn[m]
  <2>1. Len(stack) \in DOMAIN stack /\ top = stack[Len(stack)]
    BY <1>0, TopIsOnStack, StatementType
  <2> QED  BY <1>0, <2>1 DEF ImportsForOne
<1>2. ASSUME NEW d \in Elements(Builtins), m = d.module PROVE FALSE
  <2>1. d.module \in Module
    BY <1>0, BuiltinsComeFirst
  <2>2. top.module = d.module
    BY <1>1, <1>2, <2>1, BuiltinComesAlone
  <2>3. d # b /\ c \in Does(d.module, "check") \cap Does(b.module, "check")
    BY <2>2 DEF OwnChecks
  <2> QED  BY <2>3, BuiltinAssumption
<1>3. at # 0
  <2>1. ASSUME at = 0 PROVE m \in BuiltinModules
    BY <2>1 DEF Origin, NamesApart
  <2> QED  BY <1>2, <2>1 DEF BuiltinModules
<1>4. pc = "importing" /\ at \in 1 .. Len(Candidates) /\ m = here.module
  BY <1>0, <1>3, CandidatesType DEF AtACandidate, TypeOK, InStatement, Importing, Origin
<1>5. here \in Elements(entry_points)
  <2>1. Builtins \in Seq(EntryPoint) /\ entry_points \in Seq(EntryPoint)
    BY <1>0, PackAssumption DEF TypeOK
  <2>2. CASE at \in 1 .. Len(Builtins)
    BY <1>0, <1>2, <1>4, <2>2, BuiltinsComeFirst DEF here
  <2>3. CASE at \notin 1 .. Len(Builtins)
    <3>1. /\ Len(Candidates) = Len(Builtins) + Len(entry_points)
          /\ here = entry_points[at - Len(Builtins)]
      BY <1>4, <2>1, <2>3, ConcatProperties DEF Candidates, here
    <3>2. at - Len(Builtins) \in DOMAIN entry_points
      BY <1>4, <2>1, <2>3, <3>1
    <3> QED  BY <3>1, <3>2 DEF Elements
  <2> QED  BY <2>2, <2>3
<1>6. here.name \notin Names(Builtins) \cup {"core"}
  BY <1>0, <1>5 DEF NamesApart, TypeOK
<1>7. current_pack = here.name /\ here.name # NoPack
  <2>1. loading = here.name /\ here.name \in AnyName
    BY <1>0, <1>3, <1>4, CandidatesType DEF ImportsForOne, here
  <2> QED  BY <2>1, NameAssumption DEF current_pack
<1>8. b.name \in Names(Builtins)
  BY DEF Names
<1> QED  BY <1>6, <1>7, <1>8

\* A statement of a built-in pack, once executed, is passed.
LEMMA GoneBy ==
  ASSUME TypeOK, StackedOnce, NEW b \in Elements(Builtins), NEW k \in Nat,
         Registers \/ Declares, top.module = b.module, top.at = k
  PROVE  Past(b.module, k)'
<1>1. modules' = modules /\ InStatement
  BY DEF Registers, Declares, registries
<1>2. Len(stack) \in DOMAIN stack /\ top = stack[Len(stack)]
  BY <1>1, TopIsOnStack, StatementType
<1>3. b.module \in modules'
  BY <1>1, <1>2 DEF StackedOnce
<1>4. ASSUME NEW i \in DOMAIN stack', stack'[i].module = b.module PROVE stack'[i].at > k
  <2>1. /\ i \in DOMAIN stack /\ stack'[i].module = stack[i].module
        /\ i = Len(stack) => stack'[i].at = top.at + 1
    <3>1. ~ Imports
      BY DEF Registers, Declares, Imports
    <3> QED  BY <1>4, <3>1, FramesOfNext
  <2>2. i = Len(stack)
    BY <1>4, <2>1, BuiltinOnTop DEF BuiltinModules
  <2> QED  BY <2>1, <2>2
<1> QED  BY <1>3, <1>4 DEF Past

LEMMA OwnUnlessTakenStep ==
  ASSUME NamesApart, AttributionInv, StackedOnce, [Next]_vars,
         NEW b \in Elements(Builtins), OwnUnlessTaken(b)
  PROVE  OwnUnlessTaken(b)'
<1>0. TypeOK /\ AtACandidate /\ b.module \in Module
  BY BuiltinsComeFirst DEF AttributionInv, IInv
<1>1. SUFFICES ASSUME NEW k \in DOMAIN Body[b.module], NEW s, s = Body[b.module][k], Happened(s)'
               PROVE  Past(b.module, k)' \/ Taken(b)'
  BY DEF OwnUnlessTaken
<1>2. k \in Nat
  <2>1. Body[b.module] \in Seq(Statement)
    BY <1>0, PackAssumption
  <2> QED  BY <1>1, <2>1
<1>3. CASE Happened(s)
  <2>1. CASE Taken(b)
    BY <1>0, <2>1, TakenLasts
  <2>2. CASE Past(b.module, k) /\ ~ Taken(b)
    <3>1. Raises => b.module \notin InFlight
      BY <1>0, <2>2, RaisesWhereTaken
    <3> QED  BY <1>0, <1>2, <2>2, <3>1, PastLasts
  <2> QED  BY <1>1, <1>3, <2>1, <2>2 DEF OwnUnlessTaken
<1>4. CASE ~ Happened(s)
  <2>1. CASE s.does = "pack"
    <3>1. s.what = b.name /\ s.what \in PACKS' /\ s.what \notin PACKS
      BY <1>1, <1>4, <2>1, BuiltinBody DEF Happened
    <3>2. Registers
      BY <3>1 DEF Next, Work, vars, registries, Declares, Imports, Completes, Raises, Returns, Discover, Skip,
             Load, Loaded, NeverRegistered, Failed, Aborts, Finishes, End, ImportElsewhere
    <3>3. /\ InStatement /\ statement.does = "pack" /\ statement.what = b.name
          /\ top.at \in DOMAIN Body[top.module] /\ statement = Body[top.module][top.at]
          /\ top.module \in Module
      BY <1>0, <3>1, <3>2, TopIsOnStack, StatementType DEF Registers, InStatement, statement
    <3>4. b.name \in Does(top.module, "pack") /\ b.name \in Names(Builtins)
      BY <1>0, <3>3, StatementOfTop DEF Names
    <3>5. PICK d \in Elements(Builtins) : top.module = d.module
      BY <3>3, <3>4 DEF NamesApart, BuiltinModules
    <3>6. d.name = b.name
      BY <3>3, <3>5, BuiltinBody
    <3>7. d = b
      BY <3>6, BuiltinAssumption
    <3>8. top.at = k
      <4>1. /\ top.at \in DOMAIN Body[b.module]
            /\ Body[b.module][top.at].does = Body[b.module][k].does
            /\ Body[b.module][top.at].what = Body[b.module][k].what
        BY <1>1, <2>1, <3>1, <3>3, <3>5, <3>7
      <4> QED  BY <1>1, <4>1, BuiltinAssumption
    <3> QED  BY <1>0, <1>2, <3>2, <3>5, <3>7, <3>8, GoneBy
  <2>2. CASE s.does = "check"
    <3>1. PICK c : c = s.what
      OBVIOUS
    <3>2. s \in {t \in Elements(Body[b.module]) : t.does = "check"}
      BY <1>1, <2>2 DEF Elements
    <3>3. c \in OwnChecks(b.module) /\ c \in Check
      BY <1>0, <3>1, <3>2 DEF OwnChecks, Does, Check
    <3>4. CHECKS'[c] # NoPack /\ ~ Registered(c)
      BY <1>1, <1>4, <2>2, <3>1 DEF Happened, Registered, NoPack
    <3>5. Declares
      BY <1>0, <3>3, <3>4, AttributedOnce DEF Registered
    <3>6. /\ InStatement /\ statement.does = "check"
          /\ CHECKS' = [CHECKS EXCEPT ![statement.what] = current_pack]
          /\ top.at \in DOMAIN Body[top.module] /\ statement = Body[top.module][top.at]
      BY <3>5 DEF Declares, InStatement, statement
    <3>7. c = statement.what /\ CHECKS'[c] = current_pack
      BY <1>0, <3>3, <3>4, <3>6 DEF TypeOK, Registered
    <3>8. CASE top.module = b.module
      <4>1. top.at = k
        BY <1>1, <2>2, <3>1, <3>6, <3>7, <3>8, BuiltinAssumption
      <4> QED  BY <1>0, <1>2, <3>5, <3>8, <4>1, GoneBy
    <3>9. CASE top.module # b.module
      <4>1. c \in Does(top.module, "check")
        BY <1>0, <3>6, <3>7, StatementOfTop
      <4>2. CHECKS'[c] \notin {NoPack, "core", b.name}
        BY <3>3, <3>6, <3>7, <3>9, <4>1, DeclaredByAnother
      <4> QED  BY <3>3, <4>2 DEF Taken, NoPack
    <3> QED  BY <3>8, <3>9
  <2> QED  BY <1>1, <2>1, <2>2, BuiltinBody
<1> QED  BY <1>3, <1>4

LEMMA CutShortStep ==
  NamesApart /\ BuiltinsInv /\ [Next]_vars => CutShort'
<1> SUFFICES ASSUME NamesApart, BuiltinsInv, [Next]_vars PROVE CutShort'
  OBVIOUS
<1> USE DEF registries, reports
<1>0. /\ AttributionInv /\ TypeOK /\ AtACandidate /\ ImportsForOne /\ OnItsWay /\ StackedOnce /\ CutShort
      /\ \A b \in Elements(Builtins) : OwnUnlessTaken(b)
      /\ report \in LoadReport /\ at \in Nat
  BY DEF BuiltinsInv, AttributionInv, IInv, TypeOK
<1>1. PICK h : h = here
  OBVIOUS
<1>2. ASSUME at # 0, at <= Len(Builtins) PROVE h \in Elements(Builtins) /\ h.module \in Module
  <2>1. at \in 1 .. Len(Builtins)
    BY <1>0, <1>2, BuiltinsComeFirst
  <2> QED  BY <1>0, <1>1, <2>1, BuiltinsComeFirst DEF here
<1>3. ASSUME pc' = "failed", at' <= Len(Builtins) PROVE Taken(here)'
  <2>1. Raises \/ (pc = "failed" /\ UNCHANGED vars)
    BY <1>3 DEF Next, Work, vars, Registers, Declares, Imports, Completes, Returns, Skip, Load, Discover, Loaded,
           NeverRegistered, Failed, Aborts, Finishes, End, ImportElsewhere, Enter, Onwards, InStatement,
           Importing
  <2>2. Settled /\ at # 0
    BY <1>0, <1>3, <2>1 DEF Raises, vars, Settled, AtACandidate
  <2>3. here' = h /\ at' = at
    BY <1>1, <2>2, OriginLasts DEF Settled
  <2>4. Taken(h)
    <3>1. CASE pc = "failed"
      BY <1>0, <1>1, <1>3, <2>3, <3>1 DEF CutShort, builtin
    <3>2. CASE Raises
      <4>1. Len(stack) \in DOMAIN stack /\ top = stack[Len(stack)]
        BY <1>0, <3>2, TopIsOnStack, StatementType DEF Raises
      <4>2. top.module \in BroughtIn[h.module]
        BY <1>0, <1>1, <2>2, <4>1 DEF ImportsForOne, Origin
      <4>3. top.module = h.module
        BY <1>2, <1>3, <2>2, <2>3, <4>2, BuiltinComesAlone
      <4>4. h.module \in InFlight
        BY <4>1, <4>3 DEF InFlight
      <4> QED  BY <1>0, <1>2, <1>3, <2>2, <2>3, <3>2, <4>4, RaisesWhereTaken
    <3> QED  BY <2>1, <3>1, <3>2
  <2>5. h \in Elements(Builtins)
    BY <1>2, <1>3, <2>2, <2>3
  <2>6. Taken(h)'
    BY <1>0, <2>4, <2>5, TakenLasts
  <2> QED  BY <2>3, <2>6
<1>4. ASSUME report'.end = "aborted"
      PROVE  \E b \in Elements(Builtins) : b.name \notin disabled' /\ Taken(b)'
  <2>1. CASE Aborts
    <3>1. pc = "failed" /\ at <= Len(Builtins) /\ disabled' = disabled /\ at # 0
      BY <1>0, <2>1 DEF Aborts, End, builtin, AtACandidate
    <3>2. h \in Elements(Builtins) /\ h.name \notin disabled /\ Taken(h)
      BY <1>0, <1>1, <1>2, <3>1 DEF CutShort, OnItsWay, builtin
    <3> QED  BY <1>0, <3>1, <3>2, TakenLasts
  <2>2. CASE report.end = "aborted" /\ disabled' = disabled
    <3>1. PICK b \in Elements(Builtins) : b.name \notin disabled /\ Taken(b)
      BY <1>0, <2>2 DEF CutShort
    <3> QED  BY <1>0, <2>2, <3>1, TakenLasts
  <2>3. CASE Skip \/ Loaded \/ NeverRegistered \/ Failed
    <3>1. at # 0 /\ report.end = "running"
      BY <1>0, <2>3 DEF Skip, Loaded, NeverRegistered, Failed, AtACandidate, OnItsWay
    <3>2. report'.end = report.end
      BY <1>0, <2>3 DEF Skip, Loaded, NeverRegistered, Failed, LoadReport
    <3> QED  BY <1>4, <3>1, <3>2
  <2>4. CASE Finishes \/ (\E d \in Disablings : Discover(d)) \/ (\E m \in Importable : ImportElsewhere(m))
    <3>1. report'.end \in {"returned", "running", "none"}
      <4>1. CASE Finishes
        BY <1>0, <4>1 DEF Finishes, End, LoadReport
      <4>2. CASE \E d \in Disablings : Discover(d)
        BY <4>2 DEF Discover, Empty
      <4>3. CASE \E m \in Importable : ImportElsewhere(m)
        BY <4>3 DEF ImportElsewhere, Empty
      <4> QED  BY <2>4, <4>1, <4>2, <4>3
    <3> QED  BY <1>4, <3>1
  <2>5. CASE Registers \/ Declares \/ Imports \/ Completes \/ Raises \/ Returns \/ Load \/ UNCHANGED vars
    <3>1. report' = report /\ disabled' = disabled
      BY <2>5 DEF Registers, Declares, Imports, Completes, Raises, Returns, Load, vars
    <3> QED  BY <1>4, <2>2, <3>1
  <2> QED  BY <2>1, <2>3, <2>4, <2>5 DEF Next, Work
<1> QED  BY <1>3, <1>4 DEF CutShort, builtin

LEMMA BuiltinsInvariant == NamesApart => (Spec => []BuiltinsInv)
<1> SUFFICES ASSUME NamesApart PROVE Spec => []BuiltinsInv
  OBVIOUS
<1>1. Init => BuiltinsInv
  <2> SUFFICES ASSUME Init PROVE BuiltinsInv
    OBVIOUS
  <2>1. AttributionInv
    BY InitHolds DEF AttributionInv, Init, ImportsForOne, AttributedHonestly, Registered
  <2>2. OnItsWay /\ StackedOnce /\ CutShort
    BY DEF Init, OnItsWay, StackedOnce, CutShort, Empty
  <2>3. LoadedSoFar
    <3>1. 1 .. at - 1 = {}
      BY DEF Init
    <3> QED  BY <3>1 DEF Init, LoadedSoFar, Empty
  <2>4. ASSUME NEW b \in Elements(Builtins), NEW k \in DOMAIN Body[b.module]
        PROVE  ~ Happened(Body[b.module][k])
    <3>1. b.module \in Module
      BY <2>1, BuiltinsComeFirst DEF AttributionInv, IInv
    <3>2. Body[b.module][k].does = "check" => Body[b.module][k].what \in Check
      BY <3>1, BodyType
    <3> QED  BY <3>2 DEF Happened, Init, Registered
  <2> QED  BY <2>1, <2>2, <2>3, <2>4 DEF BuiltinsInv, OwnUnlessTaken
<1>2. BuiltinsInv /\ [Next]_vars => BuiltinsInv'
  <2> SUFFICES ASSUME BuiltinsInv, [Next]_vars PROVE BuiltinsInv'
    OBVIOUS
  <2>1. /\ AttributionInv /\ IInv /\ TypeOK /\ AtACandidate /\ ImportsForOne /\ OnItsWay /\ StackedOnce
        /\ LoadedSoFar /\ \A b \in Elements(Builtins) : OwnUnlessTaken(b)
    BY DEF BuiltinsInv, AttributionInv, IInv
  <2>2. AttributionInv'
    <3>1. IInv'
      BY <2>1, TypeStep, AtACandidateStep, ModulesStep DEF IInv
    <3> QED  BY <2>1, <3>1, ImportsForOneStep, AttributionStep DEF AttributionInv
  <2>3. OnItsWay' /\ LoadedSoFar' /\ StackedOnce'
    BY <2>1, OnItsWayStep, LoadedSoFarStep, StackedOnceStep
  <2>4. \A b \in Elements(Builtins) : OwnUnlessTaken(b)'
    BY <2>1, OwnUnlessTakenStep
  <2> QED  BY <2>2, <2>3, <2>4, CutShortStep DEF BuiltinsInv
<1> QED  BY <1>1, <1>2, PTL DEF Spec

(***************************************************************************)
(* For any installed packs that keep off the built-in ones' names: a       *)
(* discovery that returns has loaded every built-in pack that is not       *)
(* disabled, with its checks, whatever failed beside them; and one is cut  *)
(* short only where another pack has taken the name of a built-in check    *)
(* (packs/__init__.py:161-203).                                            *)
(***************************************************************************)
THEOREM BuiltinsAreLoaded == NamesApart => (Spec => []BuiltinsLoad)
<1> SUFFICES ASSUME NamesApart PROVE Spec => []BuiltinsLoad
  OBVIOUS
<1>1. BuiltinsInv => BuiltinsLoad
  <2> SUFFICES ASSUME BuiltinsInv PROVE BuiltinsLoad
    OBVIOUS
  <2>1. ASSUME report.end = "returned", NEW b \in Elements(Builtins), b.name \notin disabled
        PROVE  Ready(b)
    <3>1. PICK i \in DOMAIN Builtins : Builtins[i] = b
      BY DEF Elements
    <3>2. i <= Len(Builtins)
      BY PackAssumption
    <3> QED  BY <2>1, <3>1, <3>2 DEF BuiltinsInv, LoadedSoFar, Tried
  <2>2. report.end = "aborted" => \E b \in Elements(Builtins) : b.name \notin disabled /\ Taken(b)
    BY DEF BuiltinsInv, CutShort
  <2> QED  BY <2>1, <2>2 DEF BuiltinsLoad
<1> QED  BY BuiltinsInvariant, <1>1, PTL

-------------------------------------------------------------------------------
(***************************************************************************)
(* A statement that raises, now and for good: registrations are never      *)
(* taken back. A module that has one ahead is never imported to its end,   *)
(* and no module that imports it is, unless in a circle.                   *)
(***************************************************************************)
Hopeless(s) ==
  \/ s.does = "raise"
  \/ s.does = "pack" /\ (s.what \in PACKS \/ ~ s.compatible)
  \/ s.does = "check" /\ Registered(s.what)

Doomed(m) == \E k \in DOMAIN Body[m] : Hopeless(Body[m][k]) /\ ~ Past(m, k)
Barred(m) == \E x \in BroughtIn[m] : Doomed(x)

\* Modules that are there in full.
Whole == modules \ InFlight

\* What is on the stack is imported by what is below it; what it has imported
\* is there; and what is there in full, with all it imports.
Chain == \A i, j \in DOMAIN stack : j <= i => stack[i].module \in BroughtIn[stack[j].module]

ImportsMet ==
  \A i \in DOMAIN stack : \A k \in 1 .. stack[i].at - 1 :
    LET s == Body[stack[i].module][k] IN s.does = "import" => s.what \in modules

NamesRegistered == \A name \in PACKS : \E m \in Module : name \in Does(m, "pack")

FailedForGood == pc = "failed" /\ at # 0 => Barred(here.module)

\* How a pack fares, in this discovery and in every later one.
Good(e) == e.name \in PACKS /\ e.module \in Whole
Bad(e) == e.name \notin Does(e.module, "pack") \/ Barred(e.module)

(***************************************************************************)
(* A report r of the first n candidates: in their order, each once, and as *)
(* it still fares.                                                         *)
(***************************************************************************)
InOrder(s) ==
  \A j, k \in DOMAIN s : \A a, b \in DOMAIN Candidates :
    j < k /\ s[j] = Candidates[a].name /\ s[k] = Candidates[b].name => a < b

From(s, n) == \A j \in DOMAIN s : \E a \in 1 .. n : s[j] = Candidates[a].name

Listed(s, n) == s \in Seq(AnyName) /\ n <= Len(Candidates) /\ InOrder(s) /\ From(s, n)

TellsOf(r, a) ==
  LET e == Candidates[a] IN
  /\ e.name \in Elements(r.skipped) <=> e.name \in r.disabled
  /\ e.name \in Elements(r.loaded) => e.name \notin r.disabled /\ Good(e)
  /\ e.name \in Elements(r.failed) => e.name \notin r.disabled /\ Bad(e) /\ a > Len(Builtins)
  /\ e.name \in Elements(r.skipped) \cup Elements(r.loaded) \cup Elements(r.failed)

Tells(r, n) ==
  /\ Len(r.loaded) + Len(r.failed) + Len(r.skipped) = n
  /\ Listed(r.loaded, n) /\ Listed(r.failed, n) /\ Listed(r.skipped, n)
  /\ \A a \in 1 .. n : TellsOf(r, a)

ReportTells ==
  /\ report.end # "none" => report.disabled = disabled
  /\ report.end = "running" => at # 0 /\ Tells(report, at - 1)
  /\ report.end = "returned" => Tells(report, Len(Candidates))
  /\ last.end = "returned" => Tells(last, Len(Candidates))

Begins(s, t) == Len(s) <= Len(t) /\ \A j \in DOMAIN s : s[j] = t[j]

Following ==
  last.end = "returned" /\ last.disabled = report.disabled =>
    /\ report.end # "aborted"
    /\ report.end = "running" => /\ Begins(report.loaded, last.loaded)
                                 /\ Begins(report.failed, last.failed)
                                 /\ Begins(report.skipped, last.skipped)
    /\ report.end = "returned" => report = last

\* A report stands until the next discovery begins, or other code imports.
Undisturbed == report.end \in {"returned", "aborted"} => pc = "idle"

FateInv ==
  /\ AttributionInv /\ OnItsWay /\ Undisturbed
  /\ Chain /\ ImportsMet /\ NamesRegistered /\ FailedForGood
  /\ Untangled => Leads(Whole) /\ ReportTells /\ Following

-------------------------------------------------------------------------------
\* How a step moves the stack: what is below the top stays.
LEMMA StackMoves ==
  ASSUME TypeOK, Registers \/ Declares \/ Imports \/ Completes
  PROVE  /\ stack # <<>> /\ Len(stack) \in Nat \ {0} /\ Len(stack) \in DOMAIN stack
         /\ \A i \in DOMAIN stack : i # Len(stack) => i \in DOMAIN stack' /\ stack'[i] = stack[i]
         /\ ~ Completes => /\ Len(stack) \in DOMAIN stack'
                           /\ stack'[Len(stack)] = [module |-> top.module, at |-> top.at + 1]
<1>1. PICK b : b = Below
  OBVIOUS
<1>2. PICK g : g = [module |-> top.module, at |-> top.at + 1]
  OBVIOUS
<1>3. PICK t : t = stack'
  OBVIOUS
<1>4. stack # <<>> /\ stack \in Seq(StackFrame)
  BY DEF TypeOK, Registers, Declares, Imports, Completes, InStatement, Importing
<1>5. /\ b \in Seq(StackFrame) /\ Len(b) = Len(stack) - 1 /\ Len(stack) \in Nat \ {0}
      /\ \A j \in DOMAIN stack : j # Len(stack) => j \in DOMAIN b /\ b[j] = stack[j]
  BY <1>1, <1>4, BelowIsShorter DEF Below
<1>6. g \in StackFrame /\ Len(stack) \in DOMAIN stack
  BY <1>2, <1>4, TopType DEF StackFrame
<1>7. CASE t = b /\ Completes
  BY <1>3, <1>4, <1>5, <1>6, <1>7
<1>8. PICK u : u = Append(b, g)
  OBVIOUS
<1>9. /\ u \in Seq(StackFrame) /\ Len(stack) \in DOMAIN u /\ u[Len(stack)] = g
      /\ \A j \in DOMAIN stack : j # Len(stack) => j \in DOMAIN u /\ u[j] = stack[j]
  <2>1. /\ DOMAIN u = DOMAIN b \cup {Len(b) + 1} /\ (\A j \in DOMAIN b : u[j] = b[j]) /\ u[Len(b) + 1] = g
        /\ u \in Seq(StackFrame)
    BY <1>5, <1>6, <1>8, PushedStack
  <2>2. Len(b) + 1 = Len(stack)
    BY <1>5
  <2> QED  BY <1>5, <2>1, <2>2
<1>10. CASE t = u
  BY <1>2, <1>3, <1>4, <1>5, <1>6, <1>9, <1>10
<1>11. CASE Imports /\ t = Append(u, Frame(statement.what))
  <2>1. PICK h : h = Frame(statement.what)
    OBVIOUS
  <2>2. h \in StackFrame
    BY <1>11, <2>1, StatementType DEF Imports, Frame, StackFrame
  <2>3. DOMAIN t = DOMAIN u \cup {Len(u) + 1} /\ \A j \in DOMAIN u : t[j] = u[j]
    BY <1>9, <1>11, <2>1, <2>2, PushedStack
  <2> QED  BY <1>2, <1>3, <1>4, <1>5, <1>6, <1>9, <2>3
<1>12. (t = b /\ Completes) \/ t = u \/ (Imports /\ t = Append(u, Frame(statement.what)))
  <2>1. CASE Completes
    BY <1>1, <1>3, <2>1 DEF Completes
  <2>2. CASE Registers \/ Declares
    BY <1>1, <1>2, <1>3, <1>8, <2>2 DEF Registers, Declares, GoOn
  <2>3. CASE Imports
    BY <1>1, <1>2, <1>3, <1>8, <2>3 DEF Imports
  <2> QED  BY <2>1, <2>2, <2>3
<1> QED  BY <1>7, <1>10, <1>11, <1>12

LEMMA HopelessLasts ==
  ASSUME TypeOK, Grown, NEW m \in Module, NEW k \in DOMAIN Body[m], Hopeless(Body[m][k])
  PROVE  Hopeless(Body[m][k])'
<1>1. Body[m][k].does = "check" => Body[m][k].what \in Check
  BY BodyType
<1> QED  BY <1>1 DEF Hopeless, Grown

\* No import passes a statement that raises.
LEMMA NeverPast ==
  ASSUME TypeOK, AtACandidate, [Next]_vars, NEW m \in Module, NEW k \in DOMAIN Body[m],
         Hopeless(Body[m][k]), ~ Past(m, k)
  PROVE  ~ Past(m, k)'
<1>0. k \in Nat \ {0} /\ Body[m] \in Seq(Statement)
  BY PackAssumption
<1>1. CASE m \notin modules
  <2>1. ASSUME m \in modules' PROVE \E i \in DOMAIN stack' : stack'[i].module = m /\ stack'[i].at = 1
    <3>1. CASE Imports
      <4>1. /\ statement.what = m /\ statement.what \notin modules
            /\ stack' = Append(Append(Below, [module |-> top.module, at |-> top.at + 1]), Frame(m))
        BY <1>1, <2>1, <3>1 DEF Imports
      <4>2. PICK u : u = Append(Below, [module |-> top.module, at |-> top.at + 1])
        OBVIOUS
      <4>3. [module |-> top.module, at |-> top.at + 1] \in StackFrame /\ Below \in Seq(StackFrame)
        BY <3>1, StatementType DEF Imports, StackFrame
      <4>4. u \in Seq(StackFrame) /\ Frame(m) \in StackFrame
        BY <4>2, <4>3 DEF Frame, StackFrame
      <4>5. stack' = Append(u, Frame(m))
        BY <4>1, <4>2
      <4>6. Len(u) + 1 \in DOMAIN stack' /\ stack'[Len(u) + 1] = Frame(m)
        BY <4>4, <4>5, PushedStack
      <4> QED  BY <4>6 DEF Frame
    <3>2. CASE stack = <<>> /\ \E n \in Module : Enter(n)
      <4>1. PICK n \in Module : Enter(n)
        BY <3>2
      <4>2. n = m /\ stack' = <<Frame(m)>>
        BY <1>1, <2>1, <4>1 DEF Enter
      <4> QED  BY <4>2 DEF Frame
    <3>3. CASE Registers \/ Declares \/ Completes \/ Raises \/ Quiet
      BY <1>1, <2>1, <3>3 DEF Registers, Declares, Completes, Raises, Quiet, registries
    <3> QED  BY <3>1, <3>2, <3>3, KindsOfStep
  <2>2. ~ 1 > k
    BY <1>0
  <2> QED  BY <2>1, <2>2 DEF Past
<1>2. CASE m \in modules
  <2>1. PICK i \in DOMAIN stack : stack[i].module = m /\ ~ stack[i].at > k
    BY <1>2 DEF Past
  <2>2. stack \in Seq(StackFrame) /\ stack[i].at \in Nat \ {0}
    <3>1. stack[i] \in StackFrame
      BY <2>1 DEF TypeOK
    <3> QED  BY <3>1 DEF StackFrame, TypeOK
  <2>3. CASE (Registers \/ Declares \/ Imports \/ Completes) /\ i # Len(stack)
    <3>1. i \in DOMAIN stack' /\ stack'[i] = stack[i]
      BY <2>1, <2>3, StackMoves
    <3> QED  BY <2>1, <3>1 DEF Past
  <2>4. CASE (Registers \/ Declares \/ Imports \/ Completes) /\ i = Len(stack)
    <3>1. top = stack[i] /\ top.module = m /\ top.at = stack[i].at
      BY <2>1, <2>4, TopIsOnStack, StackMoves
    <3>2. top.at \in DOMAIN Body[m]
      BY <1>0, <2>1, <2>2, <3>1
    <3>3. ~ Completes
      BY <3>1, <3>2 DEF Completes
    <3>4. top.at # k
      <4>1. ASSUME top.at = k PROVE FALSE
        <5>1. statement = Body[m][k]
          BY <3>1, <4>1 DEF statement
        <5>2. statement.does \in {"pack", "check", "import"}
          BY <2>4, <3>3 DEF Registers, Declares, Imports
        <5>3. Registers \/ Declares
          BY <2>4, <3>3, <5>1, <5>2 DEF Hopeless, Imports
        <5> QED  BY <5>1, <5>3 DEF Registers, Declares, Hopeless
      <4> QED  BY <4>1
    <3>5. i \in DOMAIN stack' /\ stack'[i].module = m /\ stack'[i].at = top.at + 1
      BY <2>4, <3>1, <3>3, StackMoves
    <3>6. ~ stack'[i].at > k
      BY <1>0, <2>1, <2>2, <3>1, <3>4, <3>5
    <3> QED  BY <3>5, <3>6 DEF Past
  <2>5. CASE Raises
    BY <2>1, <2>5 DEF Raises, InFlight, Past
  <2>6. CASE stack = <<>>
    BY <2>1, <2>6
  <2>7. CASE Quiet
    BY <2>1, <2>7 DEF Quiet, Past
  <2> QED  BY <2>3, <2>4, <2>5, <2>6, <2>7, KindsOfStep
<1> QED  BY <1>1, <1>2

LEMMA BarredLasts ==
  ASSUME TypeOK, AtACandidate, [Next]_vars, NEW m \in Module, Barred(m)
  PROVE  Barred(m)'
<1>1. PICK x \in BroughtIn[m] : Doomed(x)
  BY DEF Barred
<1>2. x \in Module
  BY <1>1 DEF BroughtIn
<1>3. PICK k \in DOMAIN Body[x] : Hopeless(Body[x][k]) /\ ~ Past(x, k)
  BY <1>1 DEF Doomed
<1>4. Hopeless(Body[x][k])' /\ ~ Past(x, k)'
  BY <1>2, <1>3, RegistriesGrow, HopelessLasts, NeverPast
<1> QED  BY <1>1, <1>4 DEF Barred, Doomed

-------------------------------------------------------------------------------
\* A frame of the next stack is one of this stack, gone on or not, or a new one.
LEMMA ChainStep ==
  TypeOK /\ AtACandidate /\ Chain /\ [Next]_vars => Chain'
<1> SUFFICES ASSUME TypeOK, AtACandidate, Chain, [Next]_vars,
                    NEW i \in DOMAIN stack', NEW j \in DOMAIN stack', j <= i
             PROVE  stack'[i].module \in BroughtIn[stack'[j].module]
  BY DEF Chain
<1>0. stack' \in Seq(StackFrame)
  BY TypeStep DEF TypeOK
<1>1. stack'[i].module \in Module /\ stack'[j].module \in Module /\ i \in Nat /\ j \in Nat
  <2>1. stack'[i] \in StackFrame /\ stack'[j] \in StackFrame
    BY <1>0
  <2> QED  BY <1>0, <2>1 DEF StackFrame
<1>2. CASE stack'[i].module = stack'[j].module
  BY <1>1, <1>2, BringsIn
<1>3. CASE Registers \/ Declares \/ Imports \/ Completes
  <2>1. ASSUME i \in DOMAIN stack, stack'[i].module = stack[i].module,
               j \in DOMAIN stack, stack'[j].module = stack[j].module
        PROVE  stack'[i].module \in BroughtIn[stack'[j].module]
    BY <2>1 DEF Chain
  <2>2. ASSUME Imports, i = Len(stack) + 1, stack'[i] = Frame(statement.what),
               j \in DOMAIN stack, stack'[j].module = stack[j].module
        PROVE  stack'[i].module \in BroughtIn[stack'[j].module]
    <3>1. statement.does = "import" /\ InStatement
      BY <2>2 DEF Imports
    <3>2. /\ statement.what \in Module /\ statement.what \in Does(top.module, "import")
          /\ Len(stack) \in DOMAIN stack /\ top = stack[Len(stack)]
      BY <3>1, StatementType, StatementOfTop, TopIsOnStack
    <3>3. j <= Len(stack)
      BY <2>2 DEF TypeOK
    <3>4. top.module \in BroughtIn[stack[j].module]
      BY <2>2, <3>2, <3>3 DEF Chain
    <3>5. statement.what \in BroughtIn[stack[j].module]
      BY <1>1, <2>2, <3>2, <3>4, BringsIn
    <3>6. stack'[i].module = statement.what
      BY <2>2 DEF Frame
    <3> QED  BY <2>2, <3>5, <3>6
  <2>3. Len(stack) \in Nat /\ DOMAIN stack = 1 .. Len(stack)
    BY DEF TypeOK
  <2>4. \/ i \in DOMAIN stack /\ stack'[i].module = stack[i].module
        \/ Imports /\ i = Len(stack) + 1 /\ stack'[i] = Frame(statement.what)
    BY <1>3, FramesOfNext
  <2>5. \/ j \in DOMAIN stack /\ stack'[j].module = stack[j].module
        \/ Imports /\ j = Len(stack) + 1 /\ stack'[j] = Frame(statement.what)
    BY <1>3, FramesOfNext
  <2>6. ~ (j = Len(stack) + 1 /\ i \in DOMAIN stack)
    BY <1>1, <2>3
  <2>7. i = j => stack'[i].module = stack'[j].module
    OBVIOUS
  <2> QED  BY <1>2, <2>1, <2>2, <2>4, <2>5, <2>6, <2>7
<1>4. CASE Raises
  BY <1>4 DEF Raises
<1>5. CASE stack = <<>> /\ \E n \in Module : Enter(n)
  <2>1. PICK n \in Module : Enter(n)
    BY <1>5
  <2>2. stack' = <<Frame(n)>>
    BY <2>1 DEF Enter
  <2>3. stack'[i].module = n /\ stack'[j].module = n
    BY <2>2 DEF Frame
  <2> QED  BY <1>2, <2>3
<1>6. CASE Quiet
  BY <1>6 DEF Quiet, Chain
<1> QED  BY <1>3, <1>4, <1>5, <1>6, KindsOfStep

\* What an import has executed of a module's imports is there.
LEMMA ImportsMetStep ==
  TypeOK /\ AtACandidate /\ ImportsMet /\ [Next]_vars => ImportsMet'
<1> SUFFICES ASSUME TypeOK, AtACandidate, ImportsMet, [Next]_vars,
                    NEW i \in DOMAIN stack', NEW k \in 1 .. stack'[i].at - 1,
                    NEW m, m = stack'[i].module, NEW s, s = Body[m][k], s.does = "import"
             PROVE  s.what \in modules'
  BY DEF ImportsMet
<1>0. stack' \in Seq(StackFrame) /\ stack'[i].at \in Nat /\ k \in Nat \ {0} /\ k < stack'[i].at
  <2>1. stack'[i] \in StackFrame /\ stack' \in Seq(StackFrame)
    BY TypeStep DEF TypeOK
  <2> QED  BY <2>1 DEF StackFrame
<1>1. CASE Registers \/ Declares \/ Imports \/ Completes
  <2>1. modules \subseteq modules'
    BY <1>1 DEF Registers, Declares, Imports, Completes, registries
  <2>2. CASE i \in DOMAIN stack /\ i # Len(stack)
    <3>1. stack'[i] = stack[i]
      BY <1>1, <2>2, StackMoves
    <3> QED  BY <2>1, <2>2, <3>1 DEF ImportsMet
  <2>3. CASE i = Len(stack)
    <3>1. ~ Completes /\ i \in DOMAIN stack
      BY <1>1, <2>3, FramesOfNext, StackMoves
    <3>2. stack'[i] = [module |-> top.module, at |-> top.at + 1] /\ top = stack[i]
      BY <1>1, <2>3, <3>1, StackMoves, TopIsOnStack
    <3>3. top.at \in Nat /\ m = stack[i].module /\ top.module = m
      BY <1>1, <3>2, StackMoves, TopType DEF StackFrame
    <3>4. CASE k = top.at
      <4>1. statement = s
        BY <3>3, <3>4 DEF statement
      <4>2. Imports
        BY <1>1, <3>1, <4>1 DEF Registers, Declares
      <4> QED  BY <4>1, <4>2 DEF Imports
    <3>5. CASE k # top.at
      <4>1. k \in 1 .. stack[i].at - 1
        BY <1>0, <3>2, <3>3, <3>5
      <4> QED  BY <2>1, <3>1, <3>3, <4>1 DEF ImportsMet
    <3> QED  BY <3>4, <3>5
  <2>4. CASE stack'[i] = Frame(statement.what)
    BY <1>0, <2>4 DEF Frame
  <2> QED  BY <1>1, <2>2, <2>3, <2>4, FramesOfNext
<1>2. CASE Raises
  BY <1>2 DEF Raises
<1>3. CASE stack = <<>> /\ \E n \in Module : Enter(n)
  <2>1. PICK n \in Module : Enter(n)
    BY <1>3
  <2>2. stack' = <<Frame(n)>>
    BY <2>1 DEF Enter
  <2> QED  BY <1>0, <2>2 DEF Frame
<1>4. CASE Quiet
  BY <1>4 DEF Quiet, ImportsMet
<1> QED  BY <1>1, <1>2, <1>3, <1>4, KindsOfStep

\* What has been imported to its end is never taken out again.
LEMMA WholeLasts ==
  ASSUME TypeOK, AtACandidate, [Next]_vars
  PROVE  /\ Whole \subseteq Whole'
         /\ \A m \in Whole' : m \in Whole \/ (Completes /\ m = top.module)
<1>0. stack' \in Seq(StackFrame)
  BY TypeStep DEF TypeOK
<1>1. CASE Registers \/ Declares \/ Imports \/ Completes
  <2>1. /\ modules \subseteq modules'
        /\ \A m \in modules' : m \in modules \/ (Imports /\ m = statement.what /\ m \notin modules)
    BY <1>1 DEF Registers, Declares, Imports, Completes, registries
  <2>2. ASSUME NEW m \in modules, m \in InFlight' PROVE m \in InFlight
    <3>1. PICK i \in DOMAIN stack' : stack'[i].module = m
      BY <2>2 DEF InFlight
    <3>2. i \in DOMAIN stack /\ stack'[i].module = stack[i].module
      <4>1. ASSUME statement.what \notin modules, stack'[i] = Frame(statement.what) PROVE FALSE
        BY <3>1, <4>1 DEF Frame
      <4> QED  BY <1>1, <4>1, FramesOfNext
    <3> QED  BY <3>1, <3>2 DEF InFlight
  <2>3. ASSUME NEW m \in modules, m \in InFlight, m \notin InFlight'
        PROVE  Completes /\ m = top.module
    <3>1. PICK i \in DOMAIN stack : stack[i].module = m
      BY <2>3 DEF InFlight
    <3>2. i = Len(stack)
      <4>1. ASSUME i # Len(stack) PROVE FALSE
        <5>1. i \in DOMAIN stack' /\ stack'[i].module = m
          BY <1>1, <3>1, <4>1, StackMoves
        <5> QED  BY <2>3, <5>1 DEF InFlight
      <4> QED  BY <4>1
    <3>3. top.module = m
      BY <1>1, <3>1, <3>2, StackMoves, TopIsOnStack
    <3>4. Completes
      <4>1. ASSUME ~ Completes PROVE FALSE
        <5>1. Len(stack) \in DOMAIN stack' /\ stack'[Len(stack)].module = m
          BY <1>1, <3>3, <4>1, StackMoves
        <5> QED  BY <2>3, <5>1 DEF InFlight
      <4> QED  BY <4>1
    <3> QED  BY <3>3, <3>4
  <2>4. ASSUME Imports, statement.what \notin modules PROVE statement.what \in InFlight'
    <3>1. PICK u : u = Append(Below, [module |-> top.module, at |-> top.at + 1])
      OBVIOUS
    <3>2. stack' = Append(u, Frame(statement.what))
      BY <2>4, <3>1 DEF Imports
    <3>3. [module |-> top.module, at |-> top.at + 1] \in StackFrame /\ Below \in Seq(StackFrame)
          /\ statement.what \in Module
      BY <2>4, StatementType DEF Imports, StackFrame
    <3>4. PICK h : h = Frame(statement.what)
      OBVIOUS
    <3>5. u \in Seq(StackFrame) /\ h \in StackFrame /\ h.module = statement.what
      BY <3>1, <3>3, <3>4 DEF Frame, StackFrame
    <3>6. Len(u) + 1 \in DOMAIN stack' /\ stack'[Len(u) + 1] = h
      BY <3>2, <3>4, <3>5, PushedStack
    <3> QED  BY <3>5, <3>6 DEF InFlight
  <2> QED  BY <2>1, <2>2, <2>3, <2>4 DEF Whole
<1>2. CASE Raises
  BY <1>2 DEF Raises, Whole, InFlight
<1>3. CASE stack = <<>> /\ \E n \in Module : Enter(n)
  <2>1. PICK n \in Module : Enter(n)
    BY <1>3
  <2>2. modules' = modules \cup {n} /\ stack' = IF n \in modules THEN <<>> ELSE <<Frame(n)>>
    BY <2>1 DEF Enter
  <2>3. InFlight = {}
    BY <1>3 DEF InFlight
  <2>4. CASE n \in modules
    BY <1>3, <2>2, <2>4 DEF Whole, InFlight
  <2>5. CASE n \notin modules
    <3>1. stack' = <<Frame(n)>>
      BY <2>2, <2>5
    <3>2. InFlight' = {n}
      BY <3>1 DEF InFlight, Frame
    <3> QED  BY <2>2, <2>3, <2>5, <3>2 DEF Whole
  <2> QED  BY <2>4, <2>5
<1>4. CASE Quiet
  BY <1>4 DEF Quiet, Whole, InFlight
<1> QED  BY <1>1, <1>2, <1>3, <1>4, KindsOfStep

\* Nothing an import brings in is imported in a circle.
LEMMA Straight ==
  ASSUME NamesApart, Untangled, TypeOK, AtACandidate, ImportsForOne,
         NEW i \in DOMAIN stack, NEW y \in Does(stack[i].module, "import")
  PROVE  stack[i].module \notin BroughtIn[y]
<1>1. PICK o \in Origin : stack[i].module \in BroughtIn[o]
  BY DEF ImportsForOne
<1>2. CASE at = 0
  <2>1. PICK b \in Elements(Builtins) : o = b.module
    BY <1>1, <1>2 DEF Origin, NamesApart, BuiltinModules
  <2>2. stack[i].module = b.module
    BY <1>1, <2>1, BuiltinsComeFirst, BuiltinComesAlone
  <2>3. PICK k \in DOMAIN Body[b.module] : Body[b.module][k].does = "import"
    BY <2>2 DEF Does, Elements
  <2> QED  BY <2>3, BuiltinBody
<1>3. CASE at # 0
  <2>1. at \in 1 .. Len(Candidates)
    <3>1. stack # <<>>
      OBVIOUS
    <3>2. pc = "importing"
      BY <3>1 DEF AtACandidate
    <3> QED  BY <1>3, <3>2, CandidatesType DEF AtACandidate, TypeOK
  <2>2. here \in Elements(Candidates) /\ o = here.module
    BY <1>1, <1>3, <2>1, CandidatesType DEF here, Elements, Origin
  <2> QED  BY <1>1, <2>2 DEF Untangled, OnTheirOwn
<1> QED  BY <1>2, <1>3

\* What is there in full is there with all it imports.
LEMMA WholeLeadsStep ==
  ASSUME NamesApart, Untangled, TypeOK, AtACandidate, ImportsForOne, Chain, ImportsMet, Leads(Whole),
         [Next]_vars
  PROVE  Leads(Whole)'
<1> SUFFICES ASSUME NEW m \in Whole', NEW y \in Does(m, "import") PROVE y \in Whole'
  BY DEF Leads, Does, Elements
<1>1. CASE m \in Whole
  BY <1>1, WholeLasts DEF Leads
<1>2. CASE Completes /\ m = top.module
  <2>1. /\ Len(stack) \in DOMAIN stack /\ stack \in Seq(StackFrame) /\ stack[Len(stack)] = top
        /\ top \in StackFrame
    BY <1>2, StackMoves, TopIsOnStack, TopType DEF TypeOK
  <2>2. PICK k \in DOMAIN Body[m] : Body[m][k].does = "import" /\ Body[m][k].what = y
    BY DEF Does, Elements
  <2>3. k \in 1 .. top.at - 1
    <3>1. Body[m] \in Seq(Statement) /\ top.at \in Nat \ {0}
      BY <1>2, <2>1, PackAssumption DEF StackFrame
    <3>2. top.at \notin DOMAIN Body[m]
      BY <1>2 DEF Completes
    <3> QED  BY <2>2, <3>1, <3>2
  <2>4. y \in modules
    BY <1>2, <2>1, <2>2, <2>3 DEF ImportsMet
  <2>5. ASSUME y \in InFlight' PROVE FALSE
    <3>1. PICK j \in DOMAIN stack' : stack'[j].module = y
      BY <2>5 DEF InFlight
    <3>2. j \in DOMAIN stack /\ stack[j].module = y
      <4>1. ~ Imports
        BY <1>2 DEF Completes, Imports, InStatement
      <4> QED  BY <1>2, <3>1, <4>1, FramesOfNext
    <3>3. m \in BroughtIn[y]
      BY <1>2, <2>1, <3>2 DEF Chain
    <3> QED  BY <1>2, <2>1, <3>3, Straight
  <2>6. modules' = modules
    BY <1>2 DEF Completes, registries
  <2> QED  BY <2>4, <2>5, <2>6 DEF Whole
<1> QED  BY <1>1, <1>2, WholeLasts

\* So everything it brings in is there in full.
LEMMA WholeDeep ==
  ASSUME TypeOK, Leads(Whole), NEW m \in Whole
  PROVE  m \in Module /\ BroughtIn[m] \subseteq Whole
<1>1. Whole \in SUBSET Module
  BY DEF Whole, TypeOK
<1> QED  BY <1>1 DEF BroughtIn

LEMMA NamesRegisteredStep ==
  TypeOK /\ NamesRegistered /\ [Next]_vars => NamesRegistered'
<1> SUFFICES ASSUME TypeOK, NamesRegistered, [Next]_vars, NEW name \in PACKS', name \notin PACKS
             PROVE  \E m \in Module : name \in Does(m, "pack")
  BY DEF NamesRegistered, Does, Elements
<1>1. Registers
  BY DEF Next, Work, vars, registries, Declares, Imports, Completes, Raises, Returns, Discover, Skip,
         Load, Loaded, NeverRegistered, Failed, Aborts, Finishes, End, ImportElsewhere
<1>2. InStatement /\ statement.does = "pack" /\ name = statement.what
  BY <1>1 DEF Registers
<1>3. name \in Does(top.module, "pack") /\ top.module \in Module
  BY <1>2, StatementOfTop, StatementType, TopIsOnStack
<1> QED  BY <1>3

(***************************************************************************)
(* A pack has a name of its own and an import in one direction: it is      *)
(* there, or never will be.                                                *)
(***************************************************************************)
LEMMA NeverBoth ==
  ASSUME IInv, Untangled, Leads(Whole), NamesRegistered, NEW e \in Elements(Candidates), Good(e)
  PROVE  ~ Bad(e)
<1>0. TypeOK /\ ModulesComplete
  BY DEF IInv
<1>1. e.name \in Does(e.module, "pack")
  BY DEF Good, NamesRegistered, Untangled, OnTheirOwn
<1>2. ASSUME Barred(e.module) PROVE FALSE
  <2>1. PICK x \in BroughtIn[e.module] : Doomed(x)
    BY <1>2 DEF Barred
  <2>2. x \in Whole
    BY <1>0, <2>1, WholeDeep DEF Good
  <2>3. \A k : Past(x, k)
    BY <2>2 DEF Whole, InFlight, Past
  <2> QED  BY <2>1, <2>3 DEF Doomed
<1> QED  BY <1>1, <1>2 DEF Bad

LEMMA FatesLast ==
  ASSUME TypeOK, AtACandidate, [Next]_vars, NEW e \in EntryPoint
  PROVE  (Good(e) => Good(e)') /\ (Bad(e) => Bad(e)')
<1>1. e.module \in Module
  BY DEF EntryPoint
<1>2. PACKS \subseteq PACKS'
  BY RegistriesGrow DEF Grown
<1>3. Good(e) => Good(e)'
  BY <1>2, WholeLasts DEF Good
<1>4. Barred(e.module) => Barred(e.module)'
  BY <1>1, BarredLasts
<1> QED  BY <1>3, <1>4 DEF Bad, Does, Elements

\* A candidate that raised will raise again.
LEMMA FailedForGoodStep ==
  ASSUME TypeOK, AtACandidate, ImportsForOne, FailedForGood, [Next]_vars
  PROVE  FailedForGood'
<1> SUFFICES ASSUME pc' = "failed", at' # 0 PROVE Barred(here.module)'
  BY DEF FailedForGood, Barred
<1> USE DEF registries, reports
<1>1. Raises \/ (pc = "failed" /\ UNCHANGED vars)
  BY DEF Next, Work, vars, Registers, Declares, Imports, Completes, Returns, Skip, Load, Discover, Loaded,
         NeverRegistered, Failed, Aborts, Finishes, End, ImportElsewhere, Enter, Onwards, InStatement,
         Importing
<1>2. PICK h : h = here.module
  OBVIOUS
<1>3. Settled /\ at # 0 /\ here'.module = h
  <2>1. Settled
    BY <1>1 DEF Raises, vars, Settled
  <2> QED  BY <1>2, <2>1, OriginLasts DEF Settled
<1>4. CASE Raises
  <2>1. InStatement /\ Fails
    BY <1>4 DEF Raises
  <2>2. Len(stack) \in DOMAIN stack /\ top = stack[Len(stack)] /\ top.module \in Module
    BY <2>1, TopIsOnStack, StatementType
  <2>3. PICK x : x = top.module
    OBVIOUS
  <2>4. x \in BroughtIn[h]
    BY <1>2, <1>3, <2>2, <2>3 DEF ImportsForOne, Origin
  <2>5. PICK k : k = top.at
    OBVIOUS
  <2>6. k \in DOMAIN Body[x] /\ Hopeless(Body[x][k])
    BY <2>1, <2>3, <2>5 DEF InStatement, statement, Fails, Hopeless
  <2>7. Hopeless(Body[x][k])'
    BY <2>2, <2>3, <2>6, RegistriesGrow, HopelessLasts
  <2>8. x \notin modules'
    BY <1>4, <2>2, <2>3 DEF Raises, InFlight
  <2>9. Doomed(x)'
    BY <2>6, <2>7, <2>8 DEF Doomed, Past
  <2>10. Barred(h)'
    BY <2>4, <2>9 DEF Barred
  <2> QED  BY <1>3, <2>10 DEF Barred
<1>5. CASE pc = "failed" /\ UNCHANGED vars
  <2>1. Barred(h) /\ h \in Module
    <3>1. at \in 1 .. Len(Candidates)
      BY <1>3, <1>5, CandidatesType DEF AtACandidate, TypeOK
    <3> QED  BY <1>2, <1>3, <1>5, <3>1, CandidatesType DEF FailedForGood, here
  <2>2. Barred(h)'
    BY <2>1, BarredLasts
  <2> QED  BY <1>3, <2>2 DEF Barred
<1> QED  BY <1>1, <1>4, <1>5

-------------------------------------------------------------------------------
\* One entry more, of the next candidate, keeps a list of names in order.
Longer(t, s, n) == n + 1 <= Len(Candidates) /\ t = Append(s, Candidates[n + 1].name)

LEMMA OneMore ==
  ASSUME TypeOK, Untangled, NEW n \in Nat, NEW s, Listed(s, n), NEW t, Longer(t, s, n)
  PROVE  /\ Len(t) = Len(s) + 1 /\ Listed(t, n + 1) /\ Candidates[n + 1].name \notin Elements(s)
         /\ Elements(t) = Elements(s) \cup {Candidates[n + 1].name}
<1>0. PICK name : name = Candidates[n + 1].name
  OBVIOUS
<1> USE <1>0 DEF Listed, Longer
<1>1. /\ DOMAIN t = DOMAIN s \cup {Len(s) + 1} /\ (\A j \in DOMAIN s : t[j] = s[j]) /\ t[Len(s) + 1] = name
      /\ Len(t) = Len(s) + 1 /\ DOMAIN s = 1 .. Len(s) /\ Len(s) \in Nat
  <2>1. name \in AnyName
    BY CandidatesType
  <2> QED  BY <2>1
<1>2. DOMAIN Candidates = 1 .. Len(Candidates) /\ Len(Candidates) \in Nat /\ n + 1 \in DOMAIN Candidates
  BY CandidatesType
<1>3. ASSUME NEW j \in DOMAIN s, NEW a \in DOMAIN Candidates, s[j] = Candidates[a].name
      PROVE  a \in 1 .. n
  <2>1. PICK b \in 1 .. n : s[j] = Candidates[b].name
    BY DEF From
  <2>2. b \in DOMAIN Candidates
    BY <1>2
  <2> QED  BY <1>3, <2>1, <2>2 DEF Untangled, OnTheirOwn
<1>4. name \notin Elements(s)
  <2>1. ASSUME NEW j \in DOMAIN s, s[j] = name PROVE FALSE
    <3>1. n + 1 \in 1 .. n
      BY <1>2, <1>3, <2>1
    <3> QED  BY <3>1
  <2> QED  BY <2>1 DEF Elements
<1>5. ASSUME NEW j \in DOMAIN t, NEW k \in DOMAIN t, NEW a \in DOMAIN Candidates, NEW b \in DOMAIN Candidates,
             j < k, t[j] = Candidates[a].name, t[k] = Candidates[b].name
      PROVE  a < b
  <2>1. j \in DOMAIN s
    BY <1>1, <1>5
  <2>2. s[j] = Candidates[a].name /\ a \in 1 .. n
    BY <1>1, <1>3, <1>5, <2>1
  <2>3. CASE k \in DOMAIN s
    BY <1>1, <1>5, <2>1, <2>3 DEF InOrder
  <2>4. CASE k = Len(s) + 1
    <3>1. b = n + 1
      BY <1>1, <1>2, <1>5, <2>4 DEF Untangled, OnTheirOwn
    <3> QED  BY <2>2, <3>1
  <2> QED  BY <1>1, <2>3, <2>4
<1>6. From(t, n + 1)
  <2>1. ASSUME NEW j \in DOMAIN t PROVE \E a \in 1 .. n + 1 : t[j] = Candidates[a].name
    <3>1. CASE j \in DOMAIN s
      <4>1. PICK a \in 1 .. n : s[j] = Candidates[a].name
        BY <3>1 DEF From
      <4>2. a \in 1 .. n + 1 /\ t[j] = Candidates[a].name
        BY <1>1, <3>1, <4>1
      <4> QED  BY <4>2
    <3>2. CASE j = Len(s) + 1
      <4>1. n + 1 \in 1 .. n + 1 /\ t[j] = Candidates[n + 1].name
        BY <1>1, <3>2
      <4> QED  BY <4>1
    <3> QED  BY <1>1, <3>1, <3>2
  <2> QED  BY <2>1 DEF From
<1>7. Elements(t) = Elements(s) \cup {name}
  BY <1>1 DEF Elements
<1>8. t \in Seq(AnyName)
  BY CandidatesType
<1> QED  BY <1>1, <1>4, <1>5, <1>6, <1>7, <1>8 DEF InOrder

\* A list with no entry of the next candidate.
LEMMA NoneMore ==
  ASSUME TypeOK, Untangled, NEW n \in Nat, n + 1 <= Len(Candidates), NEW s, Listed(s, n)
  PROVE  Listed(s, n + 1) /\ Candidates[n + 1].name \notin Elements(s)
<1> USE DEF Listed
<1>1. \A a \in 1 .. n : a \in 1 .. n + 1 /\ a \in DOMAIN Candidates /\ a # n + 1
  BY CandidatesType
<1>2. n + 1 \in DOMAIN Candidates
  BY CandidatesType
<1>3. From(s, n + 1)
  BY <1>1 DEF From
<1>4. ASSUME NEW j \in DOMAIN s PROVE s[j] # Candidates[n + 1].name
  <2>1. PICK a \in 1 .. n : s[j] = Candidates[a].name
    BY DEF From
  <2> QED  BY <1>1, <1>2, <2>1 DEF Untangled, OnTheirOwn
<1> QED  BY <1>3, <1>4 DEF Elements

\* Report q has one candidate more than r, in the list it belongs in.
Adds(q, r, e, n) ==
  \/ /\ q.skipped = Append(r.skipped, e.name) /\ q.loaded = r.loaded /\ q.failed = r.failed
     /\ e.name \in r.disabled
  \/ /\ q.loaded = Append(r.loaded, e.name) /\ q.skipped = r.skipped /\ q.failed = r.failed
     /\ e.name \notin r.disabled /\ Good(e)
  \/ /\ q.failed = Append(r.failed, e.name) /\ q.skipped = r.skipped /\ q.loaded = r.loaded
     /\ e.name \notin r.disabled /\ Bad(e) /\ n + 1 > Len(Builtins)

LEMMA TellsMore ==
  ASSUME TypeOK, Untangled, NEW n \in Nat, n + 1 <= Len(Candidates), NEW r \in LoadReport, Tells(r, n),
         NEW q \in LoadReport, q.disabled = r.disabled, NEW e, e = Candidates[n + 1], Adds(q, r, e, n)
  PROVE  Tells(q, n + 1)
<1>1. /\ r.loaded \in Seq(AnyName) /\ r.failed \in Seq(AnyName) /\ r.skipped \in Seq(AnyName)
      /\ Len(r.loaded) \in Nat /\ Len(r.failed) \in Nat /\ Len(r.skipped) \in Nat
  BY DEF LoadReport
<1>2. /\ Listed(r.loaded, n) /\ Listed(r.failed, n) /\ Listed(r.skipped, n)
      /\ \A a \in 1 .. n : TellsOf(r, a)
  BY DEF Tells
<1>0. Len(r.loaded) + Len(r.failed) + Len(r.skipped) = n
  BY DEF Tells
<1>3. /\ Listed(r.loaded, n + 1) /\ Listed(r.failed, n + 1) /\ Listed(r.skipped, n + 1)
      /\ e.name \notin Elements(r.loaded) \cup Elements(r.failed) \cup Elements(r.skipped)
  BY <1>2, NoneMore
<1>4. ASSUME NEW a \in 1 .. n PROVE Candidates[a].name # e.name
  <2>1. a \in DOMAIN Candidates /\ n + 1 \in DOMAIN Candidates /\ a # n + 1
    BY CandidatesType
  <2> QED  BY <2>1 DEF Untangled, OnTheirOwn
<1>5. CASE /\ q.skipped = Append(r.skipped, e.name) /\ q.loaded = r.loaded /\ q.failed = r.failed
           /\ e.name \in r.disabled
  <2>1. Longer(q.skipped, r.skipped, n)
    BY <1>5 DEF Longer
  <2>2. /\ Len(q.skipped) = Len(r.skipped) + 1 /\ Listed(q.skipped, n + 1)
        /\ Elements(q.skipped) = Elements(r.skipped) \cup {e.name}
    BY <1>2, <2>1, OneMore
  <2>3. Len(q.loaded) = Len(r.loaded) /\ Len(q.failed) = Len(r.failed)
    BY <1>5
  <2>4. Len(q.loaded) + Len(q.failed) + Len(q.skipped) = n + 1
    <3>1. PICK x \in Nat, y \in Nat, z \in Nat : x = Len(r.loaded) /\ y = Len(r.failed) /\ z = Len(r.skipped)
      BY <1>1
    <3>2. PICK u, v, w : u = Len(q.loaded) /\ v = Len(q.failed) /\ w = Len(q.skipped)
      OBVIOUS
    <3>3. x + y + z = n
      BY <1>0, <3>1
    <3>4. \/ u = x + 1 /\ v = y /\ w = z
          \/ u = x /\ v = y + 1 /\ w = z
          \/ u = x /\ v = y /\ w = z + 1
      BY <2>2, <2>3, <3>1, <3>2
    <3>5. u + v + w = n + 1
      BY <3>3, <3>4
    <3> QED  BY <3>2, <3>5
  <2>5. ASSUME NEW a \in 1 .. n PROVE TellsOf(q, a)
    BY <1>2, <1>4, <1>5, <2>2, <2>5 DEF TellsOf
  <2>6. TellsOf(q, n + 1)
    BY <1>3, <1>5, <2>2 DEF TellsOf
  <2>7. \A a \in 1 .. n + 1 : TellsOf(q, a)
    <3>1. \A a \in 1 .. n + 1 : a \in 1 .. n \/ a = n + 1
      OBVIOUS
    <3> QED  BY <2>5, <2>6, <3>1
  <2> QED  BY <1>3, <1>5, <2>2, <2>4, <2>7 DEF Tells
<1>6. CASE /\ q.loaded = Append(r.loaded, e.name) /\ q.skipped = r.skipped /\ q.failed = r.failed
           /\ e.name \notin r.disabled /\ Good(e)
  <2>1. Longer(q.loaded, r.loaded, n)
    BY <1>6 DEF Longer
  <2>2. /\ Len(q.loaded) = Len(r.loaded) + 1 /\ Listed(q.loaded, n + 1)
        /\ Elements(q.loaded) = Elements(r.loaded) \cup {e.name}
    BY <1>2, <2>1, OneMore
  <2>3. Len(q.skipped) = Len(r.skipped) /\ Len(q.failed) = Len(r.failed)
    BY <1>6
  <2>4. Len(q.loaded) + Len(q.failed) + Len(q.skipped) = n + 1
    <3>1. PICK x \in Nat, y \in Nat, z \in Nat : x = Len(r.loaded) /\ y = Len(r.failed) /\ z = Len(r.skipped)
      BY <1>1
    <3>2. PICK u, v, w : u = Len(q.loaded) /\ v = Len(q.failed) /\ w = Len(q.skipped)
      OBVIOUS
    <3>3. x + y + z = n
      BY <1>0, <3>1
    <3>4. \/ u = x + 1 /\ v = y /\ w = z
          \/ u = x /\ v = y + 1 /\ w = z
          \/ u = x /\ v = y /\ w = z + 1
      BY <2>2, <2>3, <3>1, <3>2
    <3>5. u + v + w = n + 1
      BY <3>3, <3>4
    <3> QED  BY <3>2, <3>5
  <2>5. ASSUME NEW a \in 1 .. n PROVE TellsOf(q, a)
    BY <1>2, <1>4, <1>6, <2>2, <2>5 DEF TellsOf
  <2>6. TellsOf(q, n + 1)
    BY <1>3, <1>6, <2>2 DEF TellsOf
  <2>7. \A a \in 1 .. n + 1 : TellsOf(q, a)
    <3>1. \A a \in 1 .. n + 1 : a \in 1 .. n \/ a = n + 1
      OBVIOUS
    <3> QED  BY <2>5, <2>6, <3>1
  <2> QED  BY <1>3, <1>6, <2>2, <2>4, <2>7 DEF Tells
<1>7. CASE /\ q.failed = Append(r.failed, e.name) /\ q.skipped = r.skipped /\ q.loaded = r.loaded
           /\ e.name \notin r.disabled /\ Bad(e) /\ n + 1 > Len(Builtins)
  <2>1. Longer(q.failed, r.failed, n)
    BY <1>7 DEF Longer
  <2>2. /\ Len(q.failed) = Len(r.failed) + 1 /\ Listed(q.failed, n + 1)
        /\ Elements(q.failed) = Elements(r.failed) \cup {e.name}
    BY <1>2, <2>1, OneMore
  <2>3. Len(q.skipped) = Len(r.skipped) /\ Len(q.loaded) = Len(r.loaded)
    BY <1>7
  <2>4. Len(q.loaded) + Len(q.failed) + Len(q.skipped) = n + 1
    <3>1. PICK x \in Nat, y \in Nat, z \in Nat : x = Len(r.loaded) /\ y = Len(r.failed) /\ z = Len(r.skipped)
      BY <1>1
    <3>2. PICK u, v, w : u = Len(q.loaded) /\ v = Len(q.failed) /\ w = Len(q.skipped)
      OBVIOUS
    <3>3. x + y + z = n
      BY <1>0, <3>1
    <3>4. \/ u = x + 1 /\ v = y /\ w = z
          \/ u = x /\ v = y + 1 /\ w = z
          \/ u = x /\ v = y /\ w = z + 1
      BY <2>2, <2>3, <3>1, <3>2
    <3>5. u + v + w = n + 1
      BY <3>3, <3>4
    <3> QED  BY <3>2, <3>5
  <2>5. ASSUME NEW a \in 1 .. n PROVE TellsOf(q, a)
    BY <1>2, <1>4, <1>7, <2>2, <2>5 DEF TellsOf
  <2>6. TellsOf(q, n + 1)
    BY <1>3, <1>7, <2>2 DEF TellsOf
  <2>7. \A a \in 1 .. n + 1 : TellsOf(q, a)
    <3>1. \A a \in 1 .. n + 1 : a \in 1 .. n \/ a = n + 1
      OBVIOUS
    <3> QED  BY <2>5, <2>6, <3>1
  <2> QED  BY <1>3, <1>7, <2>2, <2>4, <2>7 DEF Tells
<1> QED  BY <1>5, <1>6, <1>7 DEF Adds

\* What a report tells stays true.
LEMMA TellsLasts ==
  ASSUME TypeOK, AtACandidate, [Next]_vars, NEW r, NEW n \in Nat, n <= Len(Candidates), Tells(r, n)
  PROVE  Tells(r, n)'
<1>1. Candidates' = Candidates
  BY DisabledOnlyChosen DEF Candidates
<1>2. ASSUME NEW a \in 1 .. n PROVE TellsOf(r, a)'
  <2>1. PICK e : e = Candidates[a]
    OBVIOUS
  <2>2. e \in EntryPoint
    BY <2>1, CandidatesType
  <2>3. (Good(e) => Good(e)') /\ (Bad(e) => Bad(e)')
    BY <2>2, FatesLast
  <2>4. TellsOf(r, a)
    BY <1>2 DEF Tells
  <2>5. Candidates'[a] = e
    BY <1>1, <2>1
  <2>6. /\ e.name \in Elements(r.skipped) <=> e.name \in r.disabled
        /\ e.name \in Elements(r.loaded) => e.name \notin r.disabled /\ Good(e)'
        /\ e.name \in Elements(r.failed) => e.name \notin r.disabled /\ Bad(e)' /\ a > Len(Builtins)
        /\ e.name \in Elements(r.skipped) \cup Elements(r.loaded) \cup Elements(r.failed)
    BY <2>1, <2>3, <2>4 DEF TellsOf
  <2> QED  BY <2>5, <2>6 DEF TellsOf, Good, Bad, Barred
<1>3. Listed(r.loaded, n)' /\ Listed(r.failed, n)' /\ Listed(r.skipped, n)'
  <2>1. AnyName' = AnyName
    BY DEF AnyName, Elements
  <2> QED  BY <1>1, <2>1 DEF Tells, Listed, InOrder, From
<1>4. (Len(r.loaded) + Len(r.failed) + Len(r.skipped) = n)'
  BY DEF Tells
<1> QED  BY <1>2, <1>3, <1>4 DEF Tells

-------------------------------------------------------------------------------
\* What a discovery writes of a candidate is how that candidate fares.
Writes == Skip \/ Loaded \/ NeverRegistered \/ Failed

LEMMA EntryIsTrue ==
  ASSUME IInv, OnItsWay, FailedForGood, ReportTells, Writes
  PROVE  \E n \in Nat :
           /\ n + 1 = at /\ n + 1 <= Len(Candidates) /\ Tells(report, n) /\ at' = n + 2
           /\ Adds(report', report, Candidates[n + 1], n)
           /\ report.end = "running" /\ report'.end = "running" /\ report'.disabled = report.disabled
           /\ report.disabled = disabled /\ disabled' = disabled /\ last' = last
<1>0. /\ TypeOK /\ AtACandidate /\ report \in LoadReport /\ at \in Nat /\ Len(Candidates) \in Nat
      /\ stack = <<>> /\ at # 0 /\ report.end = "running" /\ at <= Len(Candidates)
  BY CandidatesType DEF IInv, TypeOK, AtACandidate, OnItsWay, Writes, Skip, Loaded, NeverRegistered, Failed
<1>1. PICK n \in Nat : n + 1 = at
  <2>1. at - 1 \in Nat /\ (at - 1) + 1 = at
    BY <1>0
  <2> QED  BY <2>1
<1>2. PICK e : e = here
  OBVIOUS
<1>3. /\ Tells(report, n) /\ e = Candidates[n + 1] /\ report.disabled = disabled
      /\ e.module \in Module /\ n + 1 \in 1 .. Len(Candidates)
  <2>1. at - 1 = n
    BY <1>1
  <2> QED  BY <1>0, <1>1, <1>2, <2>1, CandidatesType DEF ReportTells, here
<1>4. /\ at' = n + 2 /\ disabled' = disabled /\ last' = last
      /\ report'.end = "running" /\ report'.disabled = report.disabled
  BY <1>0, <1>1 DEF Writes, Skip, Loaded, NeverRegistered, Failed, Onwards, LoadReport
<1>5. CASE Skip
  <2>1. /\ report'.skipped = Append(report.skipped, e.name) /\ report'.loaded = report.loaded
        /\ report'.failed = report.failed /\ e.name \in report.disabled
    BY <1>0, <1>2, <1>3, <1>5 DEF Skip, LoadReport
  <2> QED  BY <1>0, <1>1, <1>3, <1>4, <2>1 DEF Adds
<1>6. CASE Loaded
  <2>1. /\ report'.loaded = Append(report.loaded, e.name) /\ report'.skipped = report.skipped
        /\ report'.failed = report.failed /\ e.name \notin report.disabled
    BY <1>0, <1>2, <1>3, <1>6 DEF Loaded, LoadReport, OnItsWay
  <2>2. Good(e)
    BY <1>0, <1>2, <1>6 DEF Loaded, OnItsWay, Good, Whole, InFlight
  <2> QED  BY <1>0, <1>1, <1>3, <1>4, <2>1, <2>2 DEF Adds
<1>7. CASE NeverRegistered
  <2>1. e.name \notin PACKS /\ e.module \in modules /\ e.name \notin report.disabled
    BY <1>0, <1>2, <1>3, <1>7 DEF NeverRegistered, OnItsWay
  <2>2. n + 1 > Len(Builtins)
    <3>1. ASSUME at <= Len(Builtins) PROVE FALSE
      <4>1. at \in 1 .. Len(Builtins)
        BY <1>0, <3>1, BuiltinsComeFirst
      <4>2. e \in Elements(Builtins)
        BY <1>0, <1>2, <4>1, BuiltinsComeFirst DEF here
      <4> QED  BY <1>0, <2>1, <4>2, BuiltinIsComplete
    <3> QED  BY <1>0, <1>1, <3>1, BuiltinsComeFirst
  <2>3. e.name \notin Does(e.module, "pack")
    <3>1. \A k \in DOMAIN Body[e.module] : InEffect(Body[e.module][k])
      BY <1>0, <2>1 DEF IInv, ModulesComplete, InFlight
    <3> QED  BY <2>1, <3>1 DEF Does, Elements, InEffect
  <2>4. report'.failed = Append(report.failed, e.name) /\ report'.skipped = report.skipped
        /\ report'.loaded = report.loaded
    <3>1. ~ builtin
      BY <1>0, <1>1, <2>2, BuiltinsComeFirst DEF builtin
    <3> QED  BY <1>0, <1>2, <1>7, <3>1 DEF NeverRegistered, LoadReport
  <2> QED  BY <1>0, <1>1, <1>3, <1>4, <2>1, <2>2, <2>3, <2>4 DEF Adds, Bad
<1>8. CASE Failed
  <2>1. /\ report'.failed = Append(report.failed, e.name) /\ report'.skipped = report.skipped
        /\ report'.loaded = report.loaded /\ e.name \notin report.disabled
    BY <1>0, <1>2, <1>3, <1>8 DEF Failed, LoadReport, OnItsWay
  <2>2. n + 1 > Len(Builtins)
    BY <1>0, <1>1, <1>8, BuiltinsComeFirst DEF Failed, builtin
  <2>3. Bad(e)
    BY <1>0, <1>2, <1>8 DEF Failed, FailedForGood, Bad
  <2> QED  BY <1>0, <1>1, <1>3, <1>4, <2>1, <2>2, <2>3 DEF Adds
<1> QED  BY <1>5, <1>6, <1>7, <1>8 DEF Writes

\* A report with the same lists tells the same.
LEMMA TellsAlike ==
  ASSUME NEW r, NEW q, NEW n, Tells(r, n), q.disabled = r.disabled, q.loaded = r.loaded,
         q.failed = r.failed, q.skipped = r.skipped
  PROVE  Tells(q, n)
BY DEF Tells, TellsOf

LEMMA EmptyTells ==
  ASSUME TypeOK, NEW r, r.loaded = <<>>, r.failed = <<>>, r.skipped = <<>>
  PROVE  Tells(r, 0)
<1>1. Listed(<<>>, 0)
  BY CandidatesType DEF Listed, InOrder, From
<1>2. Len(r.loaded) + Len(r.failed) + Len(r.skipped) = 0
  OBVIOUS
<1>3. 1 .. 0 = {}
  OBVIOUS
<1> QED  BY <1>1, <1>2, <1>3 DEF Tells

LEMMA ReportTellsStep ==
  ASSUME Untangled, IInv, OnItsWay, FailedForGood, ReportTells, [Next]_vars
  PROVE  ReportTells'
<1> USE DEF registries, reports
<1>0. /\ TypeOK /\ AtACandidate /\ report \in LoadReport /\ last \in LoadReport /\ at \in Nat
      /\ Len(Candidates) \in Nat /\ Candidates' = Candidates /\ TypeOK' /\ at <= Len(Candidates) + 1
  BY CandidatesType, TypeStep, DisabledOnlyChosen DEF IInv, TypeOK, Candidates
<1>1. ASSUME NEW r, Tells(r, Len(Candidates)) PROVE Tells(r, Len(Candidates))'
  <2>1. PICK n \in Nat : n = Len(Candidates)
    BY <1>0
  <2>2. Tells(r, n)' /\ n = Len(Candidates')
    BY <1>0, <1>1, <2>1, TellsLasts
  <2> QED  BY <2>2
<1>2. ASSUME last' = last PROVE (last.end = "returned" => Tells(last, Len(Candidates)))'
  <2>1. ASSUME last.end = "returned" PROVE Tells(last, Len(Candidates))'
    <3>1. PICK r : r = last
      OBVIOUS
    <3>2. Tells(r, Len(Candidates))'
      BY <1>1, <2>1, <3>1 DEF ReportTells
    <3>3. r = last'
      BY <1>2, <3>1
    <3> QED  BY <3>2, <3>3
  <2> QED  BY <1>2, <2>1
<1>3. CASE Writes
  <2>1. PICK n \in Nat :
           /\ n + 1 = at /\ n + 1 <= Len(Candidates) /\ Tells(report, n) /\ at' = n + 2
           /\ Adds(report', report, Candidates[n + 1], n)
           /\ report.end = "running" /\ report'.end = "running" /\ report'.disabled = report.disabled
           /\ report.disabled = disabled /\ disabled' = disabled /\ last' = last
    BY <1>3, EntryIsTrue
  <2>2. PICK q : q = report'
    OBVIOUS
  <2>3. q \in LoadReport
    BY <1>0, <2>2 DEF TypeOK
  <2>4. Tells(q, n + 1)
    <3>1. PICK r : r = report
      OBVIOUS
    <3>2. r \in LoadReport /\ Tells(r, n) /\ q.disabled = r.disabled /\ Adds(q, r, Candidates[n + 1], n)
      BY <1>0, <2>1, <2>2, <3>1
    <3> QED  BY <1>0, <2>1, <2>3, <3>2, TellsMore
  <2>5. Tells(q, n + 1)'
    BY <1>0, <2>1, <2>4, TellsLasts
  <2>6. at' - 1 = n + 1 /\ at' # 0
    BY <2>1
  <2>7. Tells(report, at - 1)'
    BY <2>2, <2>5, <2>6
  <2> QED  BY <1>2, <2>1, <2>6, <2>7 DEF ReportTells
<1>4. CASE \E d \in Disablings : Discover(d)
  <2>1. PICK d \in Disablings : Discover(d)
    BY <1>4
  <2>2. /\ report'.disabled = disabled' /\ report'.end = "running" /\ at' = 1 /\ last' = report
        /\ report'.loaded = <<>> /\ report'.failed = <<>> /\ report'.skipped = <<>>
    BY <2>1 DEF Discover, Empty
  <2>3. Tells(report, at - 1)'
    <3>1. PICK q : q = report'
      OBVIOUS
    <3>2. Tells(q, 0)
      BY <1>0, <2>2, <3>1, EmptyTells
    <3>3. Tells(q, 0)'
      BY <1>0, <3>2, TellsLasts
    <3>4. at' - 1 = 0
      BY <2>2
    <3> QED  BY <3>1, <3>3, <3>4
  <2>4. (last.end = "returned" => Tells(last, Len(Candidates)))'
    <3>1. ASSUME report.end = "returned" PROVE Tells(last, Len(Candidates))'
      <4>1. PICK r : r = report
        OBVIOUS
      <4>2. Tells(r, Len(Candidates))'
        BY <1>1, <3>1, <4>1 DEF ReportTells
      <4>3. r = last'
        BY <2>2, <4>1
      <4> QED  BY <4>2, <4>3
    <3> QED  BY <2>2, <3>1
  <2> QED  BY <2>2, <2>3, <2>4 DEF ReportTells
<1>5. CASE Aborts \/ Finishes
  <2>1. /\ last' = last /\ disabled' = disabled
        /\ report.end = "running" /\ report.disabled = disabled /\ at # 0 /\ Tells(report, at - 1)
    <3>1. at # 0
      BY <1>0, <1>5 DEF Aborts, Finishes, AtACandidate
    <3> QED  BY <1>5, <3>1 DEF Aborts, Finishes, End, OnItsWay, ReportTells
  <2>2. PICK r : r = report
    OBVIOUS
  <2>3. PICK q : q = report'
    OBVIOUS
  <2>4. /\ q.disabled = r.disabled /\ q.loaded = r.loaded /\ q.failed = r.failed /\ q.skipped = r.skipped
        /\ q.end \in {"aborted", "returned"} /\ (q.end = "returned" => Finishes)
    BY <1>0, <1>5, <2>2, <2>3 DEF Aborts, Finishes, End, LoadReport
  <2>5. ASSUME q.end = "returned" PROVE Tells(report, Len(Candidates))'
    <3>1. at - 1 = Len(Candidates)
      BY <1>0, <2>4, <2>5 DEF Finishes
    <3>2. Tells(r, Len(Candidates))
      BY <2>1, <2>2, <3>1
    <3>3. Tells(q, Len(Candidates))
      BY <2>4, <3>2, TellsAlike
    <3>4. Tells(q, Len(Candidates))'
      BY <1>1, <3>3
    <3> QED  BY <2>3, <3>4
  <2> QED  BY <1>2, <2>1, <2>2, <2>3, <2>4, <2>5 DEF ReportTells
<1>6. CASE \E m \in Importable : ImportElsewhere(m)
  <2>1. report' = Empty /\ last' = Empty
    BY <1>6 DEF ImportElsewhere
  <2>2. report'.end = "none" /\ last'.end = "none"
    BY <2>1 DEF Empty
  <2> QED  BY <2>2 DEF ReportTells
<1>7. CASE Registers \/ Declares \/ Imports \/ Completes \/ Raises \/ Returns \/ Load \/ UNCHANGED vars
  <2>1. report' = report /\ last' = last /\ disabled' = disabled /\ at' = at
    BY <1>7 DEF Registers, Declares, Imports, Completes, Raises, Returns, Load, vars
  <2>2. PICK r : r = report
    OBVIOUS
  <2>3. ASSUME r.end = "running" PROVE at # 0 /\ Tells(report, at - 1)'
    <3>1. at # 0 /\ Tells(r, at - 1)
      BY <2>2, <2>3 DEF ReportTells
    <3>2. PICK n \in Nat : n = at - 1 /\ n <= Len(Candidates)
      BY <1>0, <3>1
    <3>3. Tells(r, n)'
      BY <1>0, <3>1, <3>2, TellsLasts
    <3>4. r = report' /\ n = at' - 1
      BY <2>1, <2>2, <3>2
    <3> QED  BY <3>1, <3>3, <3>4
  <2>4. ASSUME r.end = "returned" PROVE Tells(report, Len(Candidates))'
    <3>1. Tells(r, Len(Candidates))'
      BY <1>1, <2>2, <2>4 DEF ReportTells
    <3>2. r = report'
      BY <2>1, <2>2
    <3> QED  BY <3>1, <3>2
  <2>5. r.end # "none" => r.disabled = disabled
    BY <2>2 DEF ReportTells
  <2> QED  BY <1>2, <2>1, <2>2, <2>3, <2>4, <2>5 DEF ReportTells
<1> QED  BY <1>3, <1>4, <1>5, <1>6, <1>7 DEF Next, Work, Writes

-------------------------------------------------------------------------------
(***************************************************************************)
(* A list that began as an earlier one did, and has all that one has of    *)
(* the first n candidates: what the earlier one has next is a later        *)
(* candidate's.                                                            *)
(***************************************************************************)
Keeps(s, t, n) ==
  /\ Begins(s, t) /\ \A a \in 1 .. n : Candidates[a].name \in Elements(t) => Candidates[a].name \in Elements(s)

LEMMA NextIsLater ==
  ASSUME TypeOK, Untangled, NEW n \in Nat, NEW s, Listed(s, n), NEW t, Listed(t, Len(Candidates)),
         Keeps(s, t, n), Len(s) # Len(t)
  PROVE  /\ Len(s) + 1 \in DOMAIN t
         /\ \E b \in DOMAIN Candidates : n < b /\ t[Len(s) + 1] = Candidates[b].name
<1>1. /\ s \in Seq(AnyName) /\ t \in Seq(AnyName) /\ Len(s) \in Nat /\ Len(t) \in Nat
      /\ Len(s) <= Len(t) /\ \A j \in DOMAIN s : s[j] = t[j]
  BY DEF Listed, Keeps, Begins
<1>2. Len(s) + 1 \in DOMAIN t
  BY <1>1
<1>3. PICK b \in 1 .. Len(Candidates) : t[Len(s) + 1] = Candidates[b].name
  BY <1>2 DEF Listed, From
<1>4. b \in DOMAIN Candidates /\ b \in Nat /\ b >= 1
  BY CandidatesType
<1>5. ASSUME b <= n PROVE FALSE
  <2>1. b \in 1 .. n
    BY <1>4, <1>5
  <2>2. Candidates[b].name \in Elements(t)
    BY <1>2, <1>3 DEF Elements
  <2>3. PICK j \in DOMAIN s : s[j] = Candidates[b].name
    BY <2>1, <2>2 DEF Keeps, Elements
  <2>4. j \in DOMAIN t /\ t[j] = Candidates[b].name /\ j < Len(s) + 1
    BY <1>1, <2>3
  <2>5. b < b
    BY <1>2, <1>3, <1>4, <2>4 DEF Listed, InOrder
  <2> QED  BY <1>4, <2>5
<1> QED  BY <1>2, <1>3, <1>4, <1>5

\* So the two go on alike where the next candidate is in the earlier list,
LEMMA KeepsOn ==
  ASSUME TypeOK, Untangled, NEW n \in Nat, n + 1 <= Len(Candidates), NEW s, Listed(s, n),
         NEW t, Listed(t, Len(Candidates)), Keeps(s, t, n),
         Candidates[n + 1].name \in Elements(t), NEW u, Longer(u, s, n)
  PROVE  Begins(u, t)
<1>1. /\ s \in Seq(AnyName) /\ t \in Seq(AnyName) /\ Len(s) \in Nat /\ Len(t) \in Nat
      /\ Len(s) <= Len(t) /\ \A j \in DOMAIN s : s[j] = t[j]
  BY DEF Listed, Keeps, Begins
<1>2. PICK k \in DOMAIN t : t[k] = Candidates[n + 1].name
  BY DEF Elements
<1>3. n + 1 \in DOMAIN Candidates /\ DOMAIN Candidates = 1 .. Len(Candidates) /\ Len(Candidates) \in Nat
  BY CandidatesType
<1>4. k > Len(s)
  <2>1. ASSUME k \in DOMAIN s PROVE FALSE
    <3>1. s[k] = Candidates[n + 1].name
      BY <1>1, <1>2, <2>1
    <3>2. PICK a \in 1 .. n : s[k] = Candidates[a].name
      BY <2>1 DEF Listed, From
    <3>3. a \in DOMAIN Candidates
      BY <1>3
    <3>4. a = n + 1
      BY <1>3, <3>1, <3>2, <3>3 DEF Untangled, OnTheirOwn
    <3> QED  BY <3>4
  <2> QED  BY <1>1, <1>2, <2>1
<1>5. Len(s) # Len(t)
  BY <1>1, <1>2, <1>4
<1>6. PICK b \in DOMAIN Candidates : n < b /\ t[Len(s) + 1] = Candidates[b].name /\ Len(s) + 1 \in DOMAIN t
  BY <1>5, NextIsLater
<1>7. k = Len(s) + 1
  <2>1. ASSUME Len(s) + 1 < k PROVE FALSE
    <3>1. b < n + 1
      BY <1>2, <1>3, <1>6, <2>1 DEF Listed, InOrder
    <3> QED  BY <1>3, <1>6, <3>1
  <2> QED  BY <1>1, <1>2, <1>4, <2>1
<1>8. PICK x : x = Candidates[n + 1].name /\ x \in AnyName
  BY CandidatesType
<1>9. /\ DOMAIN u = DOMAIN s \cup {Len(s) + 1} /\ (\A j \in DOMAIN s : u[j] = s[j]) /\ u[Len(s) + 1] = x
      /\ Len(u) = Len(s) + 1
  <2>1. u = Append(s, x)
    BY <1>8 DEF Longer
  <2> QED  BY <1>1, <1>8, <2>1
<1>10. Len(u) <= Len(t)
  BY <1>1, <1>2, <1>7, <1>9
<1>11. \A j \in DOMAIN u : u[j] = t[j]
  BY <1>1, <1>2, <1>7, <1>8, <1>9
<1> QED  BY <1>10, <1>11 DEF Begins

\* and once all candidates are there, the two are the same.
LEMMA KeptAll ==
  ASSUME TypeOK, Untangled, NEW s, NEW t, Listed(s, Len(Candidates)), Listed(t, Len(Candidates)),
         Keeps(s, t, Len(Candidates))
  PROVE  s = t
<1>1. /\ s \in Seq(AnyName) /\ t \in Seq(AnyName) /\ \A j \in DOMAIN s : s[j] = t[j]
  BY DEF Listed, Keeps, Begins
<1>2. Len(Candidates) \in Nat /\ DOMAIN Candidates = 1 .. Len(Candidates)
  BY CandidatesType
<1>3. Len(s) = Len(t)
  <2>1. ASSUME Len(s) # Len(t) PROVE FALSE
    <3>1. PICK b \in DOMAIN Candidates : Len(Candidates) < b
      BY <1>2, <2>1, NextIsLater
    <3> QED  BY <1>2, <3>1
  <2> QED  BY <2>1
<1> QED  BY <1>1, <1>3

\* Two reports of the same packs agree on what they have both come to.
LEMMA ReportsAgree ==
  ASSUME IInv, Untangled, Leads(Whole), NamesRegistered, NEW r, NEW q, NEW n \in Nat,
         n <= Len(Candidates), Tells(q, n), Tells(r, Len(Candidates)), r.disabled = q.disabled,
         Begins(q.loaded, r.loaded), Begins(q.failed, r.failed), Begins(q.skipped, r.skipped)
  PROVE  /\ Keeps(q.loaded, r.loaded, n) /\ Keeps(q.failed, r.failed, n)
         /\ Keeps(q.skipped, r.skipped, n)
<1>1. ASSUME NEW a \in 1 .. n, NEW name, name = Candidates[a].name
      PROVE  /\ name \in Elements(r.loaded) => name \in Elements(q.loaded)
             /\ name \in Elements(r.failed) => name \in Elements(q.failed)
             /\ name \in Elements(r.skipped) => name \in Elements(q.skipped)
  <2>1. a \in 1 .. Len(Candidates) /\ Candidates[a] \in Elements(Candidates)
    <3>1. Len(Candidates) \in Nat /\ DOMAIN Candidates = 1 .. Len(Candidates)
      BY CandidatesType DEF IInv
    <3> QED  BY <3>1 DEF Elements
  <2>2. TellsOf(q, a) /\ TellsOf(r, a)
    BY <2>1 DEF Tells
  <2>3. ~ (Good(Candidates[a]) /\ Bad(Candidates[a]))
    BY <2>1, NeverBoth
  <2> QED  BY <1>1, <2>2, <2>3 DEF TellsOf
<1> QED  BY <1>1 DEF Keeps

LEMMA FollowingStep ==
  ASSUME Untangled, IInv, Leads(Whole), NamesRegistered, OnItsWay, FailedForGood, ReportTells, Following,
         [Next]_vars
  PROVE  Following'
<1> USE DEF registries, reports
<1>0. /\ TypeOK /\ AtACandidate /\ report \in LoadReport /\ last \in LoadReport /\ at \in Nat
      /\ Len(Candidates) \in Nat /\ report' \in LoadReport /\ at <= Len(Candidates) + 1
  BY CandidatesType, TypeStep DEF IInv, TypeOK
<1>1. PICK r : r = last
  OBVIOUS
<1>2. PICK q : q = report
  OBVIOUS
<1>3. CASE Writes
  <2>1. PICK n \in Nat :
           /\ n + 1 = at /\ n + 1 <= Len(Candidates) /\ Tells(report, n) /\ at' = n + 2
           /\ Adds(report', report, Candidates[n + 1], n)
           /\ report.end = "running" /\ report'.end = "running" /\ report'.disabled = report.disabled
           /\ report.disabled = disabled /\ disabled' = disabled /\ last' = last
    BY <1>0, <1>3, EntryIsTrue
  <2>2. PICK p : p = report'
    OBVIOUS
  <2>3. SUFFICES ASSUME r.end = "returned", r.disabled = q.disabled
                 PROVE  /\ Begins(p.loaded, r.loaded) /\ Begins(p.failed, r.failed)
                        /\ Begins(p.skipped, r.skipped)
    BY <1>1, <1>2, <2>1, <2>2 DEF Following, Begins
  <2>4. /\ Begins(q.loaded, r.loaded) /\ Begins(q.failed, r.failed) /\ Begins(q.skipped, r.skipped)
        /\ Tells(r, Len(Candidates)) /\ Tells(q, n) /\ n <= Len(Candidates)
    BY <1>0, <1>1, <1>2, <2>1, <2>3 DEF Following, ReportTells
  <2>5. Keeps(q.loaded, r.loaded, n) /\ Keeps(q.failed, r.failed, n) /\ Keeps(q.skipped, r.skipped, n)
    BY <2>3, <2>4, ReportsAgree
  <2>6. PICK e : e = Candidates[n + 1]
    OBVIOUS
  <2>7. n + 1 \in 1 .. Len(Candidates) /\ e \in Elements(Candidates)
    BY <1>0, <2>1, <2>6, CandidatesType DEF Elements
  <2>8. TellsOf(r, n + 1) /\ ~ (Good(e) /\ Bad(e))
    BY <2>4, <2>7, NeverBoth DEF Tells
  <2>9. /\ Listed(q.loaded, n) /\ Listed(q.failed, n) /\ Listed(q.skipped, n)
        /\ Listed(r.loaded, Len(Candidates)) /\ Listed(r.failed, Len(Candidates))
        /\ Listed(r.skipped, Len(Candidates))
    BY <2>4 DEF Tells
  <2>10. Adds(p, q, e, n)
    BY <1>2, <2>1, <2>2, <2>6
  <2>11. CASE /\ p.skipped = Append(q.skipped, e.name) /\ p.loaded = q.loaded /\ p.failed = q.failed
              /\ e.name \in q.disabled
    <3>1. e.name \in Elements(r.skipped) /\ Longer(p.skipped, q.skipped, n)
      BY <2>1, <2>3, <2>6, <2>8, <2>11 DEF TellsOf, Longer
    <3>2. Begins(p.skipped, r.skipped)
      BY <1>0, <2>1, <2>5, <2>6, <2>9, <3>1, KeepsOn
    <3> QED  BY <2>4, <2>11, <3>2
  <2>12. CASE /\ p.loaded = Append(q.loaded, e.name) /\ p.skipped = q.skipped /\ p.failed = q.failed
              /\ e.name \notin q.disabled /\ Good(e)
    <3>1. e.name \in Elements(r.loaded) /\ Longer(p.loaded, q.loaded, n)
      BY <2>1, <2>3, <2>6, <2>8, <2>12 DEF TellsOf, Longer
    <3>2. Begins(p.loaded, r.loaded)
      BY <1>0, <2>1, <2>5, <2>6, <2>9, <3>1, KeepsOn
    <3> QED  BY <2>4, <2>12, <3>2
  <2>13. CASE /\ p.failed = Append(q.failed, e.name) /\ p.skipped = q.skipped /\ p.loaded = q.loaded
              /\ e.name \notin q.disabled /\ Bad(e) /\ n + 1 > Len(Builtins)
    <3>1. e.name \in Elements(r.failed) /\ Longer(p.failed, q.failed, n)
      BY <2>1, <2>3, <2>6, <2>8, <2>13 DEF TellsOf, Longer
    <3>2. Begins(p.failed, r.failed)
      BY <1>0, <2>1, <2>5, <2>6, <2>9, <3>1, KeepsOn
    <3> QED  BY <2>4, <2>13, <3>2
  <2> QED  BY <2>10, <2>11, <2>12, <2>13 DEF Adds
<1>4. CASE Aborts
  <2>1. /\ pc = "failed" /\ at \in 1 .. Len(Candidates) /\ at <= Len(Builtins) /\ here.name \notin disabled
        /\ Bad(here) /\ report.disabled = disabled /\ last' = last
    BY <1>0, <1>4 DEF Aborts, End, builtin, AtACandidate, OnItsWay, FailedForGood, Bad, ReportTells
  <2>2. report'.disabled = report.disabled
    BY <1>0, <1>4 DEF Aborts, End, LoadReport
  <2>3. ASSUME last.end = "returned", last.disabled = report.disabled PROVE FALSE
    <3>1. TellsOf(last, at) /\ here = Candidates[at]
      BY <2>1, <2>3 DEF ReportTells, Tells, here
    <3>2. here \in Elements(Candidates)
      BY <1>0, <2>1, CandidatesType DEF here, Elements
    <3>3. ~ Good(here)
      BY <2>1, <3>2, NeverBoth
    <3>4. ~ at > Len(Builtins)
      BY <1>0, <2>1, BuiltinsComeFirst
    <3> QED  BY <2>1, <2>3, <3>1, <3>3, <3>4 DEF TellsOf
  <2> QED  BY <2>1, <2>2, <2>3 DEF Following
<1>5. CASE Finishes
  <2>1. /\ at = Len(Candidates) + 1 /\ report.end = "running" /\ at # 0 /\ last' = last
        /\ report' = [report EXCEPT !.end = "returned"]
    BY <1>0, <1>5 DEF Finishes, End, OnItsWay
  <2>2. report'.disabled = report.disabled /\ report'.end = "returned"
    BY <1>0, <2>1 DEF LoadReport
  <2>3. ASSUME r.end = "returned", r.disabled = q.disabled PROVE report' = r
    <3>1. /\ Begins(q.loaded, r.loaded) /\ Begins(q.failed, r.failed) /\ Begins(q.skipped, r.skipped)
          /\ Tells(r, Len(Candidates))
      BY <1>0, <1>1, <1>2, <2>1, <2>3 DEF Following, ReportTells
    <3>2. Tells(q, Len(Candidates))
      <4>1. at - 1 = Len(Candidates)
        BY <1>0, <2>1
      <4> QED  BY <1>2, <2>1, <4>1 DEF ReportTells
    <3>3. /\ Keeps(q.loaded, r.loaded, Len(Candidates)) /\ Keeps(q.failed, r.failed, Len(Candidates))
          /\ Keeps(q.skipped, r.skipped, Len(Candidates))
      BY <1>0, <2>3, <3>1, <3>2, ReportsAgree
    <3>4. /\ Listed(q.loaded, Len(Candidates)) /\ Listed(q.failed, Len(Candidates))
          /\ Listed(q.skipped, Len(Candidates)) /\ Listed(r.loaded, Len(Candidates))
          /\ Listed(r.failed, Len(Candidates)) /\ Listed(r.skipped, Len(Candidates))
      BY <3>1, <3>2 DEF Tells
    <3>5. q.loaded = r.loaded /\ q.failed = r.failed /\ q.skipped = r.skipped
      BY <1>0, <3>3, <3>4, KeptAll
    <3>6. q \in LoadReport /\ r \in LoadReport /\ report' = [q EXCEPT !.end = "returned"]
      BY <1>0, <1>1, <1>2, <2>1
    <3> QED  BY <2>3, <3>5, <3>6 DEF LoadReport
  <2> QED  BY <1>1, <1>2, <2>1, <2>2, <2>3 DEF Following
<1>6. CASE \E d \in Disablings : Discover(d)
  <2>1. /\ report'.end = "running" /\ report'.loaded = <<>> /\ report'.failed = <<>>
        /\ report'.skipped = <<>> /\ last' = report
    BY <1>6 DEF Discover, Empty
  <2>2. \A t : t \in Seq(AnyName) => Begins(<<>>, t)
    BY DEF Begins
  <2>3. /\ Begins(report'.loaded, last'.loaded) /\ Begins(report'.failed, last'.failed)
        /\ Begins(report'.skipped, last'.skipped)
    BY <1>0, <2>1, <2>2 DEF LoadReport
  <2> QED  BY <2>1, <2>3 DEF Following, Begins
<1>7. CASE \E m \in Importable : ImportElsewhere(m)
  <2>1. last'.end = "none"
    BY <1>7 DEF ImportElsewhere, Empty
  <2> QED  BY <2>1 DEF Following
<1>8. CASE Registers \/ Declares \/ Imports \/ Completes \/ Raises \/ Returns \/ Load \/ UNCHANGED vars
  <2>1. report' = report /\ last' = last
    BY <1>8 DEF Registers, Declares, Imports, Completes, Raises, Returns, Load, vars
  <2> QED  BY <2>1 DEF Following, Begins
<1> QED  BY <1>3, <1>4, <1>5, <1>6, <1>7, <1>8 DEF Next, Work, Writes

LEMMA UndisturbedStep ==
  TypeOK /\ OnItsWay /\ AtACandidate /\ Undisturbed /\ [Next]_vars => Undisturbed'
<1> SUFFICES ASSUME TypeOK, OnItsWay, AtACandidate, Undisturbed, [Next]_vars PROVE Undisturbed'
  OBVIOUS
<1> USE DEF registries, reports
<1>1. CASE Writes
  <2>1. report.end = "running" /\ report \in LoadReport
    BY <1>1 DEF Writes, Skip, Loaded, NeverRegistered, Failed, OnItsWay, AtACandidate, TypeOK
  <2>2. report'.end = report.end
    BY <1>1, <2>1 DEF Writes, Skip, Loaded, NeverRegistered, Failed, LoadReport
  <2> QED  BY <2>1, <2>2 DEF Undisturbed
<1>2. CASE Aborts \/ Finishes
  BY <1>2 DEF Aborts, Finishes, End, Undisturbed
<1>3. CASE (\E d \in Disablings : Discover(d)) \/ (\E m \in Importable : ImportElsewhere(m))
  <2>1. report'.end \in {"running", "none"}
    <3>1. CASE \E d \in Disablings : Discover(d)
      BY <3>1 DEF Discover, Empty
    <3>2. CASE \E m \in Importable : ImportElsewhere(m)
      BY <3>2 DEF ImportElsewhere, Empty
    <3> QED  BY <1>3, <3>1, <3>2
  <2> QED  BY <2>1 DEF Undisturbed
<1>4. CASE Registers \/ Declares \/ Imports \/ Completes \/ Raises \/ Returns \/ Load
  <2>1. report' = report /\ pc # "idle"
    BY <1>4 DEF Registers, Declares, Imports, Completes, Raises, Returns, Load, InStatement, Importing
  <2> QED  BY <2>1 DEF Undisturbed
<1>5. CASE UNCHANGED vars
  BY <1>5 DEF vars, Undisturbed
<1> QED  BY <1>1, <1>2, <1>3, <1>4, <1>5 DEF Next, Work, Writes

LEMMA FateInvariant == NamesApart => (Spec => []FateInv)
<1> SUFFICES ASSUME NamesApart PROVE Spec => []FateInv
  OBVIOUS
<1>1. Init => FateInv
  <2> SUFFICES ASSUME Init PROVE FateInv
    OBVIOUS
  <2>1. AttributionInv
    BY InitHolds DEF AttributionInv, Init, ImportsForOne, AttributedHonestly, Registered
  <2>2. /\ OnItsWay /\ Undisturbed /\ Chain /\ ImportsMet /\ NamesRegistered /\ FailedForGood
        /\ ReportTells /\ Following
    BY DEF Init, OnItsWay, Undisturbed, Chain, ImportsMet, NamesRegistered, FailedForGood, ReportTells,
           Following, Empty
  <2>3. Whole = {}
    BY DEF Init, Whole
  <2> QED  BY <2>1, <2>2, <2>3 DEF FateInv, Leads
<1>2. FateInv /\ [Next]_vars => FateInv'
  <2> SUFFICES ASSUME FateInv, [Next]_vars PROVE FateInv'
    OBVIOUS
  <2>1. /\ AttributionInv /\ IInv /\ TypeOK /\ AtACandidate /\ ImportsForOne /\ OnItsWay /\ Undisturbed
        /\ Chain /\ ImportsMet /\ NamesRegistered /\ FailedForGood
    BY DEF FateInv, AttributionInv, IInv
  <2>2. AttributionInv'
    <3>1. IInv'
      BY <2>1, TypeStep, AtACandidateStep, ModulesStep DEF IInv
    <3> QED  BY <2>1, <3>1, ImportsForOneStep, AttributionStep DEF AttributionInv
  <2>3. OnItsWay' /\ Undisturbed' /\ Chain' /\ ImportsMet' /\ NamesRegistered' /\ FailedForGood'
    BY <2>1, OnItsWayStep, UndisturbedStep, ChainStep, ImportsMetStep, NamesRegisteredStep,
       FailedForGoodStep
  <2>4. ASSUME Untangled' PROVE Leads(Whole)' /\ ReportTells' /\ Following'
    <3>1. Candidates' = Candidates
      BY DisabledOnlyChosen DEF Candidates
    <3>2. Untangled
      BY <2>4, <3>1 DEF Untangled, OnTheirOwn, Elements, Does
    <3>3. Leads(Whole) /\ ReportTells /\ Following
      BY <3>2 DEF FateInv
    <3> QED  BY <2>1, <3>2, <3>3, WholeLeadsStep, ReportTellsStep, FollowingStep
  <2> QED  BY <2>2, <2>3, <2>4 DEF FateInv
<1> QED  BY <1>1, <1>2, PTL DEF Spec

(***************************************************************************)
(* For any installed packs with names of their own, imported in no circle: *)
(* a discovery reports each of them once, and one it reports as failed is  *)
(* not there, now or after any later import, however many modules of the   *)
(* packs after it were imported since (packs/__init__.py:161-203).         *)
(***************************************************************************)
THEOREM EveryPackIsReported == NamesApart => (Spec => [](Untangled => EveryPackReported))
<1> SUFFICES ASSUME NamesApart PROVE Spec => [](Untangled => EveryPackReported)
  OBVIOUS
<1>1. FateInv => (Untangled => EveryPackReported)
  <2> SUFFICES ASSUME FateInv, Untangled, report.end = "returned"
               PROVE  /\ Len(report.loaded) + Len(report.failed) + Len(report.skipped) = Len(Candidates)
                      /\ \A e \in Elements(Candidates) :
                           LET good == e.name \in PACKS /\ e.module \in modules IN
                           /\ e.name \in Elements(report.skipped) <=> e.name \in disabled
                           /\ e.name \in Elements(report.loaded) <=> e.name \notin disabled /\ good
                           /\ e.name \in Elements(report.failed) <=> e.name \notin disabled /\ ~ good
    BY DEF EveryPackReported
  <2>1. IInv /\ AtACandidate /\ NamesRegistered /\ Leads(Whole) /\ Undisturbed
    BY DEF FateInv, AttributionInv, IInv
  <2>2. Tells(report, Len(Candidates)) /\ report.disabled = disabled
    BY DEF FateInv, ReportTells
  <2>3. Whole = modules
    BY <2>1 DEF Undisturbed, AtACandidate, Whole, InFlight
  <2>4. ASSUME NEW e \in Elements(Candidates)
        PROVE  /\ e.name \in Elements(report.skipped) <=> e.name \in disabled
               /\ e.name \in Elements(report.loaded) <=> e.name \notin disabled /\ Good(e)
               /\ e.name \in Elements(report.failed) <=> e.name \notin disabled /\ ~ Good(e)
    <3>1. PICK a \in 1 .. Len(Candidates) : Candidates[a] = e
      BY <2>1, CandidatesType DEF IInv, Elements
    <3>2. TellsOf(report, a)
      BY <2>2, <3>1 DEF Tells
    <3>3. ~ (Good(e) /\ Bad(e))
      BY <2>1, NeverBoth
    <3> QED  BY <2>2, <3>1, <3>2, <3>3 DEF TellsOf
  <2>5. Len(report.loaded) + Len(report.failed) + Len(report.skipped) = Len(Candidates)
    BY <2>2 DEF Tells
  <2> QED  BY <2>3, <2>4, <2>5 DEF Good
<1> QED  BY <1>1, FateInvariant, PTL

(***************************************************************************)
(* For the same packs: discovering them again reports the same, in the     *)
(* same order, whatever was discovered and imported before                 *)
(* (tests/test_packs.py:41-50).                                            *)
(***************************************************************************)
THEOREM DiscoveryAlwaysRepeats == NamesApart => (Spec => [](Untangled => DiscoveryRepeats))
<1> SUFFICES ASSUME NamesApart PROVE Spec => [](Untangled => DiscoveryRepeats)
  OBVIOUS
<1>1. FateInv => (Untangled => DiscoveryRepeats)
  BY DEF FateInv, Following, DiscoveryRepeats
<1> QED  BY <1>1, FateInvariant, PTL
===============================================================================
